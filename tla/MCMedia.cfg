SPECIFICATION StreamingSpec
CONSTANTS
  GopConfigs <- Caches
  SubConfigs <- Queues
  MaxPushed = 5
  QueueTimes = 4
  Subs = {s1}
  Published = {"keyframe", "inter"}
  GopConfig <- SmallCache
  MaxFrames = 3
  MaxRounds = 2
  TimeSpace = 8
  HandlerThreads = {t1, t2}
  MaxMessages = 2
  LatencyThreads = {t1, t2}
  Chunks = {c1}
  LatencyStreams = {s1}
  Latencies = {1, 3}
  SlowTime = 1
  AlertThreshold = 2
  LatencyHorizon = 2
  MaxLatencySamples = 3
  MaxForwards = 3
  RateThreads = {t1, t2}
  RateStreams = {"s1"}
  Sizes = {1, 2}
  SmoothingWindow = 1
  WarningCooldown = 2
  StreamLimit = 1
  AggregateLimit = 2
  RateHorizon = 5
  MaxRecords = 3
INVARIANTS FeedWhole CacheSound QueueSound MediaHandled RatesMeasured
PROPERTY NothingLostSilently
CHECK_DEADLOCK FALSE
