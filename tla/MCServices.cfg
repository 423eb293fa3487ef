SPECIFICATION ServicesSpec
CONSTANTS
  PoolThreads = {t1, t2}
  MaxConnections = 3
  PreAllocateCount = 1
  DefaultConnections = 3
  MaxHandles = 3
  LimitThreads = {t1, t2}
  LimitPublishers = {p1, p2, p3, p4}
  ConfiguredPublishers = 3
  MaxSlotCalls = 3
  LifeThreads = {t1, t2}
  AuthApps = {"a1", "a2"}
  StreamKeys = {k1}
  AttemptLimit = 2
  Minute = 2
  AuthHorizon = 5
  Bits = 2
  Bytes = 2
  RuleIds = {r1}
  RuleApps = {"live"}
  LoginThreads = {t1, t2}
  MaxAttempts = 2
  Window = 2
  BlockFor = 3
  AclHorizon = 6
  MaxFileSize = 1
  MaxBackupFiles = 2
  RotationInterval = 1
  LogThreads = {t1, t2}
  SinkPolicies <- Policies
  MaxLines = 2
  MaxRotations = 2
  MaxFaults = 1
  MaxSinkCalls = 1
  LogHorizon = 2
  PinHashes = {h1}
  MaxHandlesTLS = 3
  MaxPins = 2
  MaxShutdowns = 1
  Updaters = {t1, t2}
  PortWrap = 8
  CountWrap = 16
  MaxUpdates = 3
  MaxTokens = 5
  MaxYamlLines = 4
  Indents = {0, 2, 4, 5}
  Sessions = {s1, s2}
  SessionKeys = {"k"}
  MaxTransitions = 3
  PubThreads = {t1, t2}
  PubSubscribers = {s1}
  TimestampWrap = 8
  GapThreshold = 1
  FrameTimes = {0, 1, 3, 6, 7}
  MaxStarts = 2
  MaxFrames = 2
  MetricThreads = {t1, t2}
  Wrap = 8
  MaxEvents = 2
  MaxSamples = 3
  SampleValues = {1, 2, 3}
  BucketBounds <- Buckets
  MaxArrivals = 2
  MaxAsync = 2
  Rebinders = {r1}
  GracePeriod = 1
  MonitorHorizon = 1
INVARIANTS
  ResourcesAccounted LifecycleConsistent AccessLimited  HandlesNotReused
  UpdatesAgree ValuesExact  PlatformStateKept
CHECK_DEADLOCK FALSE
