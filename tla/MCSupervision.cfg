SPECIFICATION SupervisionSpec
CONSTANTS
  ShutThreads = {t1, t2}
  ShutPublishers = {p1}
  ShutConnections = {x1}
  ShutStreams = {s1}
  MaxRecorded = 1
  IsoConnections = {x1}
  Reporters = {t1, t2}
  RestartAttempts = 2
  BreakerThreshold = 2
  MemoryThreshold = 90
  MaxLateFailures = 3
  AuthThreads = {t1, t2}
  AuthKeys = {k1}
  CircuitThreshold = 3
  MaxRequests = 3
  P = 6
  MaxData = 6
  Handlers = {t1, t2}
  PoolWorkers = {t1, t2}
  Submitters = {t1, t2}
  MaxWork = 2
  TimerUsers = {t1, t2}
  TimerThreads = {t1, t2}
  MaxTimers = 2
  MaxExpirations = 3
  Joiners = {t1, t2}
  MaxThreads = 2
INVARIANTS HandshakeExact FailuresContained DoneOnce
PROPERTIES ShutdownForward CallsEnd BegunIsFinished
CHECK_DEADLOCK FALSE
