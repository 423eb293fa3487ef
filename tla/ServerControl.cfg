SPECIFICATION FairSpec
CONSTANTS
  Threads = {t1, t2}
  Clients = {k1, k2}
  Nobody = Nobody
  Loop = Loop
  MaxCalls = 3
INVARIANTS ThreadsSafe RunningOrClean
PROPERTY CallsReturn
CHECK_DEADLOCK FALSE
