CONSTANTS
  Conns = {c1, c2}
  Apps = {"live"}
  Names = {a}
  IdSpace = 4
  MaxStreamId = 2
  MaxReleased = 1
  ForeignDelete = FALSE
  LiveApp = "live"
  Limits = {0}
  CounterSpace = 3
  NoStream = NoStream
  NoKey = NoKey
  NoConn = NoConn
SPECIFICATION ServerSpec
SYMMETRY Symmetry
INVARIANT DisconnectIsolated
CHECK_DEADLOCK FALSE
