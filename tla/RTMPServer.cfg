CONSTANTS
  Conns = {c1, c2}
  Apps = {"live", "cam"}
  Names = {a}
  IdSpace = 4
  MaxStreamId = 2
  MaxReleased = 1
  ForeignDelete = FALSE
  LiveApp = "live"
  Limits = {1, 2}
  CounterSpace = 3
  NoStream = NoStream
  NoKey = NoKey
  NoConn = NoConn
SPECIFICATION ServerSpec
SYMMETRY Symmetry
INVARIANTS ConnectionsCounted NeverForgotten StreamsAccounted StreamsOwned
PROPERTY ConnectionLimit
CHECK_DEADLOCK FALSE
