CONSTANTS
  Conns = {c1, c2}
  Fds = {f1, f2}
  Server = Server
  MaxWrites = 3
  Parts = 2
  MaxBurst = 2
  NoConn = NoConn
  NoFd = NoFd
  NoSocket = NoSocket
SPECIFICATION FairSpec
INVARIANTS TransfersIsolated NoWriteLost
PROPERTY DataServed
