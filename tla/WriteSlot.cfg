CONSTANTS
  Conns = {c1}
  Fds = {f1}
  Server = Server
  MaxWrites = 2
  Parts = 2
  MaxBurst = 2
  NoConn = NoConn
  NoFd = NoFd
  NoSocket = NoSocket
SPECIFICATION Spec
INVARIANT EveryWriteKept
