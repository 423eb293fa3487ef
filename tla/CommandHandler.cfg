CONSTANTS
  Conns = {c1, c2}
  Apps = {"live"}
  Names = {a, b}
  IdSpace = 6
  MaxStreamId = 4
  MaxReleased = 2
  ForeignDelete = FALSE
  NoStream = NoStream
  NoKey = NoKey
  NoConn = NoConn
SPECIFICATION Spec
SYMMETRY Symmetry
INVARIANTS TypeOK IndexSound SessionWellFormed PublisherOwnsStream UniqueStreamIds
PROPERTY ImplementsDirectory
