SPECIFICATION ProtocolSpec
CONSTANTS
  Csids = {3, 4}
  Control = 2
  MaxMessages = 3
  MaxLength = 2
  MIN_CHUNK_SIZE = 1
  MAX_CHUNK_SIZE = 2
  DEFAULT_CHUNK_SIZE = 1
  Marker = 2
  MaxDelta = 2
  TimeSpace = 4
  AssemblyStreams = {c1, c2}
  AssemblyTypes = {9, 21}
  MaxBody = 2
  MaxSent = 2
  LengthWrap = 4
  MaxDepth = 2
  GroupBits = 2
  MaxCalls = 2
INVARIANTS InputParsed Reassembled
CHECK_DEADLOCK FALSE
