SPECIFICATION Spec
CONSTANTS
  Clients = {c1}
  Buffers = 3
  MaxBuffers = 4
  Streams = 1
  SegmentSize = 2
  Segments = 3
  Modes <- MCModes
  Blanks = 1
  GapLimit = 3
  Mod = 11
  Start = 8
  GrowsFull = FALSE
  MaxPackets = 7
  MaxStops = 1
  MaxLost = 1
  None = None
CHECK_DEADLOCK FALSE
INVARIANTS
  StoreConsistent
  CursorsValid
  NothingSkipped
  Scheduled
PROPERTIES
  InOrder
  CatchesUp
