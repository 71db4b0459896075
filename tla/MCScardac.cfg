SPECIFICATION Spec
CONSTANTS
  s1 = s1
  s2 = s2
  w1 = w1
  w2 = w2
  a = a
  b = b
  Streams = {s1, s2}
  Workers = {w1, w2}
  Setups <- MCSetups
  Capacity = 2
  Jitter = 0
  BatchSize = 2
  MaxSegments = 3
  None = None
CHECK_DEADLOCK FALSE
INVARIANTS
  IndexExact
  EachOnce
PROPERTIES
  ConfirmedKept
  ScanEnds
