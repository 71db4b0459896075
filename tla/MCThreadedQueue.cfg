SPECIFICATION Spec
CONSTANTS
  Threads = {t1, t2, t3}
  Values = {a, b}
  Sizes = {0, 1, 2, 3}
  None = None
INVARIANTS
  TypeOK
  RingConsistent
  NoLostWakeup
PROPERTIES
  Refinement
  CloseReleasesAll
