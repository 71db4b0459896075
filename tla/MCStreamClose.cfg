SPECIFICATION Spec
CONSTANTS
  QueueSize = 3
  Records = 2
  MaxMessages = 0
  MaxLosses = 0
  DatabaseFails = FALSE
  Exits = FALSE
CHECK_DEADLOCK FALSE
PROPERTIES
  EndsWhenFinished
