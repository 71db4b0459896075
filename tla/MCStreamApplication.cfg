SPECIFICATION Spec
CONSTANTS
  QueueSize = 1
  Records = 4
  MaxMessages = 1
  MaxLosses = 1
  DatabaseFails = TRUE
  Exits = TRUE
CHECK_DEADLOCK FALSE
INVARIANTS
  TypeOK
  SyncOwnsLock
  SyncInTime
PROPERTIES
  AcquisitionGoesOn
  EndsAfterExit
