SPECIFICATION Spec
CONSTANTS
  ArchiveSize = 2
  MaxSeqNum = 2
  MaxData = 4
  MaxReplies = 2
  MaxClock = 2
  None = None
CHECK_DEADLOCK FALSE
INVARIANTS
  TypeOK
  NotFreedInUse
