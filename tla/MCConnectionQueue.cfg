SPECIFICATION Spec
CONSTANTS
  Groups = {"EVENT"}
  MaxMessages = 1
  MaxSends = 1
  MaxBreaks = 0
  MaxDeaths = 0
  MaxRefusals = 0
  MaxTimeouts = 0
  Disconnects = FALSE
CHECK_DEADLOCK FALSE
PROPERTIES
  QueuedIsRead
