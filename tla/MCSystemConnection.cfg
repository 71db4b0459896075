SPECIFICATION Spec
CONSTANTS
  Groups = {"EVENT", "PICK"}
  MaxMessages = 1
  MaxSends = 1
  MaxBreaks = 1
  MaxDeaths = 1
  MaxRefusals = 1
  MaxTimeouts = 1
  Disconnects = TRUE
CHECK_DEADLOCK FALSE
INVARIANTS
  TypeOK
  Resubscribed
  ReadOnce
PROPERTIES
  Recovers
  ReaderEnds
