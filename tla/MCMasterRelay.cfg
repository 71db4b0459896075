SPECIFICATION Spec
CONSTANTS
  Clients = {c1}
  SignalHosts = {}
  Kinds = {"data", "connect", "leave", "expel"}
  MqSize = 1
  NqSize = 1
  Notifiers = 2
  Oversized = {}
  QueryErrors = FALSE
  PluginFails = FALSE
  MaxMessages = 3
  MaxBreaks = 1
  MaxDbLosses = 1
  None = None
CHECK_DEADLOCK FALSE
INVARIANTS
  TypeOK
  NothingLost
  WrittenOrCounted
  
PROPERTIES
  EveryMessageRelayed
