SPECIFICATION Spec
CONSTANTS
  Clients = {c1}
  SignalHosts = {"run"}
  Kinds = {"data", "sync", "query"}
  MqSize = 1
  NqSize = 1
  Notifiers = 1
  Oversized = {1}
  QueryErrors = TRUE
  PluginFails = TRUE
  MaxMessages = 2
  MaxBreaks = 1
  MaxDbLosses = 0
  None = None
CHECK_DEADLOCK FALSE
INVARIANTS
  RelayedInOrder
  FarewellSent
PROPERTIES
  HandlerEnds
