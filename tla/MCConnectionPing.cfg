SPECIFICATION Spec
CONSTANTS
  Stations = {1, 2}
  Default = 1
  Backlogs <- MCBacklogs
  WebSocket = TRUE
  MaxPackets = 2
  MaxPings = 1
  MaxInfos = 1
  MaxAnswer = 1
  None = None
CHECK_DEADLOCK FALSE
PROPERTY EndComes
