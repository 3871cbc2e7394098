CONSTANTS
  NTypes = 1
  Size <- MCSizeOne
  PipeSize = 4
  MaxRecords = 2
  SessionIds = {}
  InitialMode = "BUFFER_IDLE"
  BackendFails = TRUE
  MaxItems <- MCItemsOne
  QueueLimit = 2
  CloudStates = {"READY", "PAUSED", "OFFLINE"}
  MaxChanges = 2
  MaxRequests = 3
  SentCommands = {"MODE_PASSTHROUGH_REQUEST", "MODE_BUFFER_REQUEST", "FLUSH", "CLEAR"}
  Prompt = FALSE
SPECIFICATION DeliverySpec
INVARIANTS
  DeliveredOnce
PROPERTIES
  ConnectedSessionEnds
  LossIsKnown
CHECK_DEADLOCK FALSE
