CONSTANTS
  NTypes = 1
  Size <- MCSizeOne
  PipeSize = 4
  MaxRecords = 2
  SessionIds = {}
  InitialMode = "BUFFER_IDLE"
  BackendFails = FALSE
  MaxItems <- MCItemsOne
  QueueLimit = 2
  CloudStates = {"READY", "OFFLINE"}
  MaxChanges = 2
  MaxRequests = 2
  SentCommands = {"MODE_PASSTHROUGH_REQUEST"}
  Prompt = FALSE
SPECIFICATION DeliverySpec
PROPERTIES
  SessionEnds
CHECK_DEADLOCK FALSE
