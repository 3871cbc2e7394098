CONSTANTS
  NTypes = 2
  Size <- MCSize
  PipeSize = 4
  MaxRecords = 2
  SessionIds = {}
  InitialMode = "BUFFER_IDLE"
  BackendFails = FALSE
  MaxItems <- MCItems
  QueueLimit = 2
  CloudStates = {"READY"}
  MaxChanges = 0
  MaxRequests = 3
  SentCommands = {"MODE_PASSTHROUGH_REQUEST", "MODE_BUFFER_REQUEST", "FLUSH"}
  Prompt = TRUE
SPECIFICATION DeliverySpec
INVARIANTS
  NothingLost
  NoTornRead
PROPERTIES
  SessionDelivers
CHECK_DEADLOCK FALSE
