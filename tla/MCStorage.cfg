CONSTANTS
  NTypes = 2
  Size <- MCSize
  PipeSize = 5
  MaxRecords = 2
  SessionIds = {1, 2}
  InitialMode = "BUFFER_IDLE"
  BackendFails = TRUE
  MaxItems <- MCItems
  QueueLimit = 2
SPECIFICATION Spec
INVARIANTS
  TypeOK
  PipeOnlyInSession
  RecordOrder
  PipeFits
  ConfirmedModeHolds
  AvailableIsTrue
PROPERTIES
  BackendIsFifo
