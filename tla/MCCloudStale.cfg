CONSTANTS
  BackoffType = "LINEAR"
  BackoffInitial = 1
  BackoffIncrement = 1
  BackoffMax = 60
  WordSize = 256
  Prompt = TRUE
  MaxFailures = 1
  MaxChanges = 3
  MaxRequests = 0
  QueueLimit = 3
SPECIFICATION CloudSpec
PROPERTIES
  ReadyIsConnected
CHECK_DEADLOCK FALSE
