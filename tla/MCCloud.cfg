CONSTANTS
  BackoffType = "LINEAR"
  BackoffInitial = 1
  BackoffIncrement = 1
  BackoffMax = 60
  WordSize = 256
  Prompt = TRUE
  MaxFailures = 3
  MaxChanges = 6
  MaxRequests = 2
  QueueLimit = 4
SPECIFICATION FairCloudSpec
INVARIANTS
  CloudTypeOK
  ReportIsTrue
  AnswerComes
  BackoffCounts
PROPERTIES
  ConnectsAtLast
  OfflineIsReported
  BackoffIsWaited
CHECK_DEADLOCK FALSE
