CONSTANTS
  InitialMode = "BUFFER"
  Events <- MCRunEvents
  Responses <- MCResponses
  MaxResponses = 1
  QueueLimit = 2
SPECIFICATION Spec
INVARIANTS
  ReportedModeIsRequested
