CONSTANTS
  InitialMode = "BUFFER"
  Events <- MCEvents
  Responses <- MCResponses
  MaxResponses = 2
  QueueLimit = 2
SPECIFICATION FairSpec
INVARIANTS
  TypeOK
  ConnectionKnown
  ModeKnown
  TimersFitState
  CyclesGoOn
PROPERTIES
  SearchesApart
  AnsweredSamplingGoesOn
