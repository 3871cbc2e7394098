CONSTANTS
  InitialMode = "BUFFER"
  Events = {"BUTTON_PRESS_SHORT"}
  Responses = {}
  MaxResponses = 0
  QueueLimit = 1
SPECIFICATION FairSpec
PROPERTIES
  SamplingGoesOn
