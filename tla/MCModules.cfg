CONSTANTS
  SearchOnStartup = TRUE
  NetworkRequests = {"NETWORK_DISCONNECT", "NETWORK_CONNECT", "NETWORK_SEARCH_STOP", "NETWORK_QUALITY_SAMPLE_REQUEST", "NETWORK_SYSTEM_MODE_REQUEST"}
  MaxRequests = 3
  MaxOutages = 3
  MaxSearches = 4
  MaxSearchCancels = 2
  MaxSamples = 2
  MaxVbusChanges = 4
  MaxPresses = 3
  Patterns <- MCPatterns
  MaxPatterns = 3
SPECIFICATION ModulesSpec
INVARIANTS
  ModulesTypeOK
  StateFollowsModem
  SearchIsKnown
  UartsFollowVbus
  OneEventPerPress
  BlinksAsAsked
PROPERTIES
  SearchIsAnswered
CHECK_DEADLOCK FALSE
