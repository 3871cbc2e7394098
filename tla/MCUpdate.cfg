CONSTANTS
  InitialMode = "PASSTHROUGH"
  Events = {"CLOUD_CONNECTED"}
  Responses = {}
  MaxResponses = 0
  QueueLimit = 1
  MaxCancels = 1
  SearchOnStartup = TRUE
  NetworkRequests = {"NETWORK_DISCONNECT", "NETWORK_CONNECT", "NETWORK_SEARCH_STOP"}
  MaxRequests = 1
  MaxOutages = 1
  RequestLimit = 1
  BacklogLimit = 1
  MaxTroubles = 1
SPECIFICATION UpdateSpec
INVARIANTS
  ResultComes
  UpdateAgreed
  AppliedOffline
PROPERTIES
  UndisturbedUpdateEnds
