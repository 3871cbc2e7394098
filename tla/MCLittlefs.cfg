CONSTANTS
  RecordsPerType = 3
  EntriesPerBlock = 2
  OffsetLimit = 6
  MaxStores = 8
  MaxResets = 2
SPECIFICATION LfsSpec
PROPERTIES
  FilesAreFifo
  RecordsStay
CHECK_DEADLOCK FALSE
