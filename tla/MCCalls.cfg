SPECIFICATION CallsSpec
CONSTANTS
  NThreads = 3
  MaxRows = 5
  MaxJobs = 3
  EpochCount = 2
  NoJob = NoJob
  Workers = {w1, w2}
  Paths = {p1}
  MaxId = 2
  ModelLimit = 2
  MaxSwaps = 1
  Nobody = Nobody
  NoPath = NoPath
INVARIANTS PoolTypeOK JobIsPinned EveryRowOnce
PROPERTIES CallsReturn ListingResponds RequestsEnd
