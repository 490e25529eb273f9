SPECIFICATION FairSpec
CONSTANTS
  Keys = {k1, k2, k3}
  Sizes = {1, 2}
  TotalSizeLimit = 3
  TotalTimeLimit = 1
  StaleRemoveChunk = 1
  MaxBundledRecords = 2
  WriteBundleDelay = 1
  MaxTime = 3
  MaxPutTime = 2
INVARIANTS CountsAreRight PutIsKept StaleIsWatched
PROPERTIES TakesOldest SizeIsLimited
CHECK_DEADLOCK FALSE
