SPECIFICATION Spec
CONSTANTS
  Keys = {k1, k2}
  Values = {v1, v2}
  None = None
  MaxBundledRecords = 2
  MaxPlaces = 3
  MaxMoves = 1
  MaxCompactions = 1
  MaxTroubles = 2
  MaxFaults = 1
SYMMETRY Symmetric
INVARIANTS NothingLost NeverStale OwnFile
CHECK_DEADLOCK FALSE
