CONSTANTS
  Ids = {1, 2, 3, 4, 5, 6, 7}
  BufferSize = 3
SPECIFICATION Spec
INVARIANTS
  NeverTwice
  ResetsForOld
