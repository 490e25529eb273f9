SPECIFICATION FairSpec
CONSTANTS
  Vias = {"push","reply"}
  MaxSpan = 2
  MaxSeq = 3
  MaxSlices = 1
  MaxFails = 1
  MaxAsks = 1
  MaxSessions = 1
INVARIANTS SeqNothingForgotten HeldBackIsWatched
PROPERTIES SeqInOrder AllTakenAtLast
CHECK_DEADLOCK FALSE
