SPECIFICATION FairSpec
CONSTANTS
  Common = "common"
  Channels = {}
  Counts = {1, 2}
  Vias = {"push", "reply", "affected"}
  LoadedWithoutPts = FALSE
  MaxPts <- CommonTo3
  MaxZero = 0
  MaxFails = 1
  MaxTooLong = 1
  MaxSessions = 1
  MaxTroubles = 3
INVARIANTS TypeOK AppliedInOrder GapIsWatched
PROPERTIES PtsNeverGoesBack CatchesUp
CHECK_DEADLOCK FALSE
