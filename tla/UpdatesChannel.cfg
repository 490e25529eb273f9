SPECIFICATION FairSpec
CONSTANTS
  Common = "common"
  Channels = {"channel"}
  Counts = {1}
  Vias = {"push"}
  LoadedWithoutPts = FALSE
  MaxPts <- ChannelTo3
  MaxZero = 0
  MaxFails = 1
  MaxTooLong = 1
  MaxSessions = 1
  MaxTroubles = 2
INVARIANTS NothingSkipped NothingForgotten OneRequest
PROPERTY CatchesUp
CHECK_DEADLOCK FALSE
