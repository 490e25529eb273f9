SPECIFICATION Spec
CONSTANTS
  Common = "common"
  Channels = {"channel"}
  Counts = {1}
  Vias = {"push"}
  LoadedWithoutPts = TRUE
  MaxPts <- ChannelTo3
  MaxZero = 0
  MaxFails = 0
  MaxTooLong = 0
  MaxSessions = 0
  MaxTroubles = 0
INVARIANT GapIsWatched
CHECK_DEADLOCK FALSE
