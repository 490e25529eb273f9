SPECIFICATION Spec
CONSTANTS
  Common = "common"
  Channels = {"channel"}
  Counts = {1}
  Vias = {"push", "affected"}
  LoadedWithoutPts = TRUE
  MaxPts <- ChannelTo3
  MaxZero = 1
  MaxFails = 0
  MaxTooLong = 0
  MaxSessions = 1
  MaxTroubles = 1
INVARIANT IInv
PROPERTY ImplementsFeed
CHECK_DEADLOCK FALSE
