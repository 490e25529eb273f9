SPECIFICATION FairSpec
CONSTANTS
  Producers = {p1, p2}
  Workers = {w1, w2}
  Entries = {e1, e2}
  None = None
  MaxPushes = 4
INVARIANT NoLostWakeUp
PROPERTIES Serial AllRun SyncReturns
CHECK_DEADLOCK FALSE
