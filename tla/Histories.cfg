SPECIFICATION FairSpec
CONSTANTS
  h1 = h1
  h2 = h2
  Chats <- Both
  MaxTill = 2
  Timeout = 1
  Scenarios <- Together
INVARIANTS LoadsAfterDeletions EntryIsWatched EntryIsPostponed ReadsInOrder
PROPERTIES ReadIsSent ComesToRest
CHECK_DEADLOCK FALSE
