SPECIFICATION FairSpec
CONSTANTS
  Requests = {1, 2}
  Scenarios <- Live
PROPERTIES Answered Drains
CHECK_DEADLOCK FALSE
