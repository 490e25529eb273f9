SPECIFICATION Spec
CONSTANTS
  Requests = {1, 2}
  Scenarios <- Safe
INVARIANTS NothingForgotten NotRepeated SentOnce
CHECK_DEADLOCK FALSE
