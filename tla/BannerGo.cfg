SPECIFICATION Spec
CONSTANTS
  N = 2
  Lines = 4

INVARIANTS ClosedAfterLast
PROPERTIES PromiseKept
CHECK_DEADLOCK FALSE
