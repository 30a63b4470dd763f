SPECIFICATION Spec
CONSTANTS
  Lines = 4
  Max = 2
  Programs = {"banner-grab-tcp", "forge-socket"}

INVARIANTS GrabInv
PROPERTIES PromiseKept
CHECK_DEADLOCK FALSE
