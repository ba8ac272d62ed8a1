SPECIFICATION Spec
CONSTANTS
  Budget = 2
  Chunks = 3
  Connections = 2
  MaxWindow = 2
  MaxTime = 7
CHECK_DEADLOCK FALSE
INVARIANT DispatchedOnce
