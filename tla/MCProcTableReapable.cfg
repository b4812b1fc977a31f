CONSTANTS
  NProc = 3
  MaxPid = 3
  Allowed <- Detached
SPECIFICATION Spec
INVARIANTS Reapable
CHECK_DEADLOCK FALSE
