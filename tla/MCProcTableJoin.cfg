CONSTANTS
  NProc = 4
  MaxPid = 7
  Allowed <- Joined
SPECIFICATION Spec
INVARIANTS JoinMarked
CHECK_DEADLOCK FALSE
