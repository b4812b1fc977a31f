CONSTANTS
  NProc = 3
  MaxPid = 3
  Allowed <- Detached
SPECIFICATION Spec
PROPERTIES ReapsZombies
CHECK_DEADLOCK FALSE
