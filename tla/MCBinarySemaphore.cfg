SPECIFICATION Spec
CONSTANTS
  NProc = 3
  NSem = 2
  NCPU = 2
  Pid <- TwoAndOthers
  MutexIds = {0}
  MaxCreates = 1
  MaxLag = 1
  Exiters = {1}
  Killers = {2}
INVARIANTS  MutualExclusion 
PROPERTIES OrderKept Linearizable
CHECK_DEADLOCK FALSE
