SPECIFICATION Spec
CONSTANTS
  NProc = 2
  NSem = 1
  NCPU = 1
  Pid <- OnePid
  MutexIds = {0}
  MaxCreates = 1
  MaxLag = 1
  Exiters = {}
  Killers = {}
INVARIANTS NoMissedWakeup
