SPECIFICATION FairSpec
CONSTANTS
  NProc = 3
  NSem = 1
  NCPU = 1
  Pid <- TwoAndOthers
  MutexIds = {}
  MaxCreates = 1
  MaxLag = 1
  Exiters = {0}
  Killers = {}
PROPERTIES ZombieStays LockAcquired
CHECK_DEADLOCK FALSE
