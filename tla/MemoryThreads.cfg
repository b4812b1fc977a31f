CONSTANTS
  Procs = {p1, p2}
  None = None
  NPages = 12
  PGSIZE = 2
  NPTE = 2
  NTab = 3
  Sbrks = {1, 3}
  Images = {1, 3}
  W = 64
SPECIFICATION TSpec
INVARIANTS GrowReturns
CHECK_DEADLOCK FALSE
