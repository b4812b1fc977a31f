CONSTANTS
  Procs = {p1, p2}
  NInodes = 4
  Names = {"d", "e", "x"}
  SysCalls <- SomeCalls
  MaxCalls = 4
  Files = {0, 1}
  Fds = {0, 1}
  None = None
SPECIFICATION TSpec
INVARIANTS OwnerAlive
CHECK_DEADLOCK FALSE
