CONSTANTS
  NProc = 4
  MaxPid = 4
  Allowed <- AnyProgram
  Procs = {p1, p2}
  NInodes = 4
  Names = {"d", "e", "x"}
  SysCalls <- SomeCalls
  MaxCalls = 4
  Files = {0, 1}
  Fds = {0, 1}
  NoFile = NoFile
SYMMETRY FileSymmetry
SPECIFICATION MCSpec
INVARIANTS ExitsHeard RefsTrack NamesExist 
