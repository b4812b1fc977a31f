CONSTANTS
  Procs = {p1, p2, p3}
  Sectors = {s1, s2, s3}
  Data = {d0, d1}
  LOGSIZE = 2
  Inodes = {i1, i2}
  Files = {f1, f2}
SPECIFICATION MCSpec
INVARIANTS BlocksOwned OneTransaction CountExact OrphansToInit
INVARIANTS PagesOwnedOnce SizeMapped
PROPERTIES ImplementsDisk ImplementsFile ReapsZombies InitCollects
