CONSTANTS
  None = None
  Procs = {y1, y2}
  NBUF = 3
  Sectors = {x1, x2, x3, z}
  MaxDirty = 1
  MaxHold = 1
  Users = {x1, x2, x3}
  Bytes = {y1, y2}
  PIPESIZE = 2
  Wrap = 4
  Lengths = {1, 3}
  Students = {x1, x2, x3, z}
  Bartenders = {y1, y2}
  Cups = {c1, c2, c3}
  Regular = z
  Drinks <- SomeDrinks
  M = 2
  A = 2
  Nobody = Nobody
SYMMETRY TablesSymmetry
SPECIFICATION MCSpec
INVARIANTS  OrdersMatch BoyKnows
INVARIANTS RingIsQueue  NotFreedInUse
INVARIANTS CacheCoherent OneHolder SleepersServed 
INVARIANTS HeapExact
