CONSTANTS
  Threads = {t1, t2, t3, t4, t5}
  InitialValue = 0
  MaxValue = 3
  Producers = {p1, p2}
  Consumers = {c1, c2}
  Items = {x, y}
  Null = Null
  N = 2
  Readers = {r1, r2}
SPECIFICATION MCSpec
INVARIANTS  ForegroundDone ParseExact TextExact
PROPERTIES ImplementsCounting ImplementsQueue ImplementsLines LineEnds
