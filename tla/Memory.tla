------------------------------- MODULE Memory --------------------------------
(***************************************************************************)
(* Physical pages (kalloc.c) and the page tables of processes (vm.c),      *)
(* under sbrk, fork, exec and wait (proc.c, exec.c).  The free list has a  *)
(* lock and a process works on its own page tables, so that a call is one  *)
(* step.  An address space is [dir, ktab, tab, pte, guard]: the pages of   *)
(* the directory, of the kernel's part and of the page tables, the page    *)
(* that each entry maps (0 when it is not present), and the entries        *)
(* without PTE_U.  Addresses count bytes; a page has PGSIZE of them.       *)
(***************************************************************************)
EXTENDS Integers, Sequences, FiniteSets, FiniteSetsExt

CONSTANTS Procs, None,
          NPages,      \* physical pages are 1 .. NPages
          PGSIZE,      \* bytes in a page
          NPTE,        \* entries of a page table
          NTab,        \* page tables below KERNBASE
          Sbrks,       \* arguments of sbrk, positive and negative
          Images,      \* sizes of program images
          W            \* unsigned arithmetic is modulo W

KERNBASE == NTab * NPTE * PGSIZE
Vpages == 0 .. NTab * NPTE - 1

VARIABLES free,           \* kmem.freelist
          space, sz,      \* pgdir and sz of the processes
          kstack,         \* their kernel stacks
          state, parent,  \* UNUSED, RUNNABLE or ZOMBIE
          hole,           \* history: allocuvm has gone on without a page table
          leak,           \* history: memory ran out in setupkvm or walkpgdir
          panic

vars == <<free, space, sz, kstack, state, parent, hole, leak, panic>>

NoSpace == [dir |-> 0, ktab |-> 0, tab |-> [t \in 0 .. NTab - 1 |-> 0],
            pte |-> [v \in Vpages |-> 0], guard |-> {}]

PGROUNDUP(a) == ((a + PGSIZE - 1) \div PGSIZE) * PGSIZE
Vpage(a) == a \div PGSIZE
Table(v) == v \div NPTE

-----------------------------------------------------------------------------
(* m is the memory in the middle of a call, with the address space s that  *)
(* is worked on, and ok the result.                                        *)
Memory(pages, s) ==
  [free |-> pages, s |-> s, ok |-> TRUE, hole |-> FALSE, leak |-> FALSE, why |-> "none"]
Mem(s) == Memory(free, s)

(* kalloc takes a page, which is Page(m); kfree.                           *)
Page(m) == Min(m.free)
Kalloc(m) == [m EXCEPT !.free = @ \ {Page(m)}]
Kfree(m, pages) == [m EXCEPT !.free = @ \union pages]

(* walkpgdir with alloc.                                                   *)
Walk(m, v) ==
  IF m.s.tab[Table(v)] # 0 THEN m
  ELSE IF m.free = {} THEN [m EXCEPT !.ok = FALSE, !.leak = TRUE]
  ELSE [Kalloc(m) EXCEPT !.s.tab[Table(v)] = Page(m)]

(* mappages of one page; "remap" is a panic.                               *)
Mappages(m, v, page) ==
  LET w == Walk(m, v)
  IN IF ~w.ok THEN w
     ELSE IF w.s.pte[v] # 0 THEN [w EXCEPT !.ok = FALSE, !.why = "remap"]
     ELSE [w EXCEPT !.s.pte[v] = page]

(* setupkvm: what it has taken is not given back when it fails.            *)
Setupkvm(m) ==
  IF Cardinality(m.free) < 2 THEN [m EXCEPT !.free = {}, !.ok = FALSE, !.leak = m.free # {}]
  ELSE LET d == Kalloc(m)
       IN [Kalloc(d) EXCEPT !.s = [NoSpace EXCEPT !.dir = Page(m), !.ktab = Page(d)]]

(* The loop of deallocuvm, from page v to oldsz: a missing page table is   *)
(* skipped.  Mutant: the entry is not cleared.                             *)
RECURSIVE DeallocLoopKept(_, _, _)
DeallocLoopKept(m, v, oldsz) ==
  IF v * PGSIZE >= oldsz THEN m
  ELSE IF m.s.tab[Table(v)] = 0 THEN DeallocLoopKept(m, v + NPTE, oldsz)
  ELSE DeallocLoopKept(Kfree(m, {m.s.pte[v]} \ {0}), v + 1, oldsz)
RECURSIVE DeallocLoop(_, _, _)
DeallocLoop(m, v, oldsz) ==
  IF v * PGSIZE >= oldsz THEN m
  ELSE IF m.s.tab[Table(v)] = 0 THEN DeallocLoop(m, v + NPTE, oldsz)
  ELSE DeallocLoop([Kfree(m, {m.s.pte[v]} \ {0}) EXCEPT !.s.pte[v] = 0, !.s.guard = @ \ {v}],
                   v + 1, oldsz)

(* deallocuvm, and the size it returns.                                    *)
Deallocuvm(m, oldsz, newsz) ==
  IF newsz >= oldsz THEN m ELSE DeallocLoop(m, Vpage(PGROUNDUP(newsz)), oldsz)
DeallocSize(oldsz, newsz) == IF newsz >= oldsz THEN oldsz ELSE newsz

(* The loop of allocuvm.  What mappages returns is not looked at.          *)
RECURSIVE AllocLoop(_, _, _, _)
AllocLoop(m, v, oldsz, newsz) ==
  IF v * PGSIZE >= newsz \/ m.why # "none" THEN m
  ELSE IF m.free = {} THEN [Deallocuvm(m, newsz, oldsz) EXCEPT !.ok = FALSE]
  ELSE LET w == Mappages(Kalloc(m), v, Page(m))
       IN AllocLoop([w EXCEPT !.ok = TRUE, !.hole = @ \/ (~w.ok /\ w.why = "none")], v + 1, oldsz, newsz)

(* allocuvm fails with 0; AllocSize is what it returns otherwise.          *)
Allocuvm(m, oldsz, newsz) ==
  IF newsz >= KERNBASE THEN [m EXCEPT !.ok = FALSE]
  ELSE IF newsz < oldsz THEN m ELSE AllocLoop(m, Vpage(PGROUNDUP(oldsz)), oldsz, newsz)
AllocSize(oldsz, newsz) == IF newsz < oldsz THEN oldsz ELSE newsz

(* freevm.  Mutant: the page tables are not freed.                         *)
FreevmTables(m) ==
  LET d == Deallocuvm(m, KERNBASE, 0)
  IN [Kfree(d, {d.s.dir, d.s.ktab}) EXCEPT !.s = NoSpace]
Freevm(m) ==
  LET d == Deallocuvm(m, KERNBASE, 0)
  IN [Kfree(d, ({d.s.tab[t] : t \in DOMAIN d.s.tab} \union {d.s.dir, d.s.ktab}) \ {0})
        EXCEPT !.s = NoSpace]

(* The loop of copyuvm over the pages of the parent s; the copy is m.s and *)
(* has PTE_U everywhere.                                                   *)
RECURSIVE CopyLoop(_, _, _, _)
CopyLoop(m, s, v, size) ==
  IF v * PGSIZE >= size THEN m
  ELSE IF s.tab[Table(v)] = 0 \/ s.pte[v] = 0
       THEN [m EXCEPT !.ok = FALSE, !.why = "copyuvm: page not present"]
  ELSE IF m.free = {} THEN [Freevm(m) EXCEPT !.ok = FALSE]
  ELSE LET w == Mappages(Kalloc(m), v, Page(m))
       IN IF w.ok THEN CopyLoop(w, s, v + 1, size) ELSE [Freevm(w) EXCEPT !.ok = FALSE]

Copyuvm(m, s, size) ==
  LET k == Setupkvm(m) IN IF k.ok THEN CopyLoop(k, s, 0, size) ELSE k

-----------------------------------------------------------------------------
(* The first process (userinit): one page.                                 *)
Init ==
  \E p \in Procs :
    LET k == Setupkvm(Memory(2 .. NPages, NoSpace))
        m == Allocuvm(k, 0, PGSIZE)
    IN /\ free = m.free
       /\ space = [q \in Procs |-> IF q = p THEN m.s ELSE NoSpace]
       /\ sz = [q \in Procs |-> IF q = p THEN PGSIZE ELSE 0]
       /\ kstack = [q \in Procs |-> IF q = p THEN 1 ELSE 0]
       /\ state = [q \in Procs |-> IF q = p THEN "runnable" ELSE "unused"]
       /\ parent = [q \in Procs |-> None] /\ hole = FALSE /\ leak = FALSE
       /\ panic = "none"

(* A process runs while it has its first page, the code.                   *)
Runs(p) == panic = "none" /\ state[p] = "runnable" /\ space[p].pte[0] # 0

(* What every call leaves behind: m, and the space m.s of p.               *)
After(p, m) ==
  /\ free' = m.free /\ space' = [space EXCEPT ![p] = m.s]
  /\ hole' = (hole \/ m.hole) /\ leak' = (leak \/ m.leak)
  /\ panic' = m.why

(* sys_sbrk and growproc.  A new size of 0 is taken for a failure.         *)
Sbrk(p, n) ==
  /\ Runs(p)
  /\ LET newsz == (sz[p] + n) % W
         m == CASE n > 0 -> Allocuvm(Mem(space[p]), sz[p], newsz)
                [] n < 0 -> Deallocuvm(Mem(space[p]), sz[p], newsz)
                [] OTHER -> Mem(space[p])
         size == CASE n > 0 -> AllocSize(sz[p], newsz)
                   [] n < 0 -> DeallocSize(sz[p], newsz)
                   [] OTHER -> sz[p]
     IN /\ After(p, m)
        /\ sz' = IF m.ok /\ size # 0 THEN [sz EXCEPT ![p] = size] ELSE sz
  /\ UNCHANGED <<kstack, state, parent>>

(* allocproc and fork, into the slot q.                                    *)
Fork(p, q) ==
  /\ Runs(p) /\ state[q] = "unused" /\ free # {}
  /\ LET stack == Page(Mem(NoSpace))
         m == Copyuvm(Kalloc(Mem(NoSpace)), space[p], sz[p])
     IN IF m.ok
        THEN /\ After(q, m) /\ kstack' = [kstack EXCEPT ![q] = stack]
             /\ sz' = [sz EXCEPT ![q] = sz[p]] /\ state' = [state EXCEPT ![q] = "runnable"]
             /\ parent' = [parent EXCEPT ![q] = p]
        ELSE After(q, Kfree([m EXCEPT !.s = NoSpace], {stack})) /\ UNCHANGED <<sz, kstack, state, parent>>

(* exec: the image, PGROUNDUP and two pages, the first without PTE_U.      *)
(* "loads" is FALSE when the file cannot be read or the arguments are too  *)
(* long.                                                                   *)
ExecSpace(image, loads) ==
  LET k == Setupkvm(Mem(NoSpace))
      i == IF k.ok THEN Allocuvm(k, 0, image) ELSE k
      top == PGROUNDUP(image)
      u == IF i.ok THEN Allocuvm(i, top, top + 2 * PGSIZE) ELSE i
  IN IF ~k.ok THEN k
     ELSE IF u.ok /\ u.s.tab[Table(Vpage(top))] = 0 THEN [u EXCEPT !.why = "clearpteu"]
     ELSE IF u.ok /\ loads THEN [u EXCEPT !.s.guard = {Vpage(top)}]
     ELSE [Freevm(u) EXCEPT !.ok = FALSE]

Exec(p, image, loads) ==
  /\ Runs(p)
  /\ LET m == ExecSpace(image, loads)
         old == Freevm([m EXCEPT !.s = space[p]])
     IN IF m.ok
        THEN /\ After(p, [old EXCEPT !.s = m.s])
             /\ sz' = [sz EXCEPT ![p] = PGROUNDUP(image) + 2 * PGSIZE]
        ELSE After(p, [m EXCEPT !.s = space[p]]) /\ UNCHANGED sz
  /\ UNCHANGED <<kstack, state, parent>>

(* exit, also that of a process killed by a page fault.                    *)
Exit(p) ==
  /\ panic = "none" /\ state[p] = "runnable" /\ parent[p] # None
  /\ state' = [state EXCEPT ![p] = "zombie"]
  /\ parent' = [q \in Procs |-> IF parent[q] = p
                                THEN CHOOSE r \in Procs : parent[r] = None /\ state[r] # "unused"
                                ELSE parent[q]]
  /\ UNCHANGED <<free, space, sz, kstack, hole, leak, panic>>

(* wait: the memory of a child is freed by its parent.                     *)
Wait(p, q) ==
  /\ Runs(p) /\ parent[q] = p /\ state[q] = "zombie"
  /\ After(q, Kfree(Freevm(Mem(space[q])), {kstack[q]}))
  /\ state' = [state EXCEPT ![q] = "unused"] /\ kstack' = [kstack EXCEPT ![q] = 0]
  /\ sz' = [sz EXCEPT ![q] = 0] /\ parent' = [parent EXCEPT ![q] = None]

Stopped == (panic # "none" \/ \A p \in Procs : ~Runs(p)) /\ UNCHANGED vars

Next ==
  \/ \E p \in Procs :
       \/ \E n \in Sbrks : Sbrk(p, n) \/ Sbrk(p, -n)
       \/ \E q \in Procs : Fork(p, q) \/ Wait(p, q)
       \/ \E image \in Images, loads \in BOOLEAN : Exec(p, image, loads)
       \/ Exit(p)
  \/ Stopped

Spec == Init /\ [][Next]_vars

-----------------------------------------------------------------------------
(* The pages that a process has.                                           *)
Tables(s) == ({s.tab[t] : t \in DOMAIN s.tab} \union {s.dir, s.ktab}) \ {0}
Mapped(s) == {s.pte[v] : v \in Vpages} \ {0}
Owned(p) == (Tables(space[p]) \union Mapped(space[p]) \union {kstack[p]}) \ {0}

(* A page has one use at a time: it is free, or one process has it, as one *)
(* page of memory, one table or its kernel stack; and it has a use, unless *)
(* setupkvm or walkpgdir ran out of memory, which do not give back.        *)
PagesOwnedOnce ==
  /\ \A p \in Procs :
       /\ Owned(p) \intersect free = {}
       /\ \A q \in Procs \ {p} : Owned(p) \intersect Owned(q) = {}
       /\ Tables(space[p]) \intersect Mapped(space[p]) = {}
       /\ \A v, w \in Vpages : v # w /\ space[p].pte[v] # 0 => space[p].pte[v] # space[p].pte[w]
  /\ ~leak => free \union UNION {Owned(p) : p \in Procs} = 1 .. NPages

(* The memory below proc->sz is there, and none above it: sbrk, fork and   *)
(* exec leave it so, also when they fail, and come to no panic - unless    *)
(* allocuvm has gone on without a page table.                              *)
SizeMapped ==
  ~hole =>
    /\ panic = "none"
    /\ \A p \in Procs :
         state[p] # "unused" /\ space[p].pte[0] # 0 =>
           \A v \in Vpages : space[p].pte[v] # 0 <=> v * PGSIZE < sz[p]

=============================================================================
