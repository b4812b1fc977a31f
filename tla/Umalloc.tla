------------------------------- MODULE Umalloc -------------------------------
(***************************************************************************)
(* malloc and free (umalloc.c): a circular list of free blocks in address  *)
(* order, searched from where the last search ended, and grown by sbrk.    *)
(* An address counts Headers; "base" is at 0, below the heap.  One thread  *)
(* calls them: they take no lock.                                          *)
(***************************************************************************)
EXTENDS Integers, FiniteSets

CONSTANTS MaxHeap,   \* the heap may grow to the addresses 1 .. MaxHeap
          MinCore,   \* morecore asks for at least this many (4096)
          Requests   \* the nunits of the calls of malloc

VARIABLES ptr, size,    \* s.ptr and s.size of the Headers
          freep, brk,   \* brk: the address that sbrk returns next
          inuse         \* the blocks that the program has

vars == <<ptr, size, freep, brk, inuse>>

Addrs == 0 .. MaxHeap
Nil == -1
heap == [ptr |-> ptr, size |-> size, freep |-> freep, brk |-> brk]

Init ==
  /\ ptr = [a \in Addrs |-> 0] /\ size = [a \in Addrs |-> 0]
  /\ freep = Nil /\ brk = 1 /\ inuse = {}

-----------------------------------------------------------------------------
(* The search of free: the free block that bp comes after.                 *)
RECURSIVE Before(_, _, _)
Before(h, p, bp) ==
  LET next == h.ptr[p]
  IN IF bp > p /\ bp < next THEN p
     ELSE IF p >= next /\ (bp > p \/ bp < next) THEN p
     ELSE Before(h, next, bp)

(* free.  Mutant: bp is not joined to the block before it.                 *)
FreeApart(h, bp) ==
  LET p == Before(h, h.freep, bp)
      next == h.ptr[p]
      up == bp + h.size[bp] = next
  IN [h EXCEPT !.size[bp] = IF up THEN @ + h.size[next] ELSE @,
               !.ptr[bp] = IF up THEN h.ptr[next] ELSE next,
               !.ptr[p] = bp, !.freep = p]
Free(h, bp) ==
  LET p == Before(h, h.freep, bp)
      next == h.ptr[p]
      up == bp + h.size[bp] = next
      g == [h EXCEPT !.size[bp] = IF up THEN @ + h.size[next] ELSE @,
                     !.ptr[bp] = IF up THEN h.ptr[next] ELSE next]
      down == p + g.size[p] = bp
  IN [g EXCEPT !.size[p] = IF down THEN @ + g.size[bp] ELSE @,
               !.ptr[p] = IF down THEN g.ptr[bp] ELSE bp,
               !.freep = p]

(* morecore: what sbrk returns is freed.  The result has block = Nil when  *)
(* sbrk fails.                                                             *)
Morecore(h, n) ==
  LET nu == IF n < MinCore THEN MinCore ELSE n
  IN IF h.brk + nu - 1 > MaxHeap THEN [h |-> h, block |-> Nil]
     ELSE LET g == Free([h EXCEPT !.size[h.brk] = nu, !.brk = @ + nu], h.brk)
          IN [h |-> g, block |-> g.freep]

(* The block p, of which prev is the one before, gives n of its units: the *)
(* whole of it or its end.                                                 *)
Cut(h, prev, p, n) ==
  IF h.size[p] = n
  THEN [h |-> [h EXCEPT !.ptr[prev] = h.ptr[p], !.freep = prev], block |-> p]
  ELSE LET at == p + h.size[p] - n
       IN [h |-> [h EXCEPT !.size = [@ EXCEPT ![p] = h.size[p] - n, ![at] = n],
                           !.freep = prev],
           block |-> at]

(* The loop of malloc.                                                     *)
RECURSIVE Search(_, _, _, _)
Search(h, prev, p, n) ==
  IF h.size[p] >= n THEN Cut(h, prev, p, n)
  ELSE IF p # h.freep THEN Search(h, p, h.ptr[p], n)
  ELSE LET more == Morecore(h, n)
       IN IF more.block = Nil THEN more
          ELSE Search(more.h, more.block, more.h.ptr[more.block], n)

MallocOf(n) ==
  LET h == IF freep # Nil THEN heap
           ELSE [heap EXCEPT !.ptr[0] = 0, !.freep = 0, !.size[0] = 0]
  IN Search(h, h.freep, h.ptr[h.freep], n)

-----------------------------------------------------------------------------
(* The list from a.                                                        *)
RECURSIVE Chain(_, _, _)
Chain(next, a, seen) == IF a \in seen THEN seen ELSE Chain(next, next[a], seen \union {a})

(* A Header outside the free blocks, and the ptr of a block in use, are    *)
(* never read: they are kept as 0.                                         *)
Becomes(h, blocks) ==
  LET listed == Chain(h.ptr, h.freep, {})
  IN /\ ptr' = [a \in Addrs |-> IF a \in listed THEN h.ptr[a] ELSE 0]
     /\ size' = [a \in Addrs |-> IF a \in listed \union blocks THEN h.size[a] ELSE 0]
     /\ freep' = h.freep /\ brk' = h.brk /\ inuse' = blocks

DoMalloc(n) ==
  LET r == MallocOf(n) IN Becomes(r.h, inuse \union ({r.block} \ {Nil}))

DoFree(bp) == Becomes(Free(heap, bp), inuse \ {bp})

Next == (\E n \in Requests : DoMalloc(n)) \/ (\E bp \in inuse : DoFree(bp))

Spec == Init /\ [][Next]_vars

-----------------------------------------------------------------------------
FreeList == Chain(ptr, 0, {})
Units(a) == a .. a + size[a] - 1

(* Every unit of the heap is in one block, in use or free, so that no two  *)
(* blocks overlap and none is lost; a block has the size asked for; and    *)
(* the list goes through the free blocks by address, no two of them        *)
(* adjacent.                                                               *)
HeapExact ==
  freep # Nil =>
    LET blocks == inuse \union (FreeList \ {0}) IN
    /\ freep \in FreeList /\ inuse \intersect FreeList = {}
    /\ UNION {Units(b) : b \in blocks} = 1 .. brk - 1
    /\ \A a, b \in blocks : a # b => Units(a) \intersect Units(b) = {}
    /\ \A a \in inuse : size[a] \in Requests
    /\ \A a \in FreeList :
         /\ \A b \in FreeList : ~(a < b /\ b < ptr[a]) /\ (ptr[a] <= a => b <= a)
         /\ a # 0 => a + size[a] \notin FreeList

=============================================================================
