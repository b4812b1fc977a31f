------------------------------ MODULE MCTables -------------------------------
(***************************************************************************)
(* Instance for TLC of the parts that hand out things of which there are   *)
(* few: the buffers of the disk, the cups of the bar, a pipe's buffer, the *)
(* blocks of malloc.  They share no state: a behaviour is one of one part, *)
(* chosen in Init.                                                         *)
(***************************************************************************)
EXTENDS BufferCache, Pipe, Bienstein, TLC

VARIABLES part, ptr, size, freep, brk, inuse

Heap == INSTANCE Umalloc WITH MaxHeap <- 13, MinCore <- 4, Requests <- {2, 3, 5}

ASSUME CacheAssumption /\ EnoughBuffers

(* One student has two drinks, the others have one.                        *)
CONSTANT Regular
SomeDrinks == [s \in Students |-> IF s = Regular THEN 2 ELSE 1]

(* The values in Users, and in Procs, are interchangeable in every part.   *)
TablesSymmetry == Permutations(Users) \union Permutations(Procs)

heapvars == <<ptr, size, freep, brk, inuse>>

MCInit ==
  /\ part \in {"cache", "bar", "pipe", "heap"}
  /\ Init /\ BarInit /\ PipeInit /\ Heap!Init

MCNext ==
  /\ part' = part
  /\ \/ part = "cache" /\ Next /\ UNCHANGED <<barvars, pipevars, heapvars>>
     \/ part = "bar" /\ BarNext /\ UNCHANGED <<vars, pipevars, heapvars>>
     \/ part = "pipe" /\ PipeNext /\ UNCHANGED <<vars, barvars, heapvars>>
     \/ part = "heap" /\ Heap!Next /\ UNCHANGED <<vars, barvars, pipevars>>
     \/ part = "pipe"                     \* all may be asleep
        /\ UNCHANGED <<vars, barvars, pipevars, heapvars>>

MCSpec == MCInit /\ [][MCNext]_<<part, vars, barvars, pipevars, heapvars>>

-----------------------------------------------------------------------------
(* Umalloc: the blocks partition the heap, the free list is in order.      *)
HeapExact == part = "heap" => Heap!HeapExact

=============================================================================
