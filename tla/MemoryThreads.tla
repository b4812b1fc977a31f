---------------------------- MODULE MemoryThreads ----------------------------
(***************************************************************************)
(* Memory with threads (thread_create of proc.c): a thread has the page    *)
(* table of its process and its own copy of proc->sz.                      *)
(***************************************************************************)
EXTENDS Memory

VARIABLE group   \* the slot whose address space the thread has

TInit == Init /\ group = [p \in Procs |-> p]

(* allocproc, np->pgdir = proc->pgdir and np->sz = proc->sz.               *)
ThreadCreate(p, q) ==
  /\ Runs(p) /\ state[q] = "unused" /\ free # {}
  /\ free' = free \ {Min(free)} /\ kstack' = [kstack EXCEPT ![q] = Min(free)]
  /\ sz' = [sz EXCEPT ![q] = sz[p]] /\ state' = [state EXCEPT ![q] = "thread"]
  /\ group' = [group EXCEPT ![q] = p]
  /\ UNCHANGED <<space, parent, hole, leak, panic>>

(* growproc in a thread.                                                   *)
ThreadSbrk(q, n) ==
  /\ panic = "none" /\ state[q] = "thread" /\ n > 0
  /\ LET m == Allocuvm(Mem(space[group[q]]), sz[q], sz[q] + n) IN
     /\ After(group[q], m)
     /\ sz' = IF m.ok THEN [sz EXCEPT ![q] = sz[q] + n] ELSE sz
  /\ UNCHANGED <<kstack, state, parent, group>>

TNext ==
  \/ \E p, q \in Procs : ThreadCreate(p, q)
  \/ \E p \in Procs, n \in Sbrks : ThreadSbrk(p, n) \/ (Sbrk(p, n) /\ UNCHANGED group)

TSpec == TInit /\ [][TNext]_<<vars, group>>

-----------------------------------------------------------------------------
(* "Grow current process's memory by n bytes.  Return 0 on success, -1 on  *)
(* failure": growproc does not stop the system.                            *)
GrowReturns == ~hole => panic = "none"

=============================================================================
