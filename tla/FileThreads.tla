----------------------------- MODULE FileThreads -----------------------------
(***************************************************************************)
(* FileSystem with the threads of proc.c: thread_create, a thread_exit     *)
(* that is not the last of its process, and an exit, which makes the other *)
(* threads ZOMBIE wherever they are.                                       *)
(***************************************************************************)
EXTENDS FileSystem

VARIABLE group   \* pid: the slot of the process's main thread

tvars == <<vars, group>>

TInit == Init /\ group = [p \in Procs |-> p]

(* thread_create: filedup, but no idup.                                    *)
ThreadCreate(p, q) ==
  /\ Idle(p) /\ left > 0 /\ left' = left - 1 /\ q \notin live
  /\ live' = live \union {q} /\ group' = [group EXCEPT ![q] = group[p]]
  /\ ftable' = [f \in Files |-> [ftable[f] EXCEPT
                  !.ref = @ + Cardinality({n \in Fds : ofile[p][n] = f})]]
  /\ ofile' = [ofile EXCEPT ![q] = [n \in Fds |-> IF ofile[p][n] # None THEN ofile[p][n] ELSE @[n]]]
  /\ cwd' = [cwd EXCEPT ![q] = cwd[p]]
  /\ UNCHANGED <<disk, cache, trans, panic, todo, found>>

Others(p) == {q \in live \ {p} : group[q] = group[p]}

(* thread_exit while others are left: the files stay open.                 *)
ThreadExit(p) ==
  /\ Idle(p) /\ left > 0 /\ left' = left - 1 /\ Others(p) # {}
  /\ live' = live \ {p}
  /\ UNCHANGED <<disk, cache, ftable, trans, panic, cwd, ofile, todo, found, group>>

(* The end of exit: the loop over the process table.                       *)
ExitThreads(p) ==
  /\ At(p, "exit2") /\ live' = live \ ({p} \union Others(p))
  /\ cwd' = [cwd EXCEPT ![p] = 0] /\ Do(p, <<>>)
  /\ UNCHANGED <<disk, cache, ftable, trans, panic, ofile, left, found, group>>

TNext ==
  \/ \E p \in live :
       \/ \E q \in Procs : ThreadCreate(p, q)
       \/ ThreadExit(p) \/ ExitThreads(p)
       \/ Start(p) /\ group' = [q \in Procs |-> IF q \in live THEN group[q] ELSE q]
       \/ ~At(p, "exit2") /\ Step(p) /\ UNCHANGED group

TSpec == TInit /\ [][TNext]_tvars

-----------------------------------------------------------------------------
(* "Each system call that might write the file system should be surrounded *)
(* with begin_trans() and commit_trans() calls": the transaction that the  *)
(* others wait for belongs to a thread that can still commit it.           *)
OwnerAlive == trans # None => trans \in live

=============================================================================
