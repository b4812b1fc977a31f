----------------------------- MODULE AtomicDisk ------------------------------
(***************************************************************************)
(* What the log promises to the file system: a transaction reaches the     *)
(* disk as a whole or not at all, and one whose commit_trans has returned  *)
(* survives a crash.                                                       *)
(***************************************************************************)
CONSTANTS Sectors, Data

VARIABLES stable,    \* what a crash leaves
          cached,    \* what the running system reads
          intrans    \* a transaction is open

avars == <<stable, cached, intrans>>

Init == stable \in [Sectors -> Data] /\ cached = stable /\ intrans = FALSE

Begin == ~intrans /\ intrans' = TRUE /\ UNCHANGED <<stable, cached>>

Write(s, d) == intrans /\ cached' = [cached EXCEPT ![s] = d] /\ UNCHANGED <<stable, intrans>>

(* All the writes at once; the transaction ends later.                     *)
Commit == intrans /\ stable' = cached /\ UNCHANGED <<cached, intrans>>

End == intrans /\ stable = cached /\ intrans' = FALSE /\ UNCHANGED <<stable, cached>>

Crash == cached' = stable /\ intrans' = FALSE /\ UNCHANGED stable

Next == Begin \/ (\E s \in Sectors, d \in Data : Write(s, d)) \/ Commit \/ End \/ Crash

Spec == Init /\ [][Next]_avars

==============================================================================
