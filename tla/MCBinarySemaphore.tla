-------------------------- MODULE MCBinarySemaphore --------------------------
(* Instances of BinarySemaphore for TLC.                                   *)
EXTENDS BinarySemaphore

(* All threads belong to one process.                                      *)
OnePid == [p \in Procs |-> 1]
(* Threads 0 and 1 share a process, the others do not.                     *)
TwoAndOthers == [p \in Procs |-> IF p < 2 THEN 1 ELSE p]

==============================================================================
