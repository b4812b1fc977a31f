-------------------------- MODULE CountingSemaphore --------------------------
(***************************************************************************)
(* What a program may assume of semaphore_down and semaphore_up: each call *)
(* changes the count in one step between its invocation and its return,    *)
(* and a down takes effect only when the count is positive.                *)
(***************************************************************************)
EXTENDS Integers

CONSTANTS Threads, InitialValue

VARIABLES count,  \* units of the semaphore
          call    \* call[p]: "none", "down" or "up", or "return" after the effect

vars == <<count, call>>

Init == count = InitialValue /\ call = [p \in Threads |-> "none"]

Move(p, from, to) == call[p] = from /\ call' = [call EXCEPT ![p] = to]

Invoke(p) == \E op \in {"down", "up"} : Move(p, "none", op) /\ UNCHANGED count
Down(p)   == count > 0 /\ count' = count - 1 /\ Move(p, "down", "return")
Up(p)     == count' = count + 1 /\ Move(p, "up", "return")
Return(p) == Move(p, "return", "none") /\ UNCHANGED count

Next == \E p \in Threads : Invoke(p) \/ Down(p) \/ Up(p) \/ Return(p)

Spec == Init /\ [][Next]_vars

==============================================================================
