------------------------ MODULE AtomicBinarySemaphore ------------------------
(***************************************************************************)
(* What a program may assume of binary_semaphore_create, _down and _up:    *)
(* each call takes effect in one step between its invocation and its       *)
(* return.  down waits for the value to be nonzero and resets it, up sets  *)
(* it to 1, both fail on an id that was not created.  No promise is made   *)
(* about who is served first, nor that a waiting thread is ever served.    *)
(***************************************************************************)
EXTENDS Integers

CONSTANTS Procs, Sems

VARIABLES created, value,
          call,   \* call[p]: the call thread p is in: "none", "down" or "up"
          on      \* on[p]: the semaphore of that call

vars == <<created, value, call, on>>

Init ==
  /\ created = [s \in Sems |-> FALSE]
  /\ value = [s \in Sems |-> 0]
  /\ call = [p \in Procs |-> "none"]
  /\ on \in [Procs -> Sems]

Create(s, initial_value) ==
  /\ ~created[s]
  /\ created' = [created EXCEPT ![s] = TRUE]
  /\ value' = [value EXCEPT ![s] = initial_value]
  /\ UNCHANGED <<call, on>>

Invoke(p, op, s) ==
  /\ call[p] = "none"
  /\ call' = [call EXCEPT ![p] = op]
  /\ on' = [on EXCEPT ![p] = s]
  /\ UNCHANGED <<created, value>>

Return(p) == call' = [call EXCEPT ![p] = "none"] /\ UNCHANGED <<on, created>>

Down(p) ==
  /\ call[p] = "down" /\ created[on[p]] /\ value[on[p]] # 0
  /\ value' = [value EXCEPT ![on[p]] = 0]
  /\ Return(p)

Up(p) ==
  /\ call[p] = "up" /\ created[on[p]]
  /\ value' = [value EXCEPT ![on[p]] = 1]
  /\ Return(p)

Fail(p) ==
  /\ call[p] # "none" /\ ~created[on[p]]
  /\ Return(p)
  /\ UNCHANGED value

Next ==
  \/ \E s \in Sems : \E v \in {0, 1} : Create(s, v)
  \/ \E p \in Procs :
       \/ \E op \in {"down", "up"} : \E s \in Sems : Invoke(p, op, s)
       \/ Down(p) \/ Up(p) \/ Fail(p)

Spec == Init /\ [][Next]_vars

==============================================================================
