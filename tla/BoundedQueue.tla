---------------------------- MODULE BoundedQueue ----------------------------
(***************************************************************************)
(* What a program may assume of a bounded buffer: BB_put appends to a FIFO *)
(* queue of at most N elements, BB_pop removes its first element, each in  *)
(* one step between invocation and return.                                 *)
(***************************************************************************)
EXTENDS Integers, Sequences

CONSTANTS Producers, Consumers, Items, N

VARIABLES queue,
          put,   \* put[p]: the element producer p is adding, or "none"
          got    \* got[c]: "none", "waiting", or the element c has received

vars == <<queue, put, got>>

Init ==
  /\ queue = <<>>
  /\ put = [p \in Producers |-> "none"]
  /\ got = [c \in Consumers |-> "none"]

CallPut(p, x) == put[p] = "none" /\ put' = [put EXCEPT ![p] = x] /\ UNCHANGED <<queue, got>>

Put(p) ==
  /\ put[p] # "none" /\ Len(queue) < N
  /\ queue' = Append(queue, put[p])
  /\ put' = [put EXCEPT ![p] = "none"]
  /\ UNCHANGED got

CallPop(c) == got[c] = "none" /\ got' = [got EXCEPT ![c] = "waiting"] /\ UNCHANGED <<queue, put>>

Pop(c) ==
  /\ got[c] = "waiting" /\ queue # <<>>
  /\ got' = [got EXCEPT ![c] = Head(queue)]
  /\ queue' = Tail(queue)
  /\ UNCHANGED put

Return(c) == got[c] \in Items /\ got' = [got EXCEPT ![c] = "none"] /\ UNCHANGED <<queue, put>>

Next ==
  \/ \E p \in Producers : Put(p) \/ \E x \in Items : CallPut(p, x)
  \/ \E c \in Consumers : CallPop(c) \/ Pop(c) \/ Return(c)

Spec == Init /\ [][Next]_vars

==============================================================================
