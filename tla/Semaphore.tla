------------------------------ MODULE Semaphore ------------------------------
(***************************************************************************)
(* The user-level counting semaphore of semaphore.c: an int protected by   *)
(* the binary semaphore s1, and a second binary semaphore s2 that is up    *)
(* while units are left.  The threads of one process share the memory; the *)
(* binary semaphores are the ones of AtomicBinarySemaphore: down waits for *)
(* the value 1 and resets it, up sets it.  A thread may be preempted       *)
(* between any two labels.                                                 *)
(***************************************************************************)
EXTENDS Integers, FiniteSets

CONSTANTS Threads,
          InitialValue,   \* argument of semaphore_create
          MaxValue        \* bound: the units that may be in the semaphore

ASSUME SemaphoreAssumption == InitialValue \in Nat /\ MaxValue \in Nat

VARIABLES value,   \* sem->value
          s1, s2,  \* the values of the two binary semaphores
          pc       \* where each thread is

vars == <<value, s1, s2, pc>>

Labels == {"idle", "down_s2", "down_s1", "dec", "test_down", "exit_down",
           "up_s1", "inc", "test_up", "exit_up"}

(* semaphore_create: s2 starts up exactly when the count is positive.      *)
InitialS2 == IF InitialValue < 1 THEN InitialValue ELSE 1

Init ==
  /\ value = InitialValue
  /\ s1 = 1 /\ s2 = InitialS2
  /\ pc = [p \in Threads |-> "idle"]

Step(p, from, to) == pc[p] = from /\ pc' = [pc EXCEPT ![p] = to]

(* binary_semaphore_down(sem->s1) and binary_semaphore_up(sem->s1).        *)
Lock(p, from, to)   == s1 # 0 /\ s1' = 0 /\ Step(p, from, to) /\ UNCHANGED <<value, s2>>
Unlock(p, from, to) == s1' = 1 /\ Step(p, from, to) /\ UNCHANGED <<value, s2>>

(* if(test) binary_semaphore_up(sem->s2).                                  *)
RaiseIf(p, test, from, to) ==
  s2' = (IF test THEN 1 ELSE s2) /\ Step(p, from, to) /\ UNCHANGED <<value, s1>>

-----------------------------------------------------------------------------
(* semaphore_down *)

CallDown(p)  == Step(p, "idle", "down_s2") /\ UNCHANGED <<value, s1, s2>>
DownS2(p)    == s2 # 0 /\ s2' = 0 /\ Step(p, "down_s2", "down_s1") /\ UNCHANGED <<value, s1>>
DownS1(p)    == Lock(p, "down_s1", "dec")
Decrement(p) == value' = value - 1 /\ Step(p, "dec", "test_down") /\ UNCHANGED <<s1, s2>>
(* Mutant: s2 is raised always.                                            *)
DownRaiseAlways(p) == RaiseIf(p, TRUE, "test_down", "exit_down")
DownRaise(p) == RaiseIf(p, value > 0, "test_down", "exit_down")
DownExit(p)  == Unlock(p, "exit_down", "idle")

-----------------------------------------------------------------------------
(* semaphore_up.  The programs that use a semaphore bound its count.       *)

Pending == {p \in Threads : pc[p] \in {"up_s1", "inc"}}

CallUp(p) ==
  /\ value + Cardinality(Pending) < MaxValue
  /\ Step(p, "idle", "up_s1") /\ UNCHANGED <<value, s1, s2>>

UpS1(p)      == Lock(p, "up_s1", "inc")
Increment(p) == value' = value + 1 /\ Step(p, "inc", "test_up") /\ UNCHANGED <<s1, s2>>
UpRaise(p)   == RaiseIf(p, value = 1, "test_up", "exit_up")
UpExit(p)    == Unlock(p, "exit_up", "idle")

-----------------------------------------------------------------------------
Next == \E p \in Threads :
  \/ CallDown(p) \/ DownS2(p) \/ DownS1(p) \/ Decrement(p) \/ DownRaise(p) \/ DownExit(p)
  \/ CallUp(p) \/ UpS1(p) \/ Increment(p) \/ UpRaise(p) \/ UpExit(p)

Spec == Init /\ [][Next]_vars

-----------------------------------------------------------------------------
(* The fields keep their types; in particular the count is never negative. *)
TypeOK ==
  /\ value \in Nat
  /\ s1 \in {0, 1} /\ s2 \in {0, 1}
  /\ pc \in [Threads -> Labels]

(* The threads inside the section s1 protects.                             *)
Inside == {p \in Threads :
             pc[p] \in {"dec", "test_down", "exit_down", "inc", "test_up", "exit_up"}}

(* The threads that have taken s2 and not used the unit yet, or that are   *)
(* about to raise s2 because units are left.                               *)
Carriers == {p \in Threads :
               \/ pc[p] \in {"down_s1", "dec"}
               \/ pc[p] = "test_down" /\ value > 0
               \/ pc[p] = "test_up" /\ value = 1}

(* s2 is a single token that exists exactly while units are left: it is    *)
(* up, or one thread carries it.  So no semaphore_down gets past s2        *)
(* without a unit to take, and no unit is stranded with s2 down and nobody *)
(* on the way to raise it.                                                 *)
TokenInv ==
  /\ s2 = 1 => Carriers = {}
  /\ \A p, q \in Carriers : p = q
  /\ value > 0 <=> s2 = 1 \/ Carriers # {}

(* Only one thread at a time is in the section s1 protects, and s1 is down *)
(* only while one is.                                                      *)
MutexInv ==
  /\ s1 = 1 <=> Inside = {}
  /\ \A p, q \in Inside : p = q

(* The semaphore as an atomic counter: a call takes effect when it changes *)
(* sem->value.                                                             *)
CallOf(label) ==
  CASE label = "idle" -> "none"
    [] label \in {"down_s2", "down_s1", "dec"} -> "down"
    [] label \in {"up_s1", "inc"} -> "up"
    [] OTHER -> "return"

Counting == INSTANCE CountingSemaphore
              WITH count <- value, call <- [p \in Threads |-> CallOf(pc[p])]

(* semaphore_down and semaphore_up implement a counting semaphore: every   *)
(* interleaving of their steps is a sequence of whole downs and ups, and a *)
(* down takes effect only with a positive count.                           *)
ImplementsCounting == Counting!Spec

==============================================================================
