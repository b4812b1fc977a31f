--------------------------- MODULE SemaphoreProofs ---------------------------
(***************************************************************************)
(* Proofs about Semaphore, for any set of threads, initial value and       *)
(* bound, and about BoundedBuffer, which is made of such semaphores, for   *)
(* any producers, consumers, elements and size of the ring.                *)
(*                                                                         *)
(* The invariant of the semaphore is TypeOK, MutexInv and TokenInv         *)
(* together: the token makes the count positive at "dec" (TypeOK), the     *)
(* lock keeps the count still between a thread's change of it and its test *)
(* (TokenInv).                                                             *)
(***************************************************************************)
EXTENDS Semaphore, BoundedBuffer, FiniteSetTheorems, TLAPS

(* MutexInv and TokenInv over labels, one conjunct for each use.           *)
InsideLabel == {"dec", "test_down", "exit_down", "inc", "test_up", "exit_up"}

Carries(p) == \/ pc[p] \in {"down_s1", "dec"}
              \/ pc[p] = "test_down" /\ value > 0
              \/ pc[p] = "test_up" /\ value = 1

LockInv ==
  /\ \A p \in Threads : pc[p] \in InsideLabel => s1 = 0
  /\ \A p, q \in Threads : pc[p] \in InsideLabel /\ pc[q] \in InsideLabel => p = q
  /\ s1 = 0 => \E p \in Threads : pc[p] \in InsideLabel

CarryInv ==
  /\ \A p \in Threads : Carries(p) => s2 = 0 /\ value > 0
  /\ \A p, q \in Threads : Carries(p) /\ Carries(q) => p = q
  /\ s2 = 1 => value > 0
  /\ value > 0 => s2 = 1 \/ \E p \in Threads : Carries(p)

IInv == TypeOK /\ LockInv /\ CarryInv

(* semaphore_create establishes the invariant.                             *)
LEMMA InvInit == Init => IInv
  BY SemaphoreAssumption
  DEF Init, InitialS2, IInv, TypeOK, Labels, LockInv, CarryInv, Carries, InsideLabel

(* The count never goes below zero, because a thread at "dec" carries s2.  *)
LEMMA TypeStep == IInv /\ [Next]_vars => TypeOK'
<1> SUFFICES ASSUME IInv, [Next]_vars PROVE TypeOK'
  OBVIOUS
<1> USE DEF IInv, TypeOK, Labels, Step, Lock, Unlock, RaiseIf
<1>1. ASSUME NEW p \in Threads, Decrement(p) PROVE TypeOK'
  <2>1. value > 0
    BY <1>1 DEF Decrement, CarryInv, Carries
  <2> QED
    BY <1>1, <2>1 DEF Decrement
<1>2. ASSUME NEW p \in Threads, CallDown(p) \/ CallUp(p) PROVE TypeOK'
  BY <1>2 DEF CallDown, CallUp
<1>3. ASSUME NEW p \in Threads, DownS2(p) \/ DownS1(p) \/ UpS1(p) PROVE TypeOK'
  BY <1>3 DEF DownS2, DownS1, UpS1
<1>4. ASSUME NEW p \in Threads, DownRaise(p) \/ UpRaise(p) PROVE TypeOK'
  BY <1>4 DEF DownRaise, UpRaise
<1>5. ASSUME NEW p \in Threads, DownExit(p) \/ UpExit(p) PROVE TypeOK'
  BY <1>5 DEF DownExit, UpExit
<1>6. ASSUME NEW p \in Threads, Increment(p) PROVE TypeOK'
  BY <1>6 DEF Increment
<1>7. CASE UNCHANGED vars
  BY <1>7 DEF vars
<1> QED
  BY <1>1, <1>2, <1>3, <1>4, <1>5, <1>6, <1>7 DEF Next

(* Every step keeps s1 down exactly while one thread is inside.            *)
LEMMA LockStep == TypeOK /\ LockInv /\ [Next]_vars => LockInv'
<1> SUFFICES ASSUME TypeOK, LockInv, [Next]_vars PROVE LockInv'
  OBVIOUS
<1> USE DEF TypeOK, Labels, LockInv, InsideLabel, Step
<1>1. ASSUME NEW p \in Threads, DownS1(p) \/ UpS1(p) PROVE LockInv'
  BY <1>1 DEF DownS1, UpS1, Lock
<1>2. ASSUME NEW p \in Threads, DownExit(p) \/ UpExit(p) PROVE LockInv'
  BY <1>2 DEF DownExit, UpExit, Unlock
<1>3. ASSUME NEW p \in Threads, NEW from \in Labels, NEW to \in Labels,
             Step(p, from, to), UNCHANGED s1, from \in InsideLabel <=> to \in InsideLabel
      PROVE  LockInv'
  <2>1. \A q \in Threads : pc'[q] \in InsideLabel <=> pc[q] \in InsideLabel
    BY <1>3
  <2> QED
    BY <1>3, <2>1
<1>4. ASSUME NEW p \in Threads,
             CallDown(p) \/ DownS2(p) \/ Decrement(p) \/ DownRaise(p)
               \/ CallUp(p) \/ Increment(p) \/ UpRaise(p)
      PROVE  LockInv'
  BY Zenon, <1>3, <1>4 DEF CallDown, DownS2, Decrement, DownRaise, CallUp, Increment, UpRaise, RaiseIf
<1>5. CASE UNCHANGED vars
  BY <1>5 DEF vars
<1> QED
  BY <1>1, <1>2, <1>4, <1>5 DEF Next

(* Every step keeps the token s2 single, and there while units are left.   *)
LEMMA CarryStep == IInv /\ TypeOK' /\ [Next]_vars => CarryInv'
<1> SUFFICES ASSUME IInv, TypeOK', [Next]_vars PROVE CarryInv'
  OBVIOUS
<1> USE DEF IInv, TypeOK, Labels, CarryInv, Carries, Step
<1>1. ASSUME NEW p \in Threads, CallDown(p) \/ CallUp(p) PROVE CarryInv'
  BY <1>1 DEF CallDown, CallUp
<1>2. ASSUME NEW p \in Threads, DownS2(p) PROVE CarryInv'
  BY <1>2 DEF DownS2
<1>3. ASSUME NEW p \in Threads, DownS1(p) \/ UpS1(p) PROVE CarryInv'
  BY <1>3 DEF DownS1, UpS1, Lock
<1>4. ASSUME NEW p \in Threads, Decrement(p) PROVE CarryInv'
  <2>1. \A q \in Threads : q # p => pc[q] \notin {"down_s1", "dec", "test_down", "test_up"}
    BY <1>4 DEF Decrement, LockInv, InsideLabel
  <2> QED
    BY <1>4, <2>1 DEF Decrement
<1>5. ASSUME NEW p \in Threads, Increment(p) PROVE CarryInv'
  <2>1. \A q \in Threads : q # p => pc[q] \notin {"dec", "test_down", "test_up"}
    BY <1>5 DEF Increment, LockInv, InsideLabel
  <2> QED
    BY <1>5, <2>1 DEF Increment
<1>6. ASSUME NEW p \in Threads, DownRaise(p) PROVE CarryInv'
  BY <1>6 DEF DownRaise, RaiseIf
<1>7. ASSUME NEW p \in Threads, UpRaise(p) PROVE CarryInv'
  BY <1>7 DEF UpRaise, RaiseIf
<1>8. ASSUME NEW p \in Threads, DownExit(p) \/ UpExit(p) PROVE CarryInv'
  BY <1>8 DEF DownExit, UpExit, Unlock
<1>9. CASE UNCHANGED vars
  BY <1>9 DEF vars
<1> QED
  BY Zenon, <1>1, <1>2, <1>3, <1>4, <1>5, <1>6, <1>7, <1>8, <1>9 DEF Next

(* The three parts together are inductive.                                 *)
LEMMA InvStep == IInv /\ [Next]_vars => IInv'
  BY TypeStep, LockStep, CarryStep DEF IInv

(* The count of a semaphore is never negative, whatever its threads do     *)
(* between the steps of semaphore_down and semaphore_up.                   *)
THEOREM TypeCorrect == Spec => []TypeOK
  <1>1. IInv => TypeOK
    BY DEF IInv
  <1> QED
    BY <1>1, InvInit, InvStep, PTL DEF Spec

(* s1 protects sem->value: one thread at a time, for any number of them.   *)
THEOREM MutexCorrect == Spec => []MutexInv
  <1>1. IInv => MutexInv
    BY DEF IInv, TypeOK, LockInv, MutexInv, Inside, InsideLabel
  <1> QED
    BY <1>1, InvInit, InvStep, PTL DEF Spec

(* s2 is a token that exists exactly while units are left.                 *)
THEOREM TokenCorrect == Spec => []TokenInv
  <1>1. IInv => TokenInv
    <2> SUFFICES ASSUME IInv PROVE TokenInv
      OBVIOUS
    <2>1. Carriers = {p \in Threads : Carries(p)}
      BY DEF Carriers, Carries
    <2> QED
      BY <2>1 DEF IInv, TypeOK, CarryInv, TokenInv
  <1> QED
    BY <1>1, InvInit, InvStep, PTL DEF Spec

-----------------------------------------------------------------------------
Calls == [p \in Threads |-> CallOf(pc[p])]

(* A step that moves p changes the abstract call of p alone.               *)
LEMMA CallMove ==
  ASSUME IInv, NEW p \in Threads, NEW from \in Labels, NEW to \in Labels, Step(p, from, to)
  PROVE  Calls[p] = CallOf(from) /\ Calls' = [Calls EXCEPT ![p] = CallOf(to)]
  BY Zenon DEF Calls, Step, IInv, TypeOK

(* The abstract call that each label belongs to.                           *)
LEMMA CallValues ==
  /\ CallOf("idle") = "none"
  /\ CallOf("down_s2") = "down" /\ CallOf("down_s1") = "down" /\ CallOf("dec") = "down"
  /\ CallOf("up_s1") = "up" /\ CallOf("inc") = "up"
  /\ CallOf("test_down") = "return" /\ CallOf("exit_down") = "return"
  /\ CallOf("test_up") = "return" /\ CallOf("exit_up") = "return"
  BY DEF CallOf

(* Every step changes the count as a whole call does, or not at all.       *)
LEMMA CountingStep ==
  ASSUME IInv, [Next]_vars
  PROVE  Counting!Next \/ UNCHANGED <<value, Calls>>
<1> USE CallValues DEF Labels
<1>1. ASSUME NEW p \in Threads, CallDown(p) PROVE Counting!Next
  <2>1. Calls[p] = "none" /\ Calls' = [Calls EXCEPT ![p] = "down"] /\ UNCHANGED value
    BY <1>1, CallMove DEF CallDown
  <2> QED
    BY Zenon, <2>1 DEF Counting!Next, Counting!Invoke, Counting!Move, Calls
<1>2. ASSUME NEW p \in Threads, CallUp(p) PROVE Counting!Next
  <2>1. Calls[p] = "none" /\ Calls' = [Calls EXCEPT ![p] = "up"] /\ UNCHANGED value
    BY <1>2, CallMove DEF CallUp
  <2> QED
    BY Zenon, <2>1 DEF Counting!Next, Counting!Invoke, Counting!Move, Calls
<1>3. ASSUME NEW p \in Threads, Decrement(p) PROVE Counting!Next
  <2>1. Calls[p] = "down" /\ Calls' = [Calls EXCEPT ![p] = "return"]
    BY <1>3, CallMove DEF Decrement
  <2>2. value > 0 /\ value' = value - 1
    BY <1>3 DEF Decrement, Step, IInv, CarryInv, Carries
  <2> QED
    BY Zenon, <2>1, <2>2 DEF Counting!Next, Counting!Down, Counting!Move, Calls
<1>4. ASSUME NEW p \in Threads, Increment(p) PROVE Counting!Next
  <2>1. Calls[p] = "up" /\ Calls' = [Calls EXCEPT ![p] = "return"] /\ value' = value + 1
    BY <1>4, CallMove DEF Increment
  <2> QED
    BY Zenon, <2>1 DEF Counting!Next, Counting!Up, Counting!Move, Calls
<1>5. ASSUME NEW p \in Threads, DownExit(p) \/ UpExit(p) PROVE Counting!Next
  <2>1. Calls[p] = "return" /\ Calls' = [Calls EXCEPT ![p] = "none"] /\ UNCHANGED value
    BY <1>5, CallMove DEF DownExit, UpExit, Unlock
  <2> QED
    BY Zenon, <2>1 DEF Counting!Next, Counting!Return, Counting!Move, Calls
<1>6. ASSUME NEW p \in Threads, DownS2(p) \/ DownS1(p) \/ DownRaise(p) \/ UpS1(p) \/ UpRaise(p)
      PROVE  UNCHANGED <<value, Calls>>
  <2>1. PICK from \in Labels, to \in Labels :
          Step(p, from, to) /\ CallOf(from) = CallOf(to)
    BY <1>6 DEF DownS2, DownS1, DownRaise, UpS1, UpRaise, Lock, RaiseIf
  <2>2. UNCHANGED Calls
    BY <2>1 DEF Calls, Step, IInv, TypeOK
  <2> QED
    BY <1>6, <2>2 DEF DownS2, DownS1, DownRaise, UpS1, UpRaise, Lock, RaiseIf
<1>7. CASE UNCHANGED vars
  BY <1>7 DEF vars, Calls
<1> QED
  BY <1>1, <1>2, <1>3, <1>4, <1>5, <1>6, <1>7 DEF Next

(* semaphore_down and semaphore_up implement an atomic counting semaphore, *)
(* for any number of threads and any initial value.                        *)
THEOREM Refinement == Spec => ImplementsCounting
<1>1. Init => Counting!Init
  BY DEF Init, Counting!Init, CallOf
<1>2. IInv /\ [Next]_vars => [Counting!Next]_(Counting!vars)
  BY CountingStep DEF Counting!vars, Calls
<1> QED
  BY <1>1, <1>2, InvInit, InvStep, PTL DEF Spec, ImplementsCounting, Counting!Spec

-----------------------------------------------------------------------------
(* The bounded buffer.  The invariant has four parts: the types, the mutex *)
(* around the ring, the sums the two semaphores keep, and the run of       *)
(* filled slots.  The sums give a put its free slot and a pop its element; *)
(* the run says which slots these are.                                     *)

PutLabels == {"idle", "put_wait", "put_lock", "put_store", "put_advance", "put_unlock",
              "put_signal"}
PopLabels == {"idle", "pop_wait", "pop_lock", "pop_take", "pop_advance", "pop_unlock",
              "pop_signal"}
PopDone == {"pop_advance", "pop_unlock", "pop_signal"}

BBType ==
  /\ elements \in [Slots -> Items \union {Null}]
  /\ start \in Slots /\ end \in Slots
  /\ empty \in Nat /\ full \in Nat /\ mutex \in {0, 1}
  /\ bpc \in [Callers -> PutLabels \union PopLabels]
  /\ \A p \in Producers : bpc[p] \in PutLabels
  /\ \A c \in Consumers : bpc[c] \in PopLabels
  /\ item \in [Callers -> Items \union {Null}]
  /\ \A p \in Producers : bpc[p] # "idle" => item[p] \in Items
  /\ \A c \in Consumers : bpc[c] \in PopDone => item[c] \in Items

(* The mutex: one caller at a time is between its down and its up.         *)
HeldLabels == {"put_store", "put_advance", "put_unlock", "pop_take", "pop_advance", "pop_unlock"}
BBMutex ==
  /\ \A t \in Callers : bpc[t] \in HeldLabels => mutex = 0
  /\ \A t, u \in Callers : bpc[t] \in HeldLabels /\ bpc[u] \in HeldLabels => t = u

(* The semaphores: a free slot is counted by empty, promised to a put that *)
(* has not stored yet or left by a pop that has not signalled yet; a       *)
(* filled slot likewise.                                                   *)
Filled == {j \in Slots : elements[j] # Null}
AtLabel(L) == {t \in Callers : bpc[t] \in L}
FreeLabels == {"put_lock", "put_store"} \union PopDone
FullLabels == {"pop_lock", "pop_take", "put_advance", "put_unlock", "put_signal"}
BBCount ==
  /\ IsFiniteSet(AtLabel(FreeLabels)) /\ IsFiniteSet(AtLabel(FullLabels))
  /\ empty + Cardinality(AtLabel(FreeLabels)) = N - Cardinality(Filled)
  /\ full + Cardinality(AtLabel(FullLabels)) = Cardinality(Filled)

(* The ring: the filled slots are those from First on, up to Last.         *)
Dist(i, j) == IF i <= j THEN j - i ELSE j - i + N
Last == IF \E p \in Producers : bpc[p] = "put_advance" THEN Advance(end) ELSE end
BBRing ==
  /\ \A j \in Slots : elements[j] # Null <=> Dist(First, j) < Cardinality(Filled)
  /\ Cardinality(Filled) < N => Dist(First, Last) = Cardinality(Filled)
  /\ Cardinality(Filled) = N => Last = First

BBInv == BBType /\ BBMutex /\ BBCount /\ BBRing

(* What the remainder is for the sums of a slot number and a length.       *)
LEMMA ModSlots == \A a \in 0 .. 2*N - 1 : a % N = IF a < N THEN a ELSE a - N
  BY BufferAssumption, SMTT(30)

(* The next slot, round the ring.                                          *)
LEMMA AdvanceSlot ==
  ASSUME NEW i \in Slots
  PROVE  Advance(i) \in Slots /\ Advance(i) = (IF i = N - 1 THEN 0 ELSE i + 1)
  BY BufferAssumption, ModSlots DEF Slots, Advance

(* BB_create establishes the invariant.                                    *)
LEMMA BBInvInit == BBInit => BBInv
<1> SUFFICES ASSUME BBInit PROVE BBInv
  OBVIOUS
<1> USE BufferAssumption DEF BBInit
<1>1. BBType
  BY DEF BBType, Slots, Callers, PutLabels, PopLabels, PopDone
<1>2. BBMutex
  BY DEF BBMutex, HeldLabels
<1>3. Filled = {} /\ AtLabel(FreeLabels) = {} /\ AtLabel(FullLabels) = {}
  BY DEF Filled, AtLabel, FreeLabels, FullLabels, PopDone
<1>4. Cardinality({}) = 0 /\ IsFiniteSet({})
  BY FS_EmptySet
<1>5. BBCount
  BY <1>3, <1>4 DEF BBCount
<1>6. First = 0 /\ Last = 0
  BY DEF First, Last, Callers
<1>7. BBRing
  BY <1>3, <1>4, <1>6 DEF BBRing, Dist, Slots
<1> QED
  BY <1>1, <1>2, <1>5, <1>7 DEF BBInv

(* A caller's step moves the caller alone.                                 *)
LEMMA MoveAll ==
  ASSUME BBType, NEW t \in Callers, NEW from, NEW to \in PutLabels \union PopLabels,
         Move(t, from, to)
  PROVE  /\ bpc' \in [Callers -> PutLabels \union PopLabels]
         /\ bpc[t] = from /\ bpc'[t] = to
         /\ \A u \in Callers : u # t => bpc'[u] = bpc[u]
  BY DEF BBType, Move

(* The slots are a finite set, and so are the filled ones.                 *)
LEMMA FilledFinite ==
  IsFiniteSet(Filled) /\ Cardinality(Filled) \in Nat /\ Cardinality(Filled') \in Nat
<1>1. IsFiniteSet(Slots)
  BY BufferAssumption, FS_Interval DEF Slots
<1>2. Filled \subseteq Slots /\ Filled' \subseteq Slots
  BY DEF Filled
<1> QED
  BY <1>1, <1>2, FS_Subset, FS_CardinalityType

(* A caller that is at a label is counted.                                 *)
LEMMA CallerCounts ==
  ASSUME NEW L, IsFiniteSet(AtLabel(L)), NEW t \in Callers, bpc[t] \in L
  PROVE  Cardinality(AtLabel(L)) \in Nat \ {0}
<1>1. t \in AtLabel(L)
  BY DEF AtLabel
<1> QED
  BY <1>1, FS_EmptySet, FS_CardinalityType

(* A put that has got past empty finds the slot at end free.               *)
LEMMA PutRoom ==
  ASSUME BBInv, NEW p \in Producers, bpc[p] = "put_store"
  PROVE  /\ First = start /\ Last = end
         /\ Cardinality(Filled) < N /\ elements[end] = Null
<1>1. First = start /\ Last = end
  BY DEF First, Last, BBInv, BBMutex, HeldLabels, Callers
<1>2. Cardinality(AtLabel(FreeLabels)) \in Nat \ {0}
  BY Zenon, CallerCounts DEF BBInv, BBCount, Callers, FreeLabels
<1>3. Cardinality(Filled) < N
  BY <1>2, FilledFinite, BufferAssumption DEF BBInv, BBCount, BBType
<1>4. elements[end] = Null
  BY <1>1, <1>3, FilledFinite DEF BBInv, BBRing, BBType
<1> QED
  BY <1>1, <1>3, <1>4

(* A pop that has got past full finds an element at start.                 *)
LEMMA PopThere ==
  ASSUME BBInv, NEW c \in Consumers, bpc[c] = "pop_take"
  PROVE  /\ First = start /\ Last = end
         /\ Cardinality(Filled) > 0 /\ elements[start] \in Items
<1>1. First = start /\ Last = end
  BY DEF First, Last, BBInv, BBMutex, HeldLabels, Callers
<1>2. Cardinality(AtLabel(FullLabels)) \in Nat \ {0}
  BY CallerCounts DEF BBInv, BBCount, Callers, FullLabels
<1>3. Cardinality(Filled) > 0
  BY <1>2, FilledFinite DEF BBInv, BBCount, BBType
<1>4. elements[start] # Null
  BY <1>1, <1>3 DEF BBInv, BBRing, BBType, Dist, Slots
<1> QED
  BY <1>1, <1>3, <1>4 DEF BBInv, BBType

(* Type correctness, for any label and value of an action.                 *)
LEMMA BBTypeStep == BBInv /\ [BBNext]_bbvars => BBType'
<1> SUFFICES ASSUME BBInv, [BBNext]_bbvars PROVE BBType'
  OBVIOUS
<1> USE BufferAssumption
        DEF BBInv, BBType, Callers, PutLabels, PopLabels, PopDone, Move
<1>1. ASSUME NEW p \in Producers, NEW x \in Items, CallPut(p, x) PROVE BBType'
  BY <1>1 DEF CallPut
<1>2. ASSUME NEW p \in Producers, PutWait(p) PROVE BBType'
  BY <1>2 DEF PutWait
<1>3. ASSUME NEW p \in Producers, PutLock(p) \/ PutUnlock(p) PROVE BBType'
  BY <1>3 DEF PutLock, PutUnlock, MutexDown, MutexUp
<1>4. ASSUME NEW p \in Producers, PutStore(p) PROVE BBType'
  BY Zenon, <1>4 DEF PutStore
<1>5. ASSUME NEW p \in Producers, PutAdvance(p) PROVE BBType'
  BY Zenon, <1>5, AdvanceSlot DEF PutAdvance
<1>6. ASSUME NEW p \in Producers, PutSignal(p) PROVE BBType'
  BY <1>6 DEF PutSignal
<1>7. ASSUME NEW c \in Consumers, CallPop(c) PROVE BBType'
  BY <1>7 DEF CallPop
<1>8. ASSUME NEW c \in Consumers, PopWait(c) PROVE BBType'
  BY <1>8 DEF PopWait
<1>9. ASSUME NEW c \in Consumers, PopLock(c) \/ PopUnlock(c) PROVE BBType'
  BY <1>9 DEF PopLock, PopUnlock, MutexDown, MutexUp
<1>10. ASSUME NEW c \in Consumers, PopTake(c) PROVE BBType'
  <2>1. elements[start] \in Items
    BY Zenon, <1>10, PopThere DEF PopTake
  <2> QED
    BY Zenon, <1>10, <2>1 DEF PopTake
<1>11. ASSUME NEW c \in Consumers, PopAdvance(c) PROVE BBType'
  BY Zenon, <1>11, AdvanceSlot DEF PopAdvance
<1>12. ASSUME NEW c \in Consumers, PopSignal(c) PROVE BBType'
  BY <1>12 DEF PopSignal
<1>13. CASE UNCHANGED bbvars
  BY Zenon, <1>13 DEF bbvars
<1> HIDE DEF BBInv, BBType
<1> QED
  BY Zenon, <1>1, <1>2, <1>3, <1>4, <1>5, <1>6, <1>7, <1>8, <1>9, <1>10, <1>11, <1>12, <1>13 DEF BBNext

(* Every step keeps the mutex down while a caller is between down and up.  *)
LEMMA BBMutexStep == BBInv /\ [BBNext]_bbvars => BBMutex'
<1> SUFFICES ASSUME BBInv, [BBNext]_bbvars PROVE BBMutex'
  OBVIOUS
<1> USE DEF BBInv, BBType, BBMutex, Callers, HeldLabels
<1>1. ASSUME NEW t \in Callers, NEW from, NEW to, MutexDown(t, from, to) PROVE BBMutex'
  BY Zenon, <1>1 DEF MutexDown, Move
<1>2. ASSUME NEW t \in Callers, NEW from \in HeldLabels, NEW to, to \notin HeldLabels,
             MutexUp(t, from, to)
      PROVE  BBMutex'
  BY Zenon, <1>2 DEF MutexUp, Move
<1>3. ASSUME NEW t \in Callers, NEW from, NEW to, Move(t, from, to), UNCHANGED mutex,
             to \in HeldLabels => from \in HeldLabels
      PROVE  BBMutex'
  BY Zenon, <1>3 DEF Move
<1> HIDE DEF BBInv, BBType, BBMutex
<1>4. ASSUME NEW p \in Producers, NEW x \in Items,
             CallPut(p, x) \/ PutWait(p) \/ PutStore(p) \/ PutAdvance(p) \/ PutSignal(p)
      PROVE  BBMutex'
  BY <1>3, <1>4 DEF CallPut, PutWait, PutStore, PutAdvance, PutSignal
<1>5. ASSUME NEW c \in Consumers,
             CallPop(c) \/ PopWait(c) \/ PopTake(c) \/ PopAdvance(c) \/ PopSignal(c)
      PROVE  BBMutex'
  BY Zenon, <1>3, <1>5 DEF CallPop, PopWait, PopTake, PopAdvance, PopSignal
<1>6. ASSUME NEW p \in Producers, PutWait(p) \/ PutStore(p) \/ PutAdvance(p) \/ PutSignal(p)
      PROVE  BBMutex'
  BY <1>3, <1>6 DEF PutWait, PutStore, PutAdvance, PutSignal
<1>7. ASSUME NEW p \in Producers, PutLock(p) \/ PutUnlock(p) PROVE BBMutex'
  BY <1>1, <1>2, <1>7 DEF PutLock, PutUnlock
<1>8. ASSUME NEW c \in Consumers, PopLock(c) \/ PopUnlock(c) PROVE BBMutex'
  BY <1>1, <1>2, <1>8 DEF PopLock, PopUnlock
<1>9. CASE UNCHANGED bbvars
  BY <1>9 DEF bbvars, BBInv, BBMutex
<1> QED
  BY <1>4, <1>5, <1>6, <1>7, <1>8, <1>9 DEF BBNext

Weight(l, L) == IF l \in L THEN 1 ELSE 0

(* How many callers are at some labels, after one of them has moved.       *)
LEMMA MoveCount ==
  ASSUME BBType, NEW t \in Callers, NEW from, NEW to, Move(t, from, to), NEW L,
         IsFiniteSet(AtLabel(L))
  PROVE  /\ IsFiniteSet(AtLabel(L)')
         /\ Cardinality(AtLabel(L)') = Cardinality(AtLabel(L)) + Weight(to, L) - Weight(from, L)
<1> DEFINE at == AtLabel(L)
           after == AtLabel(L)'
<1>1. t \in at <=> from \in L
  BY DEF AtLabel, Move
<1>2. after = IF to \in L THEN at \union {t} ELSE at \ {t}
  BY DEF AtLabel, Move, BBType
<1> HIDE DEF at, after
<1>3. IsFiniteSet(at) /\ Cardinality(at) \in Nat
  BY FS_CardinalityType DEF at
<1>4. /\ IsFiniteSet(at \union {t})
      /\ Cardinality(at \union {t}) = IF t \in at THEN Cardinality(at) ELSE Cardinality(at) + 1
  BY Zenon, <1>3, FS_AddElement
<1>5. /\ IsFiniteSet(at \ {t})
      /\ Cardinality(at \ {t}) = IF t \in at THEN Cardinality(at) - 1 ELSE Cardinality(at)
  BY Zenon, <1>3, FS_RemoveElement
<1>6. /\ IsFiniteSet(after)
      /\ Cardinality(after) = Cardinality(at) + Weight(to, L) - Weight(from, L)
  BY <1>1, <1>2, <1>3, <1>4, <1>5 DEF Weight
<1> QED
  BY <1>6 DEF at, after

(* PutStore fills one more slot.                                           *)
LEMMA FilledPut ==
  ASSUME BBInv, NEW p \in Producers, PutStore(p)
  PROVE  Cardinality(Filled') = Cardinality(Filled) + 1
<1>1. elements[end] = Null /\ item[p] # Null
  BY Zenon, PutRoom, BufferAssumption DEF PutStore, Move, BBInv, BBType
<1>2. Filled' = Filled \union {end} /\ end \notin Filled
  BY Zenon, <1>1 DEF Filled, PutStore, BBInv, BBType
<1> QED
  BY <1>2, FilledFinite, FS_AddElement

(* PopTake empties one more slot.                                          *)
LEMMA FilledPop ==
  ASSUME BBInv, NEW c \in Consumers, PopTake(c)
  PROVE  Cardinality(Filled') = Cardinality(Filled) - 1
<1>1. elements[start] # Null
  BY PopThere, BufferAssumption DEF PopTake, Move
<1>2. Filled' = Filled \ {start} /\ start \in Filled
  BY Zenon, <1>1 DEF Filled, PopTake, BBInv, BBType
<1> QED
  BY Zenon, <1>2, FilledFinite, FS_RemoveElement

(* Every step keeps the two sums: each slot is free or filled, and counted *)
(* or promised.                                                            *)
LEMMA BBCountStep == BBInv /\ [BBNext]_bbvars => BBCount'
<1> SUFFICES ASSUME BBInv, [BBNext]_bbvars PROVE BBCount'
  OBVIOUS
<1> DEFINE FreeN == Cardinality(AtLabel(FreeLabels))
           FullN == Cardinality(AtLabel(FullLabels))
           K == Cardinality(Filled)
<1>1. ASSUME NEW t \in Callers, NEW from, NEW to, Move(t, from, to),
             empty' + Weight(to, FreeLabels) - Weight(from, FreeLabels) - empty = K - K',
             full' + Weight(to, FullLabels) - Weight(from, FullLabels) - full = K' - K,
             empty' \in Nat, full' \in Nat
      PROVE  BBCount'
  <2>1. /\ IsFiniteSet(AtLabel(FreeLabels)') /\ IsFiniteSet(AtLabel(FullLabels)')
        /\ FreeN' = FreeN + Weight(to, FreeLabels) - Weight(from, FreeLabels)
        /\ FullN' = FullN + Weight(to, FullLabels) - Weight(from, FullLabels)
    BY <1>1, MoveCount DEF BBInv, BBCount
  <2>2. FreeN \in Nat /\ FullN \in Nat /\ K \in Nat /\ K' \in Nat
    BY FilledFinite, FS_CardinalityType DEF BBInv, BBCount
  <2> QED
    BY <1>1, <2>1, <2>2, BufferAssumption DEF BBInv, BBCount, BBType, Weight
<1>2. BBType' /\ BBType
  BY BBTypeStep DEF BBInv
<1>3. K \in Nat
  BY FilledFinite
<1>4. ASSUME UNCHANGED elements PROVE K' = K
  BY <1>4 DEF Filled
<1> HIDE DEF K
<1> USE <1>1, <1>2, <1>3, <1>4 DEF BBType, Callers, Weight, FreeLabels, FullLabels, PopDone
<1>5. ASSUME NEW p \in Producers, NEW x \in Items, CallPut(p, x) PROVE BBCount'
  BY <1>5 DEF CallPut
<1>6. ASSUME NEW p \in Producers, PutWait(p) PROVE BBCount'
  BY <1>6 DEF PutWait
<1>7. ASSUME NEW p \in Producers, PutLock(p) \/ PutUnlock(p) PROVE BBCount'
  BY <1>7 DEF PutLock, PutUnlock, MutexDown, MutexUp
<1>8. ASSUME NEW p \in Producers, PutStore(p) PROVE BBCount'
  <2>1. K' = K + 1
    BY Zenon, <1>8, FilledPut DEF K
  <2> QED
    BY <1>8, <2>1 DEF PutStore
<1>9. ASSUME NEW p \in Producers, PutAdvance(p) PROVE BBCount'
  BY <1>9 DEF PutAdvance
<1>10. ASSUME NEW p \in Producers, PutSignal(p) PROVE BBCount'
  BY <1>10 DEF PutSignal
<1>11. ASSUME NEW c \in Consumers, CallPop(c) PROVE BBCount'
  BY <1>11 DEF CallPop
<1>12. ASSUME NEW c \in Consumers, PopWait(c) PROVE BBCount'
  BY <1>12 DEF PopWait
<1>13. ASSUME NEW c \in Consumers, PopLock(c) \/ PopUnlock(c) PROVE BBCount'
  BY <1>13 DEF PopLock, PopUnlock, MutexDown, MutexUp
<1>14. ASSUME NEW c \in Consumers, PopTake(c) PROVE BBCount'
  <2>1. K' = K - 1
    BY Zenon, <1>14, FilledPop DEF K
  <2> QED
    BY <1>14, <2>1 DEF PopTake
<1>15. ASSUME NEW c \in Consumers, PopAdvance(c) PROVE BBCount'
  BY <1>15 DEF PopAdvance
<1>16. ASSUME NEW c \in Consumers, PopSignal(c) PROVE BBCount'
  BY <1>16 DEF PopSignal
<1>17. CASE UNCHANGED bbvars
  BY Zenon, <1>17 DEF bbvars, BBInv, BBCount, AtLabel, Filled
<1> HIDE <1>1, <1>2, <1>3, <1>4 DEF BBType
<1> QED
  BY Zenon, <1>5, <1>6, <1>7, <1>8, <1>9, <1>10, <1>11, <1>12, <1>13, <1>14, <1>15, <1>16, <1>17
  DEF BBNext

(* A step between other labels, with start and end as they are, leaves the *)
(* two ends of the ring where they are.                                    *)
LEMMA EndsStay ==
  ASSUME BBInv, NEW t \in Callers, NEW from, NEW to, Move(t, from, to), UNCHANGED <<start, end>>,
         {from, to} \cap {"put_advance", "pop_advance"} = {}
  PROVE  First' = First /\ Last' = Last
<1>1. \A u \in Callers : /\ bpc'[u] = "put_advance" <=> bpc[u] = "put_advance"
                         /\ bpc'[u] = "pop_advance" <=> bpc[u] = "pop_advance"
  BY Zenon DEF Move, BBInv, BBType
<1> QED
  BY Zenon, <1>1 DEF First, Last, Callers, Advance

(* PutAdvance and PopAdvance only move the counter itself.                 *)
LEMMA AdvanceEnds ==
  ASSUME BBInv, NEW t \in Callers
  PROVE  /\ t \in Producers /\ PutAdvance(t) => First' = First /\ Last' = Last
         /\ t \in Consumers /\ PopAdvance(t) => First' = First /\ Last' = Last
<1> USE DEF BBInv, BBType, BBMutex, HeldLabels, Callers, PutLabels, PopLabels, Move
<1>1. ASSUME t \in Producers, PutAdvance(t) PROVE First' = First /\ Last' = Last
  <2>1. \A u \in Callers : u # t => bpc[u] \notin HeldLabels /\ bpc'[u] = bpc[u]
    BY Zenon, <1>1 DEF PutAdvance
  <2>2. bpc[t] = "put_advance" /\ bpc'[t] = "put_unlock"
    BY Zenon, <1>1 DEF PutAdvance
  <2> QED
    BY Zenon, <1>1, <2>1, <2>2, BufferAssumption DEF First, Last, PutAdvance
<1>2. ASSUME t \in Consumers, PopAdvance(t) PROVE First' = First /\ Last' = Last
  <2>1. \A u \in Callers : u # t => bpc[u] \notin HeldLabels /\ bpc'[u] = bpc[u]
    BY Zenon, <1>2 DEF PopAdvance
  <2>2. bpc[t] = "pop_advance" /\ bpc'[t] = "pop_unlock"
    BY Zenon, <1>2 DEF PopAdvance
  <2> QED
    BY Zenon, <1>2, <2>1, <2>2, BufferAssumption DEF First, Last, PopAdvance
<1> QED
  BY Zenon, <1>1, <1>2

(* PutStore moves the end of the run by a slot.                            *)
LEMMA StoreEnds ==
  ASSUME BBInv, NEW p \in Producers, PutStore(p)
  PROVE  First' = start /\ Last' = Advance(end)
<1>1. \A c \in Consumers : bpc'[c] # "pop_advance"
  BY Zenon, BufferAssumption
  DEF PutStore, Move, BBInv, BBType, BBMutex, HeldLabels, Callers
<1>2. bpc'[p] = "put_advance"
  BY Zenon DEF PutStore, Move, BBInv, BBType, Callers
<1> QED
  BY Zenon, <1>1, <1>2 DEF First, Last, PutStore, Advance

(* PopTake moves the beginning of the run by a slot.                       *)
LEMMA TakeEnds ==
  ASSUME BBInv, NEW c \in Consumers, PopTake(c)
  PROVE  First' = Advance(start) /\ Last' = end
<1>1. \A p \in Producers : bpc'[p] # "put_advance"
  BY Zenon, BufferAssumption
  DEF PopTake, Move, BBInv, BBType, BBMutex, HeldLabels, Callers
<1>2. bpc'[c] = "pop_advance"
  BY Zenon DEF PopTake, Move, BBInv, BBType, Callers
<1> QED
  BY Zenon, <1>1, <1>2 DEF First, Last, PopTake, Advance

(* First and Last are slots.                                               *)
LEMMA EndSlots == BBInv => First \in Slots /\ Last \in Slots
  BY Zenon, AdvanceSlot DEF BBInv, BBType, First, Last

(* Every step keeps the filled slots in one run from First to Last.        *)
LEMMA BBRingStep == BBInv /\ [BBNext]_bbvars => BBRing'
<1> SUFFICES ASSUME BBInv, [BBNext]_bbvars PROVE BBRing'
  OBVIOUS
<1>1. ASSUME UNCHANGED elements, First' = First, Last' = Last PROVE BBRing'
  BY Zenon, <1>1 DEF BBInv, BBRing, Filled, Dist
<1>2. ASSUME NEW p \in Producers, PutStore(p) PROVE BBRing'
  <2> DEFINE K == Cardinality(Filled)
  <2>1. start \in Slots /\ end \in Slots /\ K \in Nat /\ K < N /\ K' = K + 1
    BY Zenon, <1>2, PutRoom, FilledPut, FilledFinite DEF BBInv, BBType, PutStore, Move
  <2>2. First' = start /\ Last' = Advance(end) /\ Dist(start, end) = K
    BY Zenon, <1>2, <2>1, PutRoom, StoreEnds DEF BBInv, BBRing, PutStore, Move
  <2>3. \A j \in Slots : elements[j] # Null <=> Dist(start, j) < K
    BY Zenon, <1>2, PutRoom DEF BBInv, BBRing, PutStore, Move
  <2>4. \A j \in Slots : elements'[j] = IF j = end THEN item[p] ELSE elements[j]
    BY Zenon, <1>2 DEF PutStore, BBInv, BBType
  <2>5. item[p] # Null
    BY Zenon, <1>2, BufferAssumption DEF PutStore, Move, BBInv, BBType
  <2>6. Advance(end) = IF end = N - 1 THEN 0 ELSE end + 1
    BY Zenon, <2>1, AdvanceSlot
  <2> HIDE DEF K
  <2>7. \A j \in Slots : elements'[j] # Null <=> Dist(start, j) < K + 1
    BY <2>1, <2>2, <2>3, <2>4, <2>5, BufferAssumption DEF Dist, Slots
  <2>8. K + 1 < N => Dist(start, Advance(end)) = K + 1
    BY <2>1, <2>2, <2>6, BufferAssumption DEF Dist, Slots
  <2>9. K + 1 = N => Advance(end) = start
    BY <2>1, <2>2, <2>6, BufferAssumption DEF Dist, Slots
  <2> QED
    BY Zenon, <2>1, <2>2, <2>7, <2>8, <2>9 DEF BBRing, K, Dist
<1>3. ASSUME NEW c \in Consumers, PopTake(c) PROVE BBRing'
  <2> DEFINE K == Cardinality(Filled)
  <2>1. start \in Slots /\ end \in Slots /\ K \in Nat /\ K > 0 /\ K' = K - 1
    BY Zenon, <1>3, PopThere, FilledPop, FilledFinite DEF BBInv, BBType, PopTake, Move
  <2>2. /\ First' = Advance(start) /\ Last' = end
        /\ K < N => Dist(start, end) = K
        /\ K = N => end = start
    BY Zenon, <1>3, <2>1, PopThere, TakeEnds DEF BBInv, BBRing, PopTake, Move
  <2>3. \A j \in Slots : elements[j] # Null <=> Dist(start, j) < K
    BY Zenon, <1>3, PopThere DEF BBInv, BBRing, PopTake, Move
  <2>4. \A j \in Slots : elements'[j] = IF j = start THEN Null ELSE elements[j]
    BY Zenon, <1>3 DEF PopTake, BBInv, BBType
  <2>5. Advance(start) \in Slots /\ Advance(start) = IF start = N - 1 THEN 0 ELSE start + 1
    BY Zenon, <2>1, AdvanceSlot
  <2>6. K <= N
    BY FilledFinite, FS_CardinalityType, BufferAssumption DEF BBInv, BBCount, BBType
  <2> HIDE DEF K
  <2>7. \A j \in Slots : elements'[j] # Null <=> Dist(Advance(start), j) < K - 1
    BY <2>1, <2>3, <2>4, <2>5, <2>6, BufferAssumption DEF Dist, Slots
  <2>8. Dist(Advance(start), end) = K - 1
    BY <2>1, <2>2, <2>5, <2>6, BufferAssumption DEF Dist, Slots
  <2> QED
    BY <2>1, <2>2, <2>6, <2>7, <2>8, BufferAssumption DEF BBRing, K, Dist
<1>4. ASSUME NEW p \in Producers, NEW x \in Items, CallPut(p, x) PROVE BBRing'
  BY Zenon, <1>1, <1>4, EndsStay DEF CallPut, Callers
<1>5. ASSUME NEW p \in Producers, PutWait(p) \/ PutSignal(p) PROVE BBRing'
  BY Zenon, <1>1, <1>5, EndsStay DEF PutWait, PutSignal, Callers
<1>6. ASSUME NEW p \in Producers, PutLock(p) \/ PutUnlock(p) PROVE BBRing'
  BY Zenon, <1>1, <1>6, EndsStay DEF PutLock, PutUnlock, MutexDown, MutexUp, Callers
<1>7. ASSUME NEW p \in Producers, PutAdvance(p) PROVE BBRing'
  BY Zenon, <1>1, <1>7, AdvanceEnds DEF PutAdvance, Callers
<1>8. ASSUME NEW c \in Consumers, CallPop(c) \/ PopWait(c) \/ PopSignal(c) PROVE BBRing'
  BY Zenon, <1>1, <1>8, EndsStay DEF CallPop, PopWait, PopSignal, Callers
<1>9. ASSUME NEW c \in Consumers, PopLock(c) \/ PopUnlock(c) PROVE BBRing'
  BY Zenon, <1>1, <1>9, EndsStay DEF PopLock, PopUnlock, MutexDown, MutexUp, Callers
<1>10. ASSUME NEW c \in Consumers, PopAdvance(c) PROVE BBRing'
  BY Zenon, <1>1, <1>10, AdvanceEnds DEF PopAdvance, Callers
<1>11. CASE UNCHANGED bbvars
  BY Zenon, <1>1, <1>11 DEF bbvars, First, Last, Advance
<1> QED
  BY Zenon, <1>2, <1>3, <1>4, <1>5, <1>6, <1>7, <1>8, <1>9, <1>10, <1>11 DEF BBNext

(* The four parts together are inductive.                                  *)
LEMMA BBInvStep == BBInv /\ [BBNext]_bbvars => BBInv'
  BY BBTypeStep, BBMutexStep, BBCountStep, BBRingStep DEF BBInv

-----------------------------------------------------------------------------
(* The slot that holds the i-th element of a ring that begins at f.        *)
LEMMA SlotOf ==
  ASSUME NEW f \in Slots, NEW i \in 1 .. N
  PROVE  /\ (f + i - 1) % N \in Slots
         /\ (f + i - 1) % N = IF f + i - 1 < N THEN f + i - 1 ELSE f + i - 1 - N
         /\ Dist(f, (f + i - 1) % N) = i - 1
  BY ModSlots, BufferAssumption DEF Slots, Dist

(* The contents are a sequence of as many elements as there are filled     *)
(* slots.                                                                  *)
LEMMA ContentsSeq ==
  ASSUME BBInv
  PROVE  /\ Cardinality(Filled) \in 0 .. N
         /\ Contents = [i \in 1 .. Cardinality(Filled) |-> elements[(First + i - 1) % N]]
         /\ Contents \in Seq(Items) /\ Len(Contents) = Cardinality(Filled)
<1> DEFINE K == Cardinality(Filled)
<1>1. K \in 0 .. N
  BY FilledFinite, FS_CardinalityType, BufferAssumption DEF BBInv, BBCount, BBType
<1>2. Contents = [i \in 1 .. K |-> elements[(First + i - 1) % N]]
  BY Zenon DEF Contents, Filled
<1> HIDE DEF K
<1>3. ASSUME NEW i \in 1 .. K PROVE elements[(First + i - 1) % N] \in Items
  <2>1. First \in Slots /\ i \in 1 .. N
    BY <1>1, <1>3, EndSlots, BufferAssumption
  <2>2. (First + i - 1) % N \in Slots /\ Dist(First, (First + i - 1) % N) = i - 1
    BY Zenon, <2>1, SlotOf
  <2>3. elements[(First + i - 1) % N] # Null
    BY <1>1, <1>3, <2>2 DEF BBInv, BBRing, K
  <2> QED
    BY Zenon, <2>2, <2>3 DEF BBInv, BBType
<1>4. Contents \in [1 .. K -> Items]
  BY Zenon, <1>2, <1>3
<1> QED
  BY <1>1, <1>2, <1>4 DEF K

(* PutStore appends to the contents.                                       *)
LEMMA StoreAppends ==
  ASSUME BBInv, BBInv', NEW p \in Producers, PutStore(p)
  PROVE  Len(Contents) < N /\ Contents' = Append(Contents, item[p])
<1> DEFINE K == Cardinality(Filled)
<1>1. K \in 0 .. N /\ K < N /\ K' = K + 1 /\ start \in Slots /\ end \in Slots
  BY Zenon, FilledPut, PutRoom, ContentsSeq DEF PutStore, Move, BBInv, BBType
<1>2. First = start /\ First' = start /\ Dist(start, end) = K
  BY Zenon, PutRoom, StoreEnds DEF PutStore, Move, BBInv, BBRing
<1>3. /\ Contents = [i \in 1 .. K |-> elements[(start + i - 1) % N]]
      /\ Len(Contents) = K /\ Contents \in Seq(Items)
  BY Zenon, <1>2, ContentsSeq
<1>4. Contents' = [i \in 1 .. K + 1 |-> elements'[(start + i - 1) % N]]
  BY Zenon, <1>1, <1>2 DEF Contents, Filled
<1> HIDE DEF K
<1>5. ASSUME NEW i \in 1 .. K
      PROVE elements'[(start + i - 1) % N] = elements[(start + i - 1) % N]
  <2>1. (start + i - 1) % N \in Slots /\ (start + i - 1) % N # end
    BY <1>1, <1>2, SlotOf, BufferAssumption
  <2> QED
    BY Zenon, <2>1 DEF PutStore, BBInv, BBType
<1>6. elements'[(start + (K + 1) - 1) % N] = item[p]
  <2>1. (start + (K + 1) - 1) % N = end
    <3>1. K + 1 \in 1 .. N
      BY <1>1, BufferAssumption
    <3>2. (start + (K + 1) - 1) % N
            = IF start + (K + 1) - 1 < N THEN start + (K + 1) - 1 ELSE start + (K + 1) - 1 - N
      BY Zenon, <1>1, <3>1, SlotOf
    <3> QED
      BY <1>1, <1>2, <3>2, BufferAssumption DEF Slots, Dist
  <2> QED
    BY Zenon, <1>1, <2>1 DEF PutStore, BBInv, BBType
<1>7. item[p] \in Items
  BY Zenon DEF PutStore, Move, BBInv, BBType
<1>8. Contents' = Append(Contents, item[p])
  BY <1>1, <1>3, <1>4, <1>5, <1>6, <1>7
<1> QED
  BY Zenon, <1>1, <1>3, <1>8

(* PopTake removes the first of the contents, and returns it.              *)
LEMMA TakeRemoves ==
  ASSUME BBInv, BBInv', NEW c \in Consumers, PopTake(c)
  PROVE  Contents # <<>> /\ item'[c] = Head(Contents) /\ Contents' = Tail(Contents)
<1> DEFINE K == Cardinality(Filled)
<1>1. K \in 1 .. N /\ K' = K - 1 /\ start \in Slots
  <2>1. bpc[c] = "pop_take" /\ start \in Slots
    BY Zenon DEF PopTake, Move, BBInv, BBType
  <2> QED
    BY <2>1, FilledPop, PopThere, ContentsSeq, BufferAssumption
<1>2. First = start /\ First' = Advance(start)
  BY Zenon, PopThere, TakeEnds DEF PopTake, Move
<1>3. /\ Contents = [i \in 1 .. K |-> elements[(start + i - 1) % N]]
      /\ Len(Contents) = K /\ Contents \in Seq(Items)
  BY Zenon, <1>2, ContentsSeq
<1>4. Contents' = [i \in 1 .. K - 1 |-> elements'[(Advance(start) + i - 1) % N]]
  BY Zenon, <1>1, <1>2 DEF Contents, Filled
<1> HIDE DEF K
<1>5. ASSUME NEW i \in 1 .. K - 1
      PROVE elements'[(Advance(start) + i - 1) % N] = elements[(start + (i + 1) - 1) % N]
  <2>1. i + 1 \in 1 .. N /\ i \in 1 .. N
    BY <1>1, BufferAssumption
  <2>2. Advance(start) \in Slots /\ Advance(start) = (IF start = N - 1 THEN 0 ELSE start + 1)
    BY Zenon, <1>1, AdvanceSlot
  <2>3. /\ (start + (i + 1) - 1) % N \in Slots
        /\ (start + (i + 1) - 1) % N
             = (IF start + (i + 1) - 1 < N THEN start + (i + 1) - 1 ELSE start + (i + 1) - 1 - N)
        /\ Dist(start, (start + (i + 1) - 1) % N) = (i + 1) - 1
    BY Zenon, <1>1, <2>1, SlotOf
  <2>4. (Advance(start) + i - 1) % N
          = IF Advance(start) + i - 1 < N THEN Advance(start) + i - 1
            ELSE Advance(start) + i - 1 - N
    BY Zenon, <2>1, <2>2, SlotOf
  <2>5. (Advance(start) + i - 1) % N = (start + (i + 1) - 1) % N
    BY <1>1, <2>1, <2>2, <2>3, <2>4, BufferAssumption DEF Slots
  <2>6. (start + (i + 1) - 1) % N # start
    BY <1>1, <2>1, <2>3, BufferAssumption DEF Dist, Slots
  <2> QED
    BY Zenon, <2>3, <2>5, <2>6 DEF PopTake, BBInv, BBType
<1>6. (start + 1 - 1) % N = start
  BY <1>1, SlotOf, BufferAssumption DEF Slots
<1>7. item'[c] = elements[start]
  BY Zenon DEF PopTake, BBInv, BBType, Callers
<1>8. Contents # <<>> /\ Head(Contents) = Contents[1]
  BY <1>1, <1>3
<1>9. Contents[1] = elements[start]
  BY <1>1, <1>3, <1>6
<1>10. Tail(Contents) = [i \in 1 .. K - 1 |-> Contents[i + 1]]
  BY <1>1, <1>3
<1>11. \A i \in 1 .. K - 1 : Contents[i + 1] = elements'[(Advance(start) + i - 1) % N]
  BY <1>1, <1>3, <1>5
<1>12. Contents' = Tail(Contents)
  BY Zenon, <1>4, <1>10, <1>11
<1> QED
  BY Zenon, <1>7, <1>8, <1>9, <1>12

PutOf(label, x) == IF label \in {"put_wait", "put_lock", "put_store"} THEN x ELSE "none"
GotOf(label, x) ==
  IF label = "idle" THEN "none"
  ELSE IF label \in {"pop_wait", "pop_lock", "pop_take"} THEN "waiting" ELSE x
Puts == [p \in Producers |-> PutOf(bpc[p], item[p])]
Gots == [c \in Consumers |-> GotOf(bpc[c], item[c])]

(* A caller's step changes what the abstract queue sees of that caller.    *)
LEMMA PutSeen ==
  ASSUME BBInv, NEW p \in Producers, NEW from, NEW to, Move(p, from, to),
         \A u \in Callers : u # p => item'[u] = item[u]
  PROVE  /\ Gots' = Gots /\ Puts[p] = PutOf(from, item[p])
         /\ Puts' = [Puts EXCEPT ![p] = PutOf(to, item'[p])]
<1>1. /\ \A u \in Consumers : bpc'[u] = bpc[u] /\ item'[u] = item[u]
      /\ \A u \in Producers \ {p} : bpc'[u] = bpc[u] /\ item'[u] = item[u]
      /\ bpc[p] = from /\ bpc'[p] = to
  BY Zenon, BufferAssumption DEF BBInv, BBType, Move, Callers
<1>2. Gots' = Gots
  BY Zenon, <1>1 DEF Gots
<1>3. Puts' = [Puts EXCEPT ![p] = PutOf(to, item'[p])]
  BY Zenon, <1>1 DEF Puts
<1> QED
  BY Zenon, <1>1, <1>2, <1>3 DEF Puts

(* The same for a consumer.                                                *)
LEMMA GotSeen ==
  ASSUME BBInv, NEW c \in Consumers, NEW from, NEW to, Move(c, from, to),
         \A u \in Callers : u # c => item'[u] = item[u]
  PROVE  /\ Puts' = Puts /\ Gots[c] = GotOf(from, item[c])
         /\ Gots' = [Gots EXCEPT ![c] = GotOf(to, item'[c])]
<1>1. /\ \A u \in Producers : bpc'[u] = bpc[u] /\ item'[u] = item[u]
      /\ \A u \in Consumers \ {c} : bpc'[u] = bpc[u] /\ item'[u] = item[u]
      /\ bpc[c] = from /\ bpc'[c] = to
  BY Zenon, BufferAssumption DEF BBInv, BBType, Move, Callers
<1>2. Puts' = Puts
  BY <1>1 DEF Puts
<1>3. Gots' = [Gots EXCEPT ![c] = GotOf(to, item'[c])]
  BY Zenon, <1>1 DEF Gots
<1> QED
  BY Zenon, <1>1, <1>2, <1>3 DEF Gots

(* Steps that leave the ring alone leave its contents alone.               *)
LEMMA ContentsStay ==
  ASSUME UNCHANGED elements, First' = First
  PROVE  Contents' = Contents
  BY Zenon DEF Contents

(* The values of the mapping at each label.                                *)
LEMMA SeenValues ==
  ASSUME NEW x
  PROVE  /\ PutOf("idle", x) = "none" /\ PutOf("put_wait", x) = x /\ PutOf("put_lock", x) = x
         /\ PutOf("put_store", x) = x /\ PutOf("put_advance", x) = "none"
         /\ PutOf("put_unlock", x) = "none" /\ PutOf("put_signal", x) = "none"
         /\ GotOf("idle", x) = "none" /\ GotOf("pop_wait", x) = "waiting"
         /\ GotOf("pop_lock", x) = "waiting" /\ GotOf("pop_take", x) = "waiting"
         /\ GotOf("pop_advance", x) = x /\ GotOf("pop_unlock", x) = x /\ GotOf("pop_signal", x) = x
  BY Zenon DEF PutOf, GotOf

(* The empty ring is the empty queue.                                      *)
LEMMA QueueInit == BBInit => Queue!Init
<1> SUFFICES ASSUME BBInit PROVE Queue!Init
  OBVIOUS
<1>1. Contents = <<>>
  <2>1. {j \in Slots : elements[j] # Null} = {}
    BY Zenon DEF BBInit
  <2>2. Cardinality({j \in Slots : elements[j] # Null}) = 0
    BY Zenon, <2>1, FS_EmptySet
  <2>3. Contents \in [1 .. 0 -> Items]
    BY <2>2 DEF Contents
  <2>4. Contents \in Seq(Items) /\ Len(Contents) = 0
    BY <2>3
  <2> QED
    BY <2>4
<1> QED
  BY Zenon, <1>1 DEF BBInit, Queue!Init, Callers

(* Every step of BB_put and BB_pop is a step of the queue, or none.        *)
LEMMA QueueStep ==
  ASSUME BBInv, BBInv', [BBNext]_bbvars
  PROVE  Queue!Next \/ UNCHANGED <<Contents, Puts, Gots>>
<1>1. ASSUME NEW p \in Producers, NEW x \in Items, CallPut(p, x) PROVE Queue!Next
  <2>1. Puts[p] = "none" /\ Puts' = [Puts EXCEPT ![p] = x] /\ Gots' = Gots
    <3>1. item'[p] = x /\ \A u \in Callers : u # p => item'[u] = item[u]
      BY Zenon, <1>1 DEF CallPut, BBInv, BBType, Callers
    <3> QED
      BY <1>1, <3>1, PutSeen, SeenValues DEF CallPut
  <2>2. Contents' = Contents
    BY Zenon, <1>1, EndsStay, ContentsStay DEF CallPut, Callers
  <2> QED
    BY Zenon, <2>1, <2>2 DEF Queue!Next, Queue!CallPut, Puts, Gots, PutOf, GotOf
<1>2. ASSUME NEW p \in Producers, PutStore(p) PROVE Queue!Next
  <2>1. Puts[p] = item[p] /\ Puts' = [Puts EXCEPT ![p] = "none"] /\ Gots' = Gots
    BY <1>2, PutSeen, SeenValues DEF PutStore
  <2>2. Len(Contents) < N /\ Contents' = Append(Contents, item[p])
    BY Zenon, <1>2, StoreAppends
  <2>3. item[p] # "none"
    BY Zenon, <1>2, BufferAssumption DEF PutStore, Move, BBInv, BBType
  <2> QED
    BY Zenon, <2>1, <2>2, <2>3 DEF Queue!Next, Queue!Put, Puts, Gots, PutOf, GotOf
<1>3. ASSUME NEW c \in Consumers, CallPop(c) PROVE Queue!Next
  <2>1. Gots[c] = "none" /\ Gots' = [Gots EXCEPT ![c] = "waiting"] /\ Puts' = Puts
    BY <1>3, GotSeen, SeenValues DEF CallPop
  <2>2. Contents' = Contents
    BY Zenon, <1>3, EndsStay, ContentsStay DEF CallPop, Callers
  <2> QED
    BY Zenon, <2>1, <2>2 DEF Queue!Next, Queue!CallPop, Puts, Gots, PutOf, GotOf
<1>4. ASSUME NEW c \in Consumers, PopTake(c) PROVE Queue!Next
  <2>1. Gots[c] = "waiting" /\ Gots' = [Gots EXCEPT ![c] = elements[start]] /\ Puts' = Puts
    <3>1. item'[c] = elements[start] /\ \A u \in Callers : u # c => item'[u] = item[u]
      BY Zenon, <1>4 DEF PopTake, BBInv, BBType, Callers
    <3> QED
      BY <1>4, <3>1, GotSeen, SeenValues DEF PopTake
  <2>2. Contents # <<>> /\ item'[c] = Head(Contents) /\ Contents' = Tail(Contents)
    BY Zenon, <1>4, TakeRemoves
  <2>3. elements[start] = Head(Contents)
    BY Zenon, <1>4, <2>2 DEF PopTake, BBInv, BBType, Callers
  <2>4. Gots' = [Gots EXCEPT ![c] = Head(Contents)]
    BY Zenon, <2>1, <2>3
  <2> QED
    BY Zenon, <2>1, <2>2, <2>4 DEF Queue!Next, Queue!Pop, Puts, Gots, PutOf, GotOf
<1>5. ASSUME NEW c \in Consumers, PopSignal(c) PROVE Queue!Next
  <2>1. item[c] \in Items
    BY Zenon, <1>5 DEF PopSignal, Move, BBInv, BBType, PopDone
  <2>2. Gots[c] = item[c] /\ Gots' = [Gots EXCEPT ![c] = "none"] /\ Puts' = Puts
    BY <1>5, GotSeen, SeenValues DEF PopSignal
  <2>3. Contents' = Contents
    BY Zenon, <1>5, EndsStay, ContentsStay DEF PopSignal, Callers
  <2> QED
    BY Zenon, <2>1, <2>2, <2>3 DEF Queue!Next, Queue!Return, Puts, Gots, PutOf, GotOf
<1>6. ASSUME NEW p \in Producers, NEW from, NEW to, Move(p, from, to), UNCHANGED item,
             PutOf(to, item[p]) = PutOf(from, item[p])
      PROVE  UNCHANGED <<Puts, Gots>>
  <2>1. Gots' = Gots /\ Puts' = [Puts EXCEPT ![p] = Puts[p]]
    BY <1>6, PutSeen
  <2> QED
    BY Zenon, <2>1 DEF Puts
<1>7. ASSUME NEW p \in Producers,
             PutWait(p) \/ PutLock(p) \/ PutAdvance(p) \/ PutUnlock(p) \/ PutSignal(p)
      PROVE  UNCHANGED <<Contents, Puts, Gots>>
  <2>1. UNCHANGED <<Puts, Gots>>
    BY <1>6, <1>7, SeenValues
    DEF PutWait, PutLock, PutAdvance, PutUnlock, PutSignal, MutexDown, MutexUp
  <2>2. UNCHANGED elements /\ First' = First
    BY Zenon, <1>7, EndsStay, AdvanceEnds
    DEF PutWait, PutLock, PutAdvance, PutUnlock, PutSignal, MutexDown, MutexUp, Callers
  <2> QED
    BY Zenon, <2>1, <2>2, ContentsStay
<1>8. ASSUME NEW c \in Consumers, NEW from, NEW to, Move(c, from, to), UNCHANGED item,
             GotOf(to, item[c]) = GotOf(from, item[c])
      PROVE  UNCHANGED <<Puts, Gots>>
  <2>1. Puts' = Puts /\ Gots' = [Gots EXCEPT ![c] = Gots[c]]
    BY <1>8, GotSeen
  <2> QED
    BY Zenon, <2>1 DEF Gots
<1>9. ASSUME NEW c \in Consumers, PopWait(c) \/ PopLock(c) \/ PopAdvance(c) \/ PopUnlock(c)
      PROVE  UNCHANGED <<Contents, Puts, Gots>>
  <2>1. UNCHANGED <<Puts, Gots>>
    BY <1>8, <1>9, SeenValues DEF PopWait, PopLock, PopAdvance, PopUnlock, MutexDown, MutexUp
  <2>2. UNCHANGED elements /\ First' = First
    BY Zenon, <1>9, EndsStay, AdvanceEnds
    DEF PopWait, PopLock, PopAdvance, PopUnlock, MutexDown, MutexUp, Callers
  <2> QED
    BY <2>1, <2>2, ContentsStay
<1>10. CASE UNCHANGED bbvars
  <2>1. First' = First
    BY Zenon, <1>10 DEF bbvars, First, Advance
  <2> QED
    BY <1>10, <2>1, ContentsStay DEF bbvars, Puts, Gots
<1> QED
  BY Zenon, <1>1, <1>2, <1>3, <1>4, <1>5, <1>7, <1>9, <1>10 DEF BBNext

(* BB_put and BB_pop implement a FIFO queue of at most N elements, for any *)
(* number of producers and consumers and any size of the ring.             *)
THEOREM QueueRefinement == BBSpec => ImplementsQueue
<1>1. BBInv /\ BBInv' /\ [BBNext]_bbvars => [Queue!Next]_(Queue!vars)
  BY Zenon, QueueStep DEF Queue!vars, Puts, Gots, PutOf, GotOf
<1> QED
  BY <1>1, QueueInit, BBInvInit, BBInvStep, PTL DEF BBSpec, ImplementsQueue, Queue!Spec

==============================================================================
