---------------------------- MODULE BoundedBuffer ----------------------------
(***************************************************************************)
(* The bounded buffer of boundedbuffer.c: a ring of pointers, a binary     *)
(* semaphore as mutex, and two counting semaphores (CountingSemaphore)     *)
(* that count empty and full slots.  BB_pop leaves a null pointer behind.  *)
(***************************************************************************)
EXTENDS Integers, FiniteSets, Sequences

CONSTANTS Producers, Consumers,  \* the threads that call BB_put and BB_pop
          Items,                 \* the pointers they pass
          Null,                  \* the null pointer
          N                      \* BUFFER_SIZE

ASSUME BufferAssumption ==
  /\ N \in Nat \ {0} /\ Producers \cap Consumers = {} /\ Null \notin Items
  /\ {"none", "waiting"} \cap Items = {}

VARIABLES elements, start, end,  \* struct BB; slots are numbered from 0
          empty, full, mutex,    \* the values of its semaphores
          bpc, item              \* where each thread is; its argument or result

bbvars == <<elements, start, end, empty, full, mutex, bpc, item>>

Callers == Producers \union Consumers
Slots == 0 .. N-1

(* BB_create *)
BBInit ==
  /\ elements = [i \in Slots |-> Null]
  /\ start = 0 /\ end = 0
  /\ empty = N /\ full = 0 /\ mutex = 1
  /\ bpc = [t \in Callers |-> "idle"]
  /\ item = [t \in Callers |-> Null]

Move(t, from, to) == bpc[t] = from /\ bpc' = [bpc EXCEPT ![t] = to]

Advance(i) == (i + 1) % N

MutexDown(t, from, to) ==
  mutex # 0 /\ mutex' = 0 /\ Move(t, from, to)
  /\ UNCHANGED <<elements, start, end, empty, full, item>>
MutexUp(t, from, to) ==
  mutex' = 1 /\ Move(t, from, to)
  /\ UNCHANGED <<elements, start, end, empty, full, item>>

-----------------------------------------------------------------------------
(* BB_put *)

CallPut(p, x) ==
  /\ Move(p, "idle", "put_wait") /\ item' = [item EXCEPT ![p] = x]
  /\ UNCHANGED <<elements, start, end, empty, full, mutex>>

PutWait(p) ==
  /\ empty > 0 /\ empty' = empty - 1 /\ Move(p, "put_wait", "put_lock")
  /\ UNCHANGED <<elements, start, end, full, mutex, item>>

PutLock(p) == MutexDown(p, "put_lock", "put_store")

PutStore(p) ==
  /\ elements' = [elements EXCEPT ![end] = item[p]]
  /\ Move(p, "put_store", "put_advance")
  /\ UNCHANGED <<start, end, empty, full, mutex, item>>

PutAdvance(p) ==
  /\ end' = Advance(end) /\ Move(p, "put_advance", "put_unlock")
  /\ UNCHANGED <<elements, start, empty, full, mutex, item>>

PutUnlock(p) == MutexUp(p, "put_unlock", "put_signal")

PutSignal(p) ==
  /\ full' = full + 1 /\ Move(p, "put_signal", "idle")
  /\ UNCHANGED <<elements, start, end, empty, mutex, item>>

-----------------------------------------------------------------------------
(* BB_pop *)

CallPop(c) ==
  Move(c, "idle", "pop_wait") /\ UNCHANGED <<elements, start, end, empty, full, mutex, item>>

PopWait(c) ==
  /\ full > 0 /\ full' = full - 1 /\ Move(c, "pop_wait", "pop_lock")
  /\ UNCHANGED <<elements, start, end, empty, mutex, item>>

PopLock(c) == MutexDown(c, "pop_lock", "pop_take")

(* Mutant: the slot is not cleared.                                        *)
PopTakeKeep(c) ==
  /\ item' = [item EXCEPT ![c] = elements[start]]
  /\ Move(c, "pop_take", "pop_advance")
  /\ UNCHANGED <<elements, start, end, empty, full, mutex>>
PopTake(c) ==
  /\ item' = [item EXCEPT ![c] = elements[start]]
  /\ elements' = [elements EXCEPT ![start] = Null]
  /\ Move(c, "pop_take", "pop_advance")
  /\ UNCHANGED <<start, end, empty, full, mutex>>

PopAdvance(c) ==
  /\ start' = Advance(start) /\ Move(c, "pop_advance", "pop_unlock")
  /\ UNCHANGED <<elements, end, empty, full, mutex, item>>

PopUnlock(c) == MutexUp(c, "pop_unlock", "pop_signal")

PopSignal(c) ==
  /\ empty' = empty + 1 /\ Move(c, "pop_signal", "idle")
  /\ UNCHANGED <<elements, start, end, full, mutex, item>>

-----------------------------------------------------------------------------
BBNext ==
  \/ \E p \in Producers :
       \/ \E x \in Items : CallPut(p, x)
       \/ PutWait(p) \/ PutLock(p) \/ PutStore(p) \/ PutAdvance(p)
       \/ PutUnlock(p) \/ PutSignal(p)
  \/ \E c \in Consumers :
       \/ CallPop(c) \/ PopWait(c) \/ PopLock(c) \/ PopTake(c)
       \/ PopAdvance(c) \/ PopUnlock(c) \/ PopSignal(c)

BBSpec == BBInit /\ [][BBNext]_bbvars

-----------------------------------------------------------------------------
(* The ring read as a queue: from start (or the slot after it while a pop  *)
(* has taken its element and not yet moved start).                         *)
First == IF \E c \in Consumers : bpc[c] = "pop_advance" THEN Advance(start) ELSE start
Contents == [i \in 1 .. Cardinality({j \in Slots : elements[j] # Null}) |->
               elements[(First + i - 1) % N]]

Queue == INSTANCE BoundedQueue WITH
  queue <- Contents,
  put <- [p \in Producers |->
            IF bpc[p] \in {"put_wait", "put_lock", "put_store"} THEN item[p] ELSE "none"],
  got <- [c \in Consumers |->
            IF bpc[c] = "idle" THEN "none"
            ELSE IF bpc[c] \in {"pop_wait", "pop_lock", "pop_take"} THEN "waiting"
            ELSE item[c]]

(* The ring is a FIFO queue of at most N elements: every element put is    *)
(* popped exactly once, in the order in which the puts stored it.          *)
ImplementsQueue == Queue!Spec

==============================================================================
