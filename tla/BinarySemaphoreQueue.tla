------------------------ MODULE BinarySemaphoreQueue -------------------------
(***************************************************************************)
(* Proofs about the queues of BinarySemaphore: their positions have no gaps*)
(* and no ties, no thread overtakes another one, no wakeup is lost while   *)
(* threads queue, and to their callers the calls are atomic.  At the end,  *)
(* what one CPU gives: exited threads stay exited.                         *)
(***************************************************************************)
EXTENDS BinarySemaphoreProofs

(* QueueInv in terms of arg and pos only: by PosInv a thread with a        *)
(* position is inside down.                                                *)
PositionsOf(s) ==
  /\ \A p \in Procs : arg[p] = s /\ pos[p] > 0 => pos[p] <= waiting[s]
  /\ \A p, q \in Procs :
        arg[p] = s /\ arg[q] = s /\ pos[p] > 0 /\ pos[p] = pos[q] => p = q
  /\ \A i \in 1 .. waiting[s] : \E p \in Procs : arg[p] = s /\ pos[p] = i

Positions == \A s \in Sems : PositionsOf(s)

(* A thread has a positive position only while it is inside down.          *)
LEMMA QueuedIs == ASSUME IInv, NEW s \in Sems
                  PROVE Queued(s) = {p \in Procs : arg[p] = s /\ pos[p] > 0}
  BY DEF Queued, InDown, IInv, TypeOK, PosInv, DownPCs, Sleeping

(* So the queue of a semaphore can be read off the positions alone.        *)
LEMMA QueueIsPositions == IInv /\ Positions => QueueInv
<1> SUFFICES ASSUME IInv, Positions, NEW s \in Sems
             PROVE /\ \A p \in Queued(s) : pos[p] <= waiting[s]
                   /\ \A p, q \in Queued(s) : pos[p] = pos[q] => p = q
                   /\ \A i \in 1 .. waiting[s] : \E p \in Queued(s) : pos[p] = i
  BY DEF QueueInv
<1>1. waiting[s] \in Nat /\ PositionsOf(s)
  BY DEF IInv, TypeOK, Positions
<1> QED
  BY <1>1, QueuedIs DEF PositionsOf

(* A step that moves no position keeps the queues.                         *)
LEMMA QueueFrame ==
  ASSUME IInv, Positions, UNCHANGED <<pos, waiting>>,
         \A q \in Procs : pos[q] # 0 => arg'[q] = arg[q],
         IInv'
  PROVE  Positions'
<1>1. \A s \in Sems : waiting[s] \in Nat
  BY DEF IInv, TypeOK
<1>2. \A q \in Procs : pos[q] \in Int
  BY DEF IInv, TypeOK
<1>3. ASSUME NEW s \in Sems, NEW i \in 1 .. waiting[s]
      PROVE \E p \in Procs : arg'[p] = s /\ pos[p] = i
  <2>1. PICK p \in Procs : arg[p] = s /\ pos[p] = i
    BY DEF Positions, PositionsOf
  <2>2. pos[p] # 0
    BY <1>1, <2>1
  <2> QED
    BY <2>1, <2>2
<1>4. ASSUME NEW p \in Procs, pos[p] > 0 PROVE arg'[p] = arg[p]
  BY <1>2, <1>4
<1>5. ASSUME NEW s \in Sems PROVE PositionsOf(s)'
  <2>1. PositionsOf(s)
    BY DEF Positions
  <2>2. \A p \in Procs : arg'[p] = s /\ pos'[p] > 0 => pos'[p] <= waiting'[s]
    BY <1>4, <2>1 DEF PositionsOf
  <2>3. \A p, q \in Procs :
        arg'[p] = s /\ arg'[q] = s /\ pos'[p] > 0 /\ pos'[p] = pos'[q] => p = q
    BY <1>4, <2>1 DEF PositionsOf
  <2>4. \A i \in 1 .. waiting'[s] : \E p \in Procs : arg'[p] = s /\ pos'[p] = i
    BY <1>3
  <2> QED
    BY <2>2, <2>3, <2>4 DEF PositionsOf
<1> QED
  BY <1>5 DEF Positions

(* A thread that joins a queue at the end keeps the queues.                *)
LEMMA Enqueue ==
  ASSUME IInv, Positions, NEW p \in Procs, pos[p] = 0, UNCHANGED arg,
         waiting' = [waiting EXCEPT ![arg[p]] = waiting[arg[p]] + 1],
         pos' = [pos EXCEPT ![p] = waiting[arg[p]] + 1]
  PROVE  Positions'
<1> DEFINE s == arg[p]
           w == waiting[s]
<1>1. s \in Sems /\ w \in Nat
  BY DEF IInv, TypeOK
<1>2. \A q \in Procs : pos[q] \in Int
  BY DEF IInv, TypeOK
<1>3. pos'[p] = w + 1 /\ \A q \in Procs : q # p => pos'[q] = pos[q]
  BY DEF IInv, TypeOK
<1>4. waiting'[s] = w + 1 /\ \A t \in Sems : t # s => waiting'[t] = waiting[t]
  BY <1>1 DEF IInv, TypeOK
<1>5. \A q \in Procs : arg[q] = s /\ pos[q] > 0 => pos[q] <= w
  BY <1>1 DEF Positions, PositionsOf
<1>6. arg[p] = s
  OBVIOUS
<1>7. \A t \in Sems : waiting[t] \in Nat
  BY DEF IInv, TypeOK
<1>8. w = waiting[s]
  OBVIOUS
<1> HIDE DEF s, w
<1>9. ASSUME NEW t \in Sems PROVE PositionsOf(t)'
  <2>1. CASE t # s
    <3>1. \A i \in 1 .. waiting[t] : \E q \in Procs : q # p /\ arg[q] = t /\ pos[q] = i
      BY <1>6, <2>1 DEF Positions, PositionsOf
    <3>2. \A q \in Procs : arg[q] = t => q # p
      BY <1>6, <2>1
    <3>3. waiting'[t] = waiting[t]
      BY <1>4, <2>1
    <3> QED
      BY <1>3, <3>1, <3>2, <3>3 DEF Positions, PositionsOf
  <2>2. CASE t = s
    <3>1. ASSUME NEW q \in Procs, arg[q] = s, pos'[q] > 0 PROVE pos'[q] <= w + 1
      BY <1>1, <1>2, <1>3, <1>5, <3>1
    <3>2. ASSUME NEW q \in Procs, NEW r \in Procs, arg[q] = s, arg[r] = s,
                 pos'[q] > 0, pos'[q] = pos'[r]
          PROVE q = r
      <4>1. CASE q # p /\ r # p
        BY <1>1, <1>3, <3>2, <4>1 DEF Positions, PositionsOf
      <4>2. CASE q = p /\ r # p
        BY <1>1, <1>2, <1>3, <1>5, <3>2, <4>2
      <4>3. CASE q # p /\ r = p
        BY <1>1, <1>2, <1>3, <1>5, <3>2, <4>3
      <4> QED
        BY <4>1, <4>2, <4>3
    <3>3. ASSUME NEW i \in 1 .. w + 1 PROVE \E q \in Procs : arg[q] = s /\ pos'[q] = i
      <4>1. CASE i = w + 1
        BY <1>3, <1>6, <4>1
      <4>2. CASE i \in 1 .. w
        <5>1. PICK q \in Procs : arg[q] = s /\ pos[q] = i
          BY <1>1, <1>8, <4>2 DEF Positions, PositionsOf
        <5>2. q # p
          BY <1>1, <4>2, <5>1
        <5> QED
          BY <1>3, <5>1, <5>2
      <4> QED
        BY <1>1, <4>1, <4>2
    <3>4. \A q \in Procs : arg'[q] = s /\ pos'[q] > 0 => pos'[q] <= waiting'[s]
      BY <1>4, <3>1
    <3>5. \A q, r \in Procs :
        arg'[q] = s /\ arg'[r] = s /\ pos'[q] > 0 /\ pos'[q] = pos'[r] => q = r
      BY <3>2
    <3>6. \A i \in 1 .. waiting'[s] : \E q \in Procs : arg'[q] = s /\ pos'[q] = i
      BY <1>4, <3>3
    <3> QED
      BY Zenon, <2>2, <3>4, <3>5, <3>6 DEF PositionsOf
  <2> QED
    BY <2>1, <2>2
<1> QED
  BY <1>9 DEF Positions

(* The scan of up finds every thread that has a position: the others hold  *)
(* the semaphore's lock or have set waiting_for_semaphore before.          *)
LEMMA ScanMovesAll ==
  ASSUME IInv, NEW p \in Procs, pc[p] = "upScan"
  PROVE  \A q \in Procs : arg[q] = arg[p] /\ pos[q] > 0 => q \in Waiters(p, arg[p])
<1> SUFFICES ASSUME NEW q \in Procs, arg[q] = arg[p], pos[q] > 0
             PROVE  q \in Waiters(p, arg[p])
  OBVIOUS
<1>1. arg[p] \in Sems /\ semlock[arg[p]] = p
  BY DEF IInv, TypeOK, LockInv, Locking
<1>2. pos[q] # 0
  BY DEF IInv, TypeOK
<1>3. pc[q] \in DownPCs /\ q # p
  BY <1>2 DEF IInv, PosInv, DownPCs, Sleeping
<1>4. pc[q] \notin Locking
  BY <1>1, <1>3 DEF IInv, LockInv
<1> QED
  BY <1>3, <1>4 DEF IInv, WfInv, Waiters, DownPCs, Sleeping, Locking

(* Every step keeps the positions of a queue at 1 .. sem->waiting.         *)
LEMMA QueueStep == IInv /\ IInv' /\ Positions /\ [Next]_vars => Positions'
<1> SUFFICES ASSUME IInv, IInv', Positions, [Next]_vars PROVE Positions'
  OBVIOUS
<1>0. TypeOK
  BY DEF IInv
<1>1. ASSUME NEW p \in Procs, NEW v \in {0, 1}, BinarySemaphoreCreate(p, v) PROVE Positions'
  BY <1>1, QueueFrame DEF BinarySemaphoreCreate, procvars, semvars
<1>2. ASSUME NEW p \in Procs, NEW s \in Sems, CallDown(p, s) PROVE Positions'
  <2>1. pos[p] = 0
    BY Zenon, <1>2 DEF CallDown, Running, At, IInv, PosInv, DownPCs, Sleeping
  <2>2. UNCHANGED <<pos, waiting>> /\ arg' = [arg EXCEPT ![p] = s]
    BY <1>2 DEF CallDown, semvars
  <2>3. \A q \in Procs : pos[q] # 0 => arg'[q] = arg[q]
    BY Zenon, <2>1, <2>2 DEF IInv, TypeOK
  <2> QED
    BY <2>2, <2>3, QueueFrame
<1>3. ASSUME NEW p \in Procs, NEW s \in Sems, CallUp(p, s) PROVE Positions'
  <2>1. pos[p] = 0
    BY Zenon, <1>3 DEF CallUp, Running, At, IInv, PosInv, DownPCs, Sleeping
  <2>2. UNCHANGED <<pos, waiting>> /\ arg' = [arg EXCEPT ![p] = s]
    BY Zenon, <1>3 DEF CallUp, semvars
  <2>3. \A q \in Procs : pos[q] # 0 => arg'[q] = arg[q]
    BY <2>1, <2>2 DEF IInv, TypeOK
  <2> QED
    BY <2>2, <2>3, QueueFrame
<1>4. CASE Quiet
  BY <1>4, QueueFrame DEF Quiet, semvars
<1>5. ASSUME NEW p \in Procs, DownAcquire(p) PROVE Positions'
  <2>1. CASE waiting[arg[p]] # 0
    <3>1. pos[p] = 0 /\ UNCHANGED arg
      BY Zenon, <1>5 DEF DownAcquire, Running, At, IInv, PosInv, DownPCs, Sleeping
    <3>2. /\ waiting' = [waiting EXCEPT ![arg[p]] = waiting[arg[p]] + 1]
          /\ pos' = [pos EXCEPT ![p] = waiting[arg[p]] + 1]
      BY <1>5, <2>1 DEF DownAcquire
    <3> QED
      BY Zenon, <3>1, <3>2, Enqueue
  <2>2. CASE waiting[arg[p]] = 0
    BY <1>5, <2>2, QueueFrame DEF DownAcquire
  <2> QED
    BY <2>1, <2>2
<1>6. ASSUME NEW p \in Procs, DownTake(p) PROVE Positions'
  BY Zenon, <1>6, QueueFrame DEF DownTake, procvars, semvars
<1>7. ASSUME NEW p \in Procs, DownWait(p) PROVE Positions'
  <2>1. CASE pos[p] = 0
    <3>1. /\ waiting' = [waiting EXCEPT ![arg[p]] = waiting[arg[p]] + 1]
          /\ pos' = [pos EXCEPT ![p] = waiting[arg[p]] + 1]
          /\ UNCHANGED arg
      BY Zenon, <1>7, <2>1 DEF DownWait
    <3> QED
      BY Zenon, <2>1, <3>1, Enqueue
  <2>2. CASE pos[p] # 0
    BY <1>7, <2>2, QueueFrame DEF DownWait
  <2> QED
    BY <2>1, <2>2
<1>8. ASSUME NEW p \in Procs, DownNotCreated(p) PROVE Positions'
  BY Zenon, <1>8, QueueFrame DEF DownNotCreated, procvars, semvars
<1>9. ASSUME NEW p \in Procs, SleepAcquire(p) PROVE Positions'
  BY <1>9, QueueFrame DEF SleepAcquire, procvars, semvars
<1>10. ASSUME NEW p \in Procs, SleepSwitch(p) PROVE Positions'
  BY Zenon, <1>10, QueueFrame DEF SleepSwitch, procvars, semvars
<1>11. ASSUME NEW p \in Procs, DownReacquire(p) PROVE Positions'
  BY <1>11, QueueFrame DEF DownReacquire, procvars, semvars
<1>12. ASSUME NEW p \in Procs, UpAcquire(p) PROVE Positions'
  BY <1>12, QueueFrame DEF UpAcquire, procvars, semvars
<1>13. ASSUME NEW p \in Procs, UpLock(p) PROVE Positions'
  BY <1>13, QueueFrame DEF UpLock, procvars, semvars
<1>14. ASSUME NEW p \in Procs, UpNotCreated(p) PROVE Positions'
  BY Zenon, <1>14, QueueFrame DEF UpNotCreated, procvars, semvars
<1>15. ASSUME NEW p \in Procs, UpScan(p) PROVE Positions'
  <2> DEFINE s == arg[p]
  <2>1. s \in Sems /\ UNCHANGED arg
    <3>1. s \in Sems
      BY Zenon DEF IInv, TypeOK
    <3> QED
      BY Zenon, <1>15, <3>1 DEF UpScan
  <2>2. waiting' = [waiting EXCEPT ![s] = IF waiting[s] > 0 THEN waiting[s] - 1 ELSE waiting[s]]
    BY Zenon, <1>15 DEF UpScan, WaitingAfterUp
  <2>3. \A q \in Procs : pos'[q] = IF q \in Waiters(p, s) THEN pos[q] - 1 ELSE pos[q]
    BY Zenon, <1>15 DEF UpScan
  <2>4. \A q \in Procs : q \in Waiters(p, s) => arg[q] = s
    BY <2>1, Ids DEF Waiters, IInv, WfInv
  <2>5. \A q \in Procs : arg[q] = s /\ pos[q] > 0 => q \in Waiters(p, s)
    BY Zenon, <1>15, ScanMovesAll DEF UpScan, At
  <2>6. \A q \in Procs : arg[q] # s => pos'[q] = pos[q]
    BY <2>3, <2>4
  <2>7. \A q \in Procs : pos[q] \in Int
    BY Zenon DEF IInv, TypeOK
  <2>8. \A t \in Sems : waiting[t] \in Nat
    BY Zenon DEF IInv, TypeOK
  <2> HIDE DEF s
  <2>9. ASSUME NEW t \in Sems PROVE PositionsOf(t)'
    <3>1. CASE t # s
      <4>1. waiting'[t] = waiting[t]
        BY <2>2, <3>1 DEF IInv, TypeOK
      <4>2. \A q \in Procs : arg'[q] = arg[q] /\ (arg[q] = t => pos'[q] = pos[q])
        BY Zenon, <2>1, <2>6, <3>1
      <4>3. PositionsOf(t)
        BY DEF Positions
      <4>4. \A q \in Procs : arg'[q] = t /\ pos'[q] > 0 => pos'[q] <= waiting'[t]
        BY Zenon, <4>1, <4>2, <4>3 DEF PositionsOf
      <4>5. \A q, r \in Procs :
        arg'[q] = t /\ arg'[r] = t /\ pos'[q] > 0 /\ pos'[q] = pos'[r] => q = r
        BY <4>2, <4>3 DEF PositionsOf
      <4>6. \A i \in 1 .. waiting'[t] : \E q \in Procs : arg'[q] = t /\ pos'[q] = i
        BY <4>1, <4>2, <4>3 DEF PositionsOf
      <4> QED
        BY Zenon, <4>4, <4>5, <4>6 DEF PositionsOf
    <3>2. CASE t = s
      <4>1. waiting'[s] = IF waiting[s] > 0 THEN waiting[s] - 1 ELSE waiting[s]
        BY Zenon, <2>1, <2>2 DEF IInv, TypeOK
      <4>2. ASSUME NEW q \in Procs, arg[q] = s, pos'[q] > 0
            PROVE pos[q] = pos'[q] + 1 /\ pos'[q] <= waiting'[s]
        <5>1. pos[q] > 0
          BY <2>3, <2>7, <4>2
        <5>2. pos'[q] = pos[q] - 1
          BY Zenon, <2>3, <2>5, <4>2, <5>1
        <5>3. pos[q] <= waiting[s]
          BY Zenon, <2>1, <4>2, <5>1 DEF Positions, PositionsOf
        <5>4. pos[q] \in Int /\ waiting[s] \in Nat
          BY <2>1, <2>7, <2>8
        <5>5. waiting'[s] = waiting[s] - 1
          BY <4>1, <5>1, <5>3, <5>4
        <5> QED
          BY <5>2, <5>3, <5>4, <5>5
      <4>3. ASSUME NEW q \in Procs, NEW r \in Procs, arg[q] = s, arg[r] = s,
                   pos'[q] > 0, pos'[r] = pos'[q]
            PROVE q = r
        <5>1. pos[q] = pos'[q] + 1 /\ pos[r] = pos'[q] + 1
          BY <4>2, <4>3
        <5>2. pos[q] = pos[r] /\ pos[q] > 0
          BY <2>3, <2>7, <4>3, <5>1
        <5> QED
          BY Zenon, <2>1, <4>3, <5>2 DEF Positions, PositionsOf
      <4>4. ASSUME NEW i \in 1 .. waiting'[s] PROVE \E q \in Procs : arg[q] = s /\ pos'[q] = i
        <5>1. i + 1 \in 1 .. waiting[s] /\ i \in Int /\ i > 0
          BY <2>1, <2>8, <4>1
        <5>2. PICK q \in Procs : arg[q] = s /\ pos[q] = i + 1
          BY <2>1, <5>1 DEF Positions, PositionsOf
        <5>3. pos[q] > 0
          BY <5>1, <5>2
        <5>4. pos'[q] = pos[q] - 1
          BY Zenon, <2>3, <2>5, <5>2, <5>3
        <5> QED
          BY <5>1, <5>2, <5>4
      <4>5. \A q \in Procs : arg'[q] = s /\ pos'[q] > 0 => pos'[q] <= waiting'[s]
        BY Zenon, <2>1, <4>2
      <4>6. \A q, r \in Procs :
        arg'[q] = s /\ arg'[r] = s /\ pos'[q] > 0 /\ pos'[q] = pos'[r] => q = r
        BY Zenon, <2>1, <4>3
      <4>7. \A i \in 1 .. waiting'[s] : \E q \in Procs : arg'[q] = s /\ pos'[q] = i
        BY <2>1, <4>4
      <4> QED
        BY <3>2, <4>5, <4>6, <4>7 DEF PositionsOf
    <3> QED
      BY <3>1, <3>2
  <2> QED
    BY <2>9 DEF Positions
<1> QED
  BY Zenon, NextCases, <1>0, <1>1, <1>2, <1>3, <1>4, <1>5, <1>6, <1>7, <1>8, <1>9, <1>10,
     <1>11, <1>12, <1>13, <1>14, <1>15 DEF KernelStep

(* Nobody waits in the initial state.                                      *)
LEMMA PositionsInit == Init => Positions
<1> SUFFICES ASSUME Init PROVE Positions
  OBVIOUS
<1>1. \A p \in Procs : pos[p] = 0
  BY DEF Init
<1>2. \A s \in Sems : waiting[s] = 0
  BY Zenon DEF Init
<1> QED
  BY <1>1, <1>2 DEF Positions, PositionsOf

(* The positions of the threads inside binary_semaphore_down are always    *)
(* exactly 1 .. sem->waiting, without ties, whatever the interleaving of   *)
(* down, up, kill and exit on any number of CPUs.                          *)
THEOREM QueueCorrect == Spec => []QueueInv
<1>1. Init => IInv /\ Positions
  BY InvInit, PositionsInit
<1>2. IInv /\ Positions /\ [Next]_vars => (IInv /\ Positions)'
  BY InvStep, QueueStep
<1>3. IInv /\ Positions => QueueInv
  BY QueueIsPositions
<1> QED
  BY <1>1, <1>2, <1>3, PTL DEF Spec

-----------------------------------------------------------------------------
(* A thread that is behind another in a queue stays behind it.             *)
LEMMA OrderStep ==
  ASSUME IInv, IInv', Positions, Next, NEW s \in Sems,
         NEW p \in Queued(s), NEW q \in Queued(s), pos[p] < pos[q], p \in Queued(s)'
  PROVE  q \in Queued(s)' /\ pos'[p] < pos'[q]
<1> DEFINE Goal == q \in Queued(s)' /\ pos'[p] < pos'[q]
<1>1. /\ p \in Procs /\ q \in Procs /\ pos[p] \in Int /\ pos[q] \in Int
      /\ arg[p] = s /\ arg[q] = s /\ pos[p] > 0 /\ pos[q] > 0
  BY SMTT(30), QueuedIs DEF IInv, TypeOK
<1>2. Queued(s)' = {r \in Procs : arg'[r] = s /\ pos'[r] > 0}
  BY SMTT(30) DEF Queued, InDown, IInv, TypeOK, PosInv, DownPCs, Sleeping
<1>3. pos'[p] > 0
  BY Zenon, <1>2
<1>4. PICK r \in Procs : KernelStep(r) \/ UserCall(r) \/ Schedule(r)
  BY DEF Next
<1>5. ASSUME pos'[p] = pos[p], pos'[q] = pos[q], arg'[q] = arg[q] PROVE Goal
  BY Zenon, <1>1, <1>2, <1>5
<1>6. CASE UpScan(r)
  <2>1. \A t \in Procs : pos'[t] = IF t \in Waiters(r, arg[r]) THEN pos[t] - 1 ELSE pos[t]
    BY Zenon, <1>6 DEF UpScan
  <2>2. UNCHANGED arg /\ pc[r] = "upScan"
    BY Zenon, <1>6 DEF UpScan, At
  <2>3. CASE arg[r] = s
    <3>1. p \in Waiters(r, s) /\ q \in Waiters(r, s)
      BY Zenon, <1>1, <2>2, <2>3, ScanMovesAll
    <3>2. pos'[p] = pos[p] - 1 /\ pos'[q] = pos[q] - 1
      BY Zenon, <1>1, <2>1, <2>3, <3>1
    <3> QED
      BY <1>1, <1>2, <1>3, <2>2, <3>2
  <2>4. CASE arg[r] # s
    <3>1. p \notin Waiters(r, arg[r]) /\ q \notin Waiters(r, arg[r])
      BY SMTT(30), <1>1, <2>4, Ids DEF Waiters, IInv, TypeOK, WfInv
    <3> QED
      BY Zenon, <1>1, <1>5, <2>1, <2>2, <3>1
  <2> QED
    BY Zenon, <2>3, <2>4
<1>8. CASE DownAcquire(r)
  <2>1. pos[r] = 0
    BY Zenon, <1>8 DEF DownAcquire, Running, At, IInv, PosInv, DownPCs, Sleeping
  <2>2. UNCHANGED arg /\ \A t \in Procs : t # r => pos'[t] = pos[t]
    BY Zenon, <1>8 DEF DownAcquire, IInv, TypeOK
  <2> QED
    BY <1>1, <1>5, <2>1, <2>2
<1>9. CASE DownWait(r)
  <2>1. UNCHANGED arg /\ \A t \in Procs : t # r \/ pos[r] # 0 => pos'[t] = pos[t]
    BY SMTT(30), <1>9 DEF DownWait, IInv, TypeOK
  <2> QED
    BY SMTT(30), <1>1, <1>5, <2>1
<1>10. CASE \E t \in Sems : CallDown(r, t) \/ CallUp(r, t)
  <2>1. pos[r] = 0
    BY Zenon, <1>10 DEF CallDown, CallUp, Running, At, IInv, PosInv, DownPCs, Sleeping
  <2>2. UNCHANGED pos /\ \A t \in Procs : t # r => arg'[t] = arg[t]
    BY Zenon, <1>10 DEF CallDown, CallUp, IInv, TypeOK
  <2> QED
    BY SMTT(30), <1>1, <1>5, <2>1, <2>2
<1>11. CASE UNCHANGED <<pos, arg>>
  BY Zenon, <1>5, <1>11
<1>12. CASE KernelStep(r)
  <2>1. ASSUME \/ DownTake(r) \/ DownNotCreated(r) \/ SleepAcquire(r) \/ SleepSwitch(r)
               \/ DownReacquire(r) \/ UpAcquire(r) \/ UpLock(r) \/ UpNotCreated(r)
        PROVE  UNCHANGED <<pos, arg>>
    BY Zenon, <2>1 DEF DownTake, DownNotCreated, SleepAcquire, SleepSwitch, DownReacquire,
                UpAcquire, UpLock, UpNotCreated
  <2> QED
    BY Zenon, <1>6, <1>8, <1>9, <1>11, <1>12, <2>1 DEF KernelStep
<1>13. CASE UserCall(r)
  <2>1. ASSUME \/ \E v \in {0, 1} : BinarySemaphoreCreate(r, v)
               \/ \E t \in Procs : Kill(r, t)
               \/ Exit(r)
        PROVE  UNCHANGED <<pos, arg>>
    BY Zenon, <2>1 DEF BinarySemaphoreCreate, Kill, Exit, procvars
  <2> QED
    BY Zenon, <1>10, <1>11, <1>13, <2>1 DEF UserCall
<1>14. CASE Schedule(r)
  <2>1. UNCHANGED <<pos, arg>>
    BY Zenon, <1>14 DEF Schedule, Dispatch, Resume, TimerTrap, Yield
  <2> QED
    BY Zenon, <1>11, <2>1
<1> QED
  BY Zenon, <1>4, <1>12, <1>13, <1>14

(* Threads never overtake each other in the queue of a semaphore.          *)
THEOREM OrderCorrect == Spec => OrderKept
<1> DEFINE Order == \A s \in Sems : \A p, q \in Queued(s) :
      pos[p] < pos[q] /\ p \in Queued(s)' => q \in Queued(s)' /\ pos'[p] < pos'[q]
<1>1. Init => IInv /\ Positions
  BY InvInit, PositionsInit
<1>2. IInv /\ Positions /\ [Next]_vars => (IInv /\ Positions)'
  BY InvStep, QueueStep
<1>3. IInv /\ Positions /\ [Next]_vars => [Order]_vars
  BY Zenon, InvStep, OrderStep
<1> QED
  BY <1>1, <1>2, <1>3, PTL DEF Spec, OrderKept

(* HeadAwake holds also while the semaphore is locked.                     *)
HeadInv == \A s \in Sems : value[s] = 1 /\ waiting[s] > 0 =>
  \E p \in Procs : InDown(p, s) /\ pos[p] = 0 /\ state[p] # "SLEEPING"

(* A turn, once given, is not forgotten while threads queue.               *)
LEMMA HeadFrame ==
  ASSUME HeadInv, UNCHANGED <<value, waiting, pos>>,
         \A q \in Procs : \A s \in Sems :
           InDown(q, s) /\ pos[q] = 0 /\ state[q] # "SLEEPING"
             => InDown(q, s)' /\ state'[q] # "SLEEPING"
  PROVE  HeadInv'
<1> SUFFICES ASSUME NEW s \in Sems, value[s] = 1, waiting[s] > 0
             PROVE  \E p \in Procs : InDown(p, s)' /\ pos'[p] = 0 /\ state'[p] # "SLEEPING"
  BY DEF HeadInv
<1> QED
  BY DEF HeadInv

(* HeadInv is inductive: whenever up sets the value with threads queued,   *)
(* the one whose position it makes 0 is awake.                             *)
LEMMA HeadStep == IInv /\ IInv' /\ Positions /\ HeadInv /\ [Next]_vars => HeadInv'
<1> SUFFICES ASSUME IInv, IInv', Positions, HeadInv, [Next]_vars PROVE HeadInv'
  OBVIOUS
<1>1. ASSUME NEW p \in Procs, NEW v \in {0, 1}, BinarySemaphoreCreate(p, v) PROVE HeadInv'
  <2>1. PICK s \in Sems : ~created[s] /\ value' = [value EXCEPT ![s] = v]
    BY Zenon, <1>1 DEF BinarySemaphoreCreate
  <2>2. UNCHANGED <<state, pos, pc, arg, waiting>>
    BY <1>1 DEF BinarySemaphoreCreate, procvars
  <2>3. waiting[s] = 0 /\ \A t \in Sems : t # s => value'[t] = value[t]
    BY <2>1 DEF IInv, TypeOK, PosInv
  <2>4. \A t \in Sems : value'[t] = 1 /\ waiting'[t] > 0 => value[t] = 1 /\ waiting[t] > 0
    BY <2>2, <2>3
  <2> QED
    BY <2>2, <2>4 DEF HeadInv, InDown
<1>2. ASSUME NEW p \in Procs, NEW s \in Sems, CallDown(p, s) PROVE HeadInv'
  BY <1>2, HeadFrame DEF CallDown, procvars, semvars, Running, At, Goto, InDown, IInv, TypeOK
<1>3. ASSUME NEW p \in Procs, NEW s \in Sems, CallUp(p, s) PROVE HeadInv'
  BY <1>3, HeadFrame DEF CallUp, procvars, semvars, Running, At, Goto, InDown, IInv, TypeOK
<1>4. ASSUME NEW p \in Procs, NEW q \in Procs, Kill(p, q) PROVE HeadInv'
  BY Zenon, <1>4, HeadFrame DEF Kill, procvars, semvars, Running, At, Goto, InDown, IInv, TypeOK
<1>5. ASSUME NEW p \in Procs, DownAcquire(p) PROVE HeadInv'
  <2>1. /\ pc[p] = "downAcquire" /\ pc' = [pc EXCEPT ![p] = "downTest"]
        /\ UNCHANGED <<state, arg, value>>
    BY Zenon, <1>5 DEF DownAcquire, Running, At, Goto
  <2>2. \A q \in Procs : q # p => pos'[q] = pos[q]
    BY <1>5 DEF DownAcquire, IInv, TypeOK
  <2>3. \A t \in Sems : waiting'[t] > 0 => waiting[t] > 0
    BY <1>5 DEF DownAcquire, IInv, TypeOK
  <2>4. \A q \in Procs : \A t \in Sems : InDown(q, t) => q # p /\ InDown(q, t)'
    BY Zenon, <2>1 DEF InDown, IInv, TypeOK
  <2> QED
    BY <2>1, <2>2, <2>3, <2>4 DEF HeadInv
<1>6. ASSUME NEW p \in Procs, DownTake(p) PROVE HeadInv'
  <2>1. /\ pc' = [pc EXCEPT ![p] = "user"] /\ UNCHANGED <<state, arg, waiting, pos>>
        /\ value' = [value EXCEPT ![arg[p]] = 0]
    BY Zenon, <1>6 DEF DownTake, Goto
  <2>2. \A t \in Sems : value'[t] = 1 => t # arg[p] /\ value[t] = 1
    BY <2>1 DEF IInv, TypeOK
  <2>3. \A q \in Procs : \A t \in Sems : t # arg[p] /\ InDown(q, t) => InDown(q, t)'
    BY Zenon, <2>1 DEF InDown, IInv, TypeOK
  <2> QED
    BY <2>1, <2>2, <2>3 DEF HeadInv
<1>7. ASSUME NEW p \in Procs, DownWait(p) PROVE HeadInv'
  <2> DEFINE s == arg[p]
  <2>1. /\ pc[p] = "downTest" /\ pc' = [pc EXCEPT ![p] = "sleepAcquire"]
        /\ UNCHANGED <<state, arg, value>> /\ ~MayTake(p, s) /\ s \in Sems
    BY Zenon, <1>7 DEF DownWait, Running, At, Goto, IInv, TypeOK
  <2>2. \A q \in Procs : \A t \in Sems : InDown(q, t) => InDown(q, t)'
    BY Zenon, <2>1 DEF InDown, IInv, TypeOK
  <2>3. CASE pos[p] # 0
    <3>1. UNCHANGED <<pos, waiting>>
      BY Zenon, <1>7, <2>3 DEF DownWait
    <3> QED
      BY Zenon, <2>1, <2>2, <3>1, HeadFrame
  <2>4. CASE pos[p] = 0
    <3>0. value[s] = 0
      BY <2>1, <2>4 DEF MayTake
    <3>1. \A q \in Procs : q # p => pos'[q] = pos[q]
      BY <1>7, <2>4 DEF DownWait, IInv, TypeOK
    <3>2. \A t \in Sems : t # s => waiting'[t] = waiting[t]
      BY <1>7 DEF DownWait, IInv, TypeOK
    <3>3. \A q \in Procs : \A t \in Sems : t # s /\ InDown(q, t) => q # p
      BY DEF InDown
    <3> QED
      BY <2>1, <2>2, <3>0, <3>1, <3>2, <3>3 DEF HeadInv
  <2> QED
    BY <2>3, <2>4
<1>8. ASSUME NEW p \in Procs, DownNotCreated(p) PROVE HeadInv'
  <2>1. /\ pc' = [pc EXCEPT ![p] = "user"] /\ UNCHANGED <<state, arg, waiting, pos, value>>
        /\ ~created[arg[p]]
    BY Zenon, <1>8 DEF DownNotCreated, Goto
  <2>2. \A t \in Sems : waiting[t] > 0 => t # arg[p]
    BY <2>1 DEF IInv, TypeOK, PosInv
  <2>3. \A q \in Procs : \A t \in Sems : t # arg[p] /\ InDown(q, t) => InDown(q, t)'
    BY Zenon, <2>1 DEF InDown, IInv, TypeOK
  <2> QED
    BY Zenon, <2>1, <2>2, <2>3 DEF HeadInv
<1>9. ASSUME NEW p \in Procs, SleepAcquire(p) PROVE HeadInv'
  BY Zenon, <1>9, HeadFrame DEF SleepAcquire, procvars, semvars, Running, At, Goto, InDown, IInv, TypeOK
<1>10. ASSUME NEW p \in Procs, SleepSwitch(p) PROVE HeadInv'
  <2>1. /\ pos[p] # 0 /\ pc[p] = "sleepSwitch" /\ UNCHANGED <<pos, value, waiting, arg>>
        /\ pc' = [pc EXCEPT ![p] = "sleepReturn"]
        /\ state' = [state EXCEPT ![p] = "SLEEPING"]
    BY Zenon, <1>10 DEF SleepSwitch, At, Goto, IInv, PosInv
  <2>2. \A q \in Procs : \A t \in Sems : InDown(q, t) => InDown(q, t)'
    BY Zenon, <2>1 DEF InDown, IInv, TypeOK
  <2>3. \A q \in Procs : pos[q] = 0 => state'[q] = state[q]
    BY Zenon, <2>1 DEF IInv, TypeOK
  <2> QED
    BY Zenon, <2>1, <2>2, <2>3, HeadFrame
<1>11. ASSUME NEW p \in Procs, DownReacquire(p) PROVE HeadInv'
  BY Zenon, <1>11, HeadFrame DEF DownReacquire, procvars, semvars, Running, At, Goto, InDown, IInv, TypeOK
<1>12. ASSUME NEW p \in Procs, UpAcquire(p) PROVE HeadInv'
  BY Zenon, <1>12, HeadFrame DEF UpAcquire, procvars, semvars, Running, At, Goto, InDown, IInv, TypeOK
<1>13. ASSUME NEW p \in Procs, UpLock(p) PROVE HeadInv'
  BY <1>13, HeadFrame DEF UpLock, procvars, semvars, Running, At, Goto, InDown, IInv, TypeOK
<1>14. ASSUME NEW p \in Procs, UpNotCreated(p) PROVE HeadInv'
  BY Zenon, <1>14, HeadFrame DEF UpNotCreated, procvars, semvars, Running, At, Goto, InDown, IInv, TypeOK
<1>15. ASSUME NEW p \in Procs, UpScan(p) PROVE HeadInv'
  <2>0. PICK s \in Sems : s = arg[p]
    BY Zenon DEF IInv, TypeOK
  <2>1. /\ s \in Sems /\ pc[p] = "upScan" /\ pc' = [pc EXCEPT ![p] = "user"]
        /\ UNCHANGED arg
    BY Zenon, <1>15, <2>0 DEF UpScan, At, Goto, IInv, TypeOK
  <2>2. \A q \in Procs : \A t \in Sems : InDown(q, t) => InDown(q, t)'
    BY Zenon, <2>1 DEF InDown, IInv, TypeOK
  <2>3. \A q \in Procs : pos'[q] = IF q \in Waiters(p, s) THEN pos[q] - 1 ELSE pos[q]
    BY Zenon, <1>15, <2>0 DEF UpScan
  <2>4. \A q \in Procs : state'[q] = IF q \in Woken(p, s) THEN "RUNNABLE" ELSE state[q]
    BY Zenon, <1>15, <2>0 DEF UpScan
  <2>5. \A q \in Waiters(p, s) : arg[q] = s
    BY <2>1, Ids DEF Waiters, IInv, WfInv
  <2>6. \A t \in Sems : t # s => value'[t] = value[t] /\ waiting'[t] = waiting[t]
    BY Zenon, <1>15, <2>0 DEF UpScan, IInv, TypeOK
  <2>7. waiting'[s] > 0 => waiting[s] > 0
    BY Zenon, <1>15, <2>0, <2>1 DEF UpScan, WaitingAfterUp, IInv, TypeOK
  <2>8. \A q \in Procs : arg[q] = s /\ pos[q] > 0 => q \in Waiters(p, s)
    BY Zenon, <2>0, <2>1, ScanMovesAll
  <2>9. waiting[s] \in Nat /\ PositionsOf(s)
    BY Zenon, <2>1 DEF Positions, IInv, TypeOK
  <2>10. ASSUME waiting[s] > 0
         PROVE \E q \in Procs : InDown(q, s)' /\ pos'[q] = 0 /\ state'[q] # "SLEEPING"
    <3>1. PICK q \in Procs : arg[q] = s /\ pos[q] = 1
      BY <2>9, <2>10 DEF PositionsOf
    <3>2. q \in Waiters(p, s) /\ q \in Firsts(p, s)
      BY <2>8, <3>1 DEF Firsts
    <3>3. \A r \in Firsts(p, s) : r = q
      BY <2>5, <2>9, <3>1 DEF Firsts, PositionsOf, Waiters
    <3>4. q <= q
      BY <3>1, Ids
    <3>5. state[q] = "SLEEPING" => q \in Woken(p, s)
      BY <3>2, <3>3, <3>4 DEF Woken
    <3>6. InDown(q, s)
      BY <3>1 DEF InDown, IInv, PosInv, DownPCs, Sleeping
    <3>7. pos'[q] = 0
      BY <2>3, <3>1, <3>2
    <3>8. state'[q] # "SLEEPING"
      BY Zenon, <2>4, <3>5
    <3>9. InDown(q, s)'
      BY Zenon, <2>1, <2>2, <3>6
    <3> QED
      BY Zenon, <3>7, <3>8, <3>9
  <2>11. ASSUME NEW t \in Sems, t # s, NEW q \in Procs, InDown(q, t)
         PROVE  pos'[q] = pos[q] /\ state'[q] = state[q] /\ InDown(q, t)'
    <3>1. q \notin Waiters(p, s)
      BY Zenon, <2>5, <2>11 DEF InDown
    <3> QED
      BY Zenon, <2>2, <2>3, <2>4, <2>11, <3>1 DEF Woken, Firsts
  <2>12. ASSUME NEW t \in Sems, value'[t] = 1, waiting'[t] > 0
         PROVE  \E q \in Procs : InDown(q, t)' /\ pos'[q] = 0 /\ state'[q] # "SLEEPING"
    <3>1. CASE t = s
      BY Zenon, <2>7, <2>10, <2>12, <3>1
    <3>2. CASE t # s
      <4>1. PICK q \in Procs : InDown(q, t) /\ pos[q] = 0 /\ state[q] # "SLEEPING"
        BY Zenon, <2>6, <2>12, <3>2 DEF HeadInv
      <4> QED
        BY Zenon, <2>11, <3>2, <4>1
    <3> QED
      BY Zenon, <3>1, <3>2
  <2> QED
    BY Zenon, <2>12 DEF HeadInv
<1>16. ASSUME NEW p \in Procs, Exit(p) PROVE HeadInv'
  BY Zenon, <1>16, HeadFrame DEF Exit, procvars, semvars, Running, At, Goto, InDown, IInv, TypeOK
<1>17. ASSUME NEW p \in Procs, Dispatch(p) PROVE HeadInv'
  BY Zenon, <1>17, HeadFrame DEF Dispatch, procvars, semvars, Running, At, Goto, InDown, IInv, TypeOK
<1>18. ASSUME NEW p \in Procs, Resume(p) PROVE HeadInv'
  BY Zenon, <1>18, HeadFrame DEF Resume, procvars, semvars, Running, At, Goto, InDown, IInv, TypeOK
<1>19. ASSUME NEW p \in Procs, TimerTrap(p) PROVE HeadInv'
  BY Zenon, <1>19, HeadFrame DEF TimerTrap, procvars, semvars, Running, At, Goto, InDown, IInv, TypeOK
<1>20. ASSUME NEW p \in Procs, Yield(p) PROVE HeadInv'
  BY Zenon, <1>20, HeadFrame DEF Yield, procvars, semvars, Running, At, Goto, InDown, IInv, TypeOK
<1>21. CASE UNCHANGED vars
  BY Zenon, <1>21, HeadFrame DEF vars, procvars, semvars, InDown
<1> QED
  BY Zenon, <1>1, <1>2, <1>3, <1>4, <1>5, <1>6, <1>7, <1>8, <1>9, <1>10, <1>11,
     <1>12, <1>13, <1>14, <1>15, <1>16, <1>17, <1>18, <1>19, <1>20, <1>21
  DEF Next, KernelStep, UserCall, Schedule

(* Every wakeup reaches somebody while threads queue: up never leaves a    *)
(* free semaphore whose queue is not empty with nobody awake to take it.   *)
THEOREM HeadAwakeCorrect == Spec => []HeadAwake
<1>1. Init => IInv /\ Positions /\ HeadInv
  BY InvInit, PositionsInit DEF Init, HeadInv
<1>2. IInv /\ Positions /\ HeadInv /\ [Next]_vars => (IInv /\ Positions /\ HeadInv)'
  BY InvStep, QueueStep, HeadStep
<1>3. HeadInv => HeadAwake
  BY Zenon DEF HeadInv, HeadAwake
<1> QED
  BY <1>1, <1>2, <1>3, PTL DEF Spec

-----------------------------------------------------------------------------
(* The abstract call of a thread changes only when its label does.         *)
Calls == [p \in Procs |-> CallOf(pc[p])]

(* A step that moves p to label l changes the abstract call of p alone.    *)
LEMMA CallMove ==
  ASSUME IInv, NEW p \in Procs, NEW l \in PCs, Goto(p, l)
  PROVE  Calls' = [Calls EXCEPT ![p] = CallOf(l)]
  BY Zenon DEF Calls, Goto, IInv, TypeOK

(* A step inside a call is no step of the abstract calls.                  *)
LEMMA CallStay ==
  ASSUME IInv, NEW p \in Procs, NEW l \in PCs, Goto(p, l), CallOf(l) = CallOf(pc[p])
  PROVE  Calls' = Calls
  BY Zenon DEF Calls, Goto, IInv, TypeOK

(* The abstract call that each label of down and up belongs to.            *)
LEMMA CallValues ==
  /\ CallOf("user") = "none"
  /\ \A l \in {"upAcquire", "upTest", "upScan"} : CallOf(l) = "up"
  /\ \A l \in {"downAcquire", "downTest", "sleepAcquire", "sleepSwitch", "sleepReturn",
                "downReacquire"} : CallOf(l) = "down"
  BY DEF CallOf

AtomicVars == <<created, value, Calls, arg>>

(* Every step of the kernel is one step of the atomic semaphores, or none. *)
LEMMA AtomicStep ==
  ASSUME IInv, [Next]_vars
  PROVE  Atomic!Next \/ UNCHANGED AtomicVars
<1> USE CallValues DEF PCs, Running, At, AtomicVars
<1>1. ASSUME NEW p \in Procs, NEW v \in {0, 1}, BinarySemaphoreCreate(p, v)
      PROVE  Atomic!Next
  <2>1. PICK s \in Sems : /\ ~created[s]
                          /\ created' = [created EXCEPT ![s] = TRUE]
                          /\ value' = [value EXCEPT ![s] = v]
    BY Zenon, <1>1 DEF BinarySemaphoreCreate
  <2>2. UNCHANGED <<pc, arg>>
    BY Zenon, <1>1 DEF BinarySemaphoreCreate, procvars
  <2>3. UNCHANGED Calls
    BY Zenon, <2>2 DEF Calls
  <2>4. Atomic!Create(s, v)
    BY Zenon, <2>1, <2>2, <2>3 DEF Atomic!Create, Calls
  <2> QED
    BY Zenon, <2>4 DEF Atomic!Next
<1>2. ASSUME NEW p \in Procs, NEW s \in Sems, CallDown(p, s) PROVE Atomic!Next
  <2>1. pc[p] = "user" /\ Goto(p, "downAcquire")
    BY Zenon, <1>2 DEF CallDown
  <2>2. Calls[p] = "none" /\ Calls' = [Calls EXCEPT ![p] = "down"]
    <3>1. Calls[p] = "none"
      BY Zenon, <2>1 DEF Calls
    <3>2. Calls' = [Calls EXCEPT ![p] = CallOf("downAcquire")]
      BY Zenon, <2>1, CallMove
    <3> QED
      BY Zenon, <3>1, <3>2
  <2>3. Atomic!Invoke(p, "down", s)
    BY Zenon, <1>2, <2>2 DEF CallDown, semvars, Atomic!Invoke, Calls
  <2> QED
    BY Zenon, <2>3 DEF Atomic!Next
<1>3. ASSUME NEW p \in Procs, NEW s \in Sems, CallUp(p, s) PROVE Atomic!Next
  <2>1. pc[p] = "user" /\ Goto(p, "upAcquire")
    BY Zenon, <1>3 DEF CallUp
  <2>2. Calls[p] = "none" /\ Calls' = [Calls EXCEPT ![p] = "up"]
    <3>1. Calls[p] = "none"
      BY Zenon, <2>1 DEF Calls
    <3>2. Calls' = [Calls EXCEPT ![p] = CallOf("upAcquire")]
      BY Zenon, <2>1, CallMove
    <3> QED
      BY Zenon, <3>1, <3>2
  <2>3. Atomic!Invoke(p, "up", s)
    BY Zenon, <1>3, <2>2 DEF CallUp, Atomic!Invoke, Calls
  <2> QED
    BY Zenon, <2>3 DEF Atomic!Next
<1>4. ASSUME NEW p \in Procs, DownTake(p) PROVE Atomic!Next
  <2>1. pc[p] = "downTest" /\ Goto(p, "user")
    BY Zenon, <1>4 DEF DownTake
  <2>2. Calls[p] = "down" /\ Calls' = [Calls EXCEPT ![p] = "none"]
    BY ZenonT(30), <2>1, CallMove DEF Calls
  <2>3. Atomic!Down(p)
    BY Zenon, <1>4, <2>2 DEF DownTake, MayTake, Atomic!Down, Atomic!Return, Calls
  <2> QED
    BY SMTT(30), <2>3 DEF Atomic!Next
<1>5. ASSUME NEW p \in Procs, UpScan(p) PROVE Atomic!Next
  <2>1. pc[p] = "upScan" /\ Goto(p, "user") /\ created[arg[p]]
    BY Zenon, <1>5 DEF UpScan, IInv, UseInv
  <2>2. Calls[p] = "up" /\ Calls' = [Calls EXCEPT ![p] = "none"]
    BY ZenonT(30), <2>1, CallMove DEF Calls
  <2>3. Atomic!Up(p)
    BY Zenon, <1>5, <2>1, <2>2 DEF UpScan, Atomic!Up, Atomic!Return, Calls
  <2> QED
    BY Zenon, <2>3 DEF Atomic!Next
<1>6. ASSUME NEW p \in Procs, DownNotCreated(p) \/ UpNotCreated(p) PROVE Atomic!Next
  <2>1. pc[p] \in {"downTest", "upTest"} /\ Goto(p, "user") /\ ~created[arg[p]]
        /\ UNCHANGED <<created, value, arg>>
    BY Zenon, <1>6 DEF DownNotCreated, UpNotCreated
  <2>2. Calls[p] # "none" /\ Calls' = [Calls EXCEPT ![p] = "none"]
    BY ZenonT(30), <2>1, CallMove DEF Calls
  <2>3. Atomic!Fail(p)
    BY Zenon, <2>1, <2>2 DEF Atomic!Fail, Atomic!Return, Calls
  <2> QED
    BY Zenon, <2>3 DEF Atomic!Next
<1>7. ASSUME NEW p \in Procs,
             DownAcquire(p) \/ DownWait(p) \/ SleepAcquire(p) \/ SleepSwitch(p)
               \/ DownReacquire(p) \/ UpAcquire(p) \/ UpLock(p)
      PROVE  UNCHANGED AtomicVars
  <2>1. PICK l \in PCs : Goto(p, l) /\ CallOf(l) = CallOf(pc[p])
    <3>1. CASE DownAcquire(p)
      BY Zenon, <3>1 DEF DownAcquire
    <3>2. CASE DownWait(p)
      BY Zenon, <3>2 DEF DownWait
    <3>3. CASE SleepAcquire(p)
      BY Zenon, <3>3 DEF SleepAcquire
    <3>4. CASE SleepSwitch(p)
      BY Zenon, <3>4 DEF SleepSwitch
    <3>5. CASE DownReacquire(p)
      BY Zenon, <3>5 DEF DownReacquire
    <3>6. CASE UpAcquire(p)
      BY Zenon, <3>6 DEF UpAcquire
    <3>7. CASE UpLock(p)
      BY Zenon, <3>7 DEF UpLock
    <3> QED
      BY Zenon, <1>7, <3>1, <3>2, <3>3, <3>4, <3>5, <3>6, <3>7
  <2>2. UNCHANGED Calls
    BY Zenon, <2>1, CallStay
  <2>3. UNCHANGED <<created, value, arg>>
    BY Zenon, <1>7 DEF DownAcquire, DownWait, SleepAcquire, SleepSwitch, DownReacquire,
                UpAcquire, UpLock, semvars
  <2> QED
    BY Zenon, <2>2, <2>3
<1>8. ASSUME NEW p \in Procs, Resume(p) PROVE UNCHANGED AtomicVars
  <2>1. PICK l \in PCs : Goto(p, l) /\ CallOf(l) = CallOf(pc[p])
    BY SMTT(30), <1>8 DEF Resume, IInv, TypeOK
  <2>2. UNCHANGED Calls
    BY <2>1, CallStay
  <2> QED
    BY Zenon, <1>8, <2>2 DEF Resume, semvars
<1>9. ASSUME NEW p \in Procs, Dispatch(p) \/ TimerTrap(p) \/ Yield(p) \/ Exit(p)
                                \/ \E q \in Procs : Kill(p, q)
      PROVE  UNCHANGED AtomicVars
  <2>1. UNCHANGED <<pc, created, value, arg>>
    BY Zenon, <1>9 DEF Dispatch, TimerTrap, Yield, Exit, Kill, semvars
  <2> QED
    BY Zenon, <2>1 DEF Calls
<1>10. CASE UNCHANGED vars
  BY Zenon, <1>10 DEF vars, procvars, semvars, Calls
<1> QED
  BY Zenon, <1>1, <1>2, <1>3, <1>4, <1>5, <1>6, <1>7, <1>8, <1>9, <1>10
  DEF Next, KernelStep, UserCall, Schedule

(* The calls are atomic: what programs see of any number of semaphores,    *)
(* used by any number of threads on any number of CPUs, is a sequence of   *)
(* whole create, down and up calls (BinarySemaphore implements             *)
(* AtomicBinarySemaphore).                                                 *)
THEOREM Refinement == Spec => Linearizable
<1>1. Init => IInv /\ Atomic!Init
  BY InvInit DEF Init, Atomic!Init, CallOf, IInv, TypeOK
<1>2. IInv /\ [Next]_vars => IInv' /\ [Atomic!Next]_(Atomic!vars)
  BY Zenon, InvStep, AtomicStep DEF Atomic!vars, AtomicVars, Calls
<1> QED
  BY <1>1, <1>2, PTL DEF Spec, Linearizable, Atomic!Spec

-----------------------------------------------------------------------------
(* With one CPU, the thread on it is RUNNING.                              *)
OneCpu ==
  /\ \A p, q \in oncpu : p = q
  /\ \A p \in oncpu : state[p] = "RUNNING"

INSTANCE FiniteSetTheorems

(* With NCPU = 1 every step keeps OneCpu: scheduler() gives the CPU to one *)
(* thread.                                                                 *)
LEMMA OneCpuStep ==
  ASSUME NCPU = 1 PROVE IInv /\ IInv' /\ CpuInv /\ OneCpu /\ [Next]_vars => OneCpu'
<1> SUFFICES ASSUME IInv, IInv', CpuInv, OneCpu, [Next]_vars PROVE OneCpu'
  OBVIOUS
<1> USE DEF OneCpu, CpuInv, IInv, TypeOK, Running, At
<1>1. ASSUME NEW p \in Procs, NEW v \in {0, 1}, BinarySemaphoreCreate(p, v) PROVE OneCpu'
  BY Zenon, <1>1 DEF BinarySemaphoreCreate, procvars, semvars
<1>2. ASSUME NEW p \in Procs, NEW s \in Sems, CallDown(p, s) PROVE OneCpu'
  BY Zenon, <1>2 DEF CallDown, procvars, semvars
<1>3. ASSUME NEW p \in Procs, NEW s \in Sems, CallUp(p, s) PROVE OneCpu'
  BY Zenon, <1>3 DEF CallUp, procvars, semvars
<1>4. ASSUME NEW p \in Procs, NEW q \in Procs, Kill(p, q) PROVE OneCpu'
  BY Zenon, <1>4 DEF Kill, procvars, semvars
<1>5. ASSUME NEW p \in Procs, DownAcquire(p) PROVE OneCpu'
  BY Zenon, <1>5 DEF DownAcquire, procvars, semvars
<1>6. ASSUME NEW p \in Procs, DownTake(p) PROVE OneCpu'
  BY Zenon, <1>6 DEF DownTake, procvars, semvars
<1>7. ASSUME NEW p \in Procs, DownWait(p) PROVE OneCpu'
  BY Zenon, <1>7 DEF DownWait, procvars, semvars
<1>8. ASSUME NEW p \in Procs, DownNotCreated(p) PROVE OneCpu'
  BY Zenon, <1>8 DEF DownNotCreated, procvars, semvars
<1>9. ASSUME NEW p \in Procs, SleepAcquire(p) PROVE OneCpu'
  BY Zenon, <1>9 DEF SleepAcquire, procvars, semvars
<1>10. ASSUME NEW p \in Procs, SleepSwitch(p) PROVE OneCpu'
  BY Zenon, <1>10 DEF SleepSwitch, procvars, semvars
<1>11. ASSUME NEW p \in Procs, DownReacquire(p) PROVE OneCpu'
  BY Zenon, <1>11 DEF DownReacquire, procvars, semvars
<1>12. ASSUME NEW p \in Procs, UpAcquire(p) PROVE OneCpu'
  BY Zenon, <1>12 DEF UpAcquire, procvars, semvars
<1>13. ASSUME NEW p \in Procs, UpLock(p) PROVE OneCpu'
  BY Zenon, <1>13 DEF UpLock, procvars, semvars
<1>14. ASSUME NEW p \in Procs, UpNotCreated(p) PROVE OneCpu'
  BY Zenon, <1>14 DEF UpNotCreated, procvars, semvars
<1>15. ASSUME NEW p \in Procs, UpScan(p) PROVE OneCpu'
  <2>1. \A q \in oncpu : q \notin Woken(p, arg[p])
    BY Zenon DEF Woken
  <2> QED
    BY Zenon, <1>15, <2>1 DEF UpScan
<1>16. ASSUME NEW p \in Procs, Exit(p) PROVE OneCpu'
  BY Zenon, <1>16 DEF Exit, procvars, semvars
<1>17. ASSUME NEW p \in Procs, Dispatch(p) PROVE OneCpu'
  <2>1. oncpu = {}
    <3>1. IsFiniteSet(oncpu)
      <4>1. IsFiniteSet(Procs)
        BY FS_Interval, ConstantsAssumption DEF Procs
      <4> QED
        BY Zenon, <4>1, FS_Subset
    <3>2. Cardinality(oncpu) \in Nat
      BY Zenon, <3>1, FS_CardinalityType
    <3>3. Cardinality(oncpu) < 1
      BY Zenon, <1>17 DEF Dispatch
    <3>4. Cardinality(oncpu) = 0
      BY <3>2, <3>3
    <3> QED
      BY Zenon, <3>1, <3>4, FS_EmptySet
  <2> QED
    BY Zenon, <1>17, <2>1 DEF Dispatch
<1>18. ASSUME NEW p \in Procs, Resume(p) PROVE OneCpu'
  BY Zenon, <1>18 DEF Resume, procvars, semvars
<1>19. ASSUME NEW p \in Procs, TimerTrap(p) PROVE OneCpu'
  BY Zenon, <1>19 DEF TimerTrap, procvars, semvars
<1>20. ASSUME NEW p \in Procs, Yield(p) PROVE OneCpu'
  BY Zenon, <1>20 DEF Yield, procvars, semvars
<1>21. CASE UNCHANGED vars
  BY Zenon, <1>21 DEF vars, procvars, semvars
<1> HIDE DEF OneCpu, CpuInv, IInv, TypeOK, Running, At
<1> QED
  BY Zenon, <1>1, <1>2, <1>3, <1>4, <1>5, <1>6, <1>7, <1>8, <1>9, <1>10, <1>11,
     <1>12, <1>13, <1>14, <1>15, <1>16, <1>17, <1>18, <1>19, <1>20, <1>21
  DEF Next, KernelStep, UserCall, Schedule

(* No CPU executes a thread in the initial state.                          *)
LEMMA OneCpuInit == Init => OneCpu
  BY Zenon DEF Init, OneCpu

(* With one CPU no thread that exit() has marked keeps executing.          *)
THEOREM ZombieOffCpuCorrect == ASSUME NCPU = 1 PROVE Spec => []ZombieOffCpu
<1>1. Init => IInv /\ CpuInv /\ OneCpu
  BY Zenon, InvInit, OneCpuInit DEF Init, CpuInv, Locking
<1>2. IInv /\ CpuInv /\ OneCpu /\ [Next]_vars => (IInv /\ CpuInv /\ OneCpu)'
  BY Zenon, InvStep, CpuStep, OneCpuStep
<1>3. OneCpu => ZombieOffCpu
  BY DEF OneCpu, ZombieOffCpu
<1> QED
  BY <1>1, <1>2, <1>3, PTL DEF Spec

(* With one CPU an exited thread remains in the zombie state, as the       *)
(* comment of exit() says, through every sleep, yield, up and kill.        *)
THEOREM ZombieStaysCorrect == ASSUME NCPU = 1 PROVE Spec => ZombieStays
<1> DEFINE Stays == \A p \in Procs : state[p] = "ZOMBIE" => state'[p] = "ZOMBIE"
<1>1. Init => IInv /\ CpuInv /\ OneCpu
  BY InvInit, OneCpuInit DEF Init, CpuInv, Locking
<1>2. IInv /\ CpuInv /\ OneCpu /\ [Next]_vars => (IInv /\ CpuInv /\ OneCpu)'
  BY InvStep, CpuStep, OneCpuStep
<1>3. IInv /\ CpuInv /\ OneCpu /\ [Next]_vars => [Stays]_vars
  <2> SUFFICES ASSUME IInv, CpuInv, OneCpu, Next PROVE Stays
    BY Zenon
  <2>1. PICK p \in Procs : KernelStep(p) \/ UserCall(p) \/ Schedule(p)
    BY Zenon DEF Next
  <2>2. CASE KernelStep(p)
    <3>1. CASE SleepSwitch(p)
      BY Zenon, <3>1 DEF SleepSwitch, At, OneCpu, IInv, TypeOK
    <3>2. CASE UpScan(p)
      BY Zenon, <3>2 DEF UpScan, Woken, IInv, TypeOK
    <3> QED
      <4>1. CASE UNCHANGED state
        BY Zenon, <4>1
      <4>2. SleepSwitch(p) \/ UpScan(p) \/ UNCHANGED state
        BY Zenon, <2>2 DEF KernelStep, DownAcquire, DownTake, DownWait, DownNotCreated,
           SleepAcquire, DownReacquire, UpAcquire, UpLock, UpNotCreated
      <4> QED
        BY Zenon, <3>1, <3>2, <4>1, <4>2
  <2>3. CASE UserCall(p)
    <3>1. CASE \E q \in Procs : Kill(p, q)
      BY <3>1 DEF Kill, IInv, TypeOK
    <3>2. CASE Exit(p)
      BY Zenon, <3>2 DEF Exit, IInv, TypeOK
    <3> QED
      <4>1. CASE UNCHANGED state
        BY <4>1
      <4>2. (\E q \in Procs : Kill(p, q)) \/ Exit(p) \/ UNCHANGED state
        BY Zenon, <2>3 DEF UserCall, BinarySemaphoreCreate, CallDown, CallUp, procvars
      <4> QED
        BY Zenon, <3>1, <3>2, <4>1, <4>2
  <2>4. CASE Schedule(p)
    BY <2>4 DEF Schedule, Dispatch, Resume, TimerTrap, Yield, OneCpu, CpuInv, IInv, TypeOK
  <2> QED
    BY Zenon, <2>1, <2>2, <2>3, <2>4
<1> QED
  BY <1>1, <1>2, <1>3, PTL DEF Spec, ZombieStays

==============================================================================
