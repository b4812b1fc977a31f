------------------------ MODULE BinarySemaphoreProofs ------------------------
(***************************************************************************)
(* Proofs about BinarySemaphore, for any number of threads, semaphores and *)
(* CPUs: its types, a semaphore used as a lock is one token, and no thread *)
(* leaves its CPU with a spin lock held.                                   *)
(***************************************************************************)
EXTENDS BinarySemaphore, TLAPS

Locking  == {"downTest", "sleepAcquire", "sleepSwitch", "upTest", "upScan"}
Sleeping == {"sleepAcquire", "sleepSwitch", "sleepReturn", "downReacquire"}
DownPCs  == {"downTest"} \union Sleeping

(* A semaphore is locked exactly by the thread inside its locked section.  *)
LockInv == \A p \in Procs : \A s \in Sems :
  semlock[s] = p <=> arg[p] = s /\ pc[p] \in Locking

(* A program uses an id before it is created only if it never will be.     *)
UseInv == \A p \in Procs :
  /\ pc[p] # "user" => Usable(arg[p])
  /\ pc[p] = "upScan" => created[arg[p]]

(* waiting_for_semaphore names the semaphore that p waits for.             *)
WfInv == \A p \in Procs :
  /\ pc[p] \in Sleeping => wf[p] = arg[p] /\ created[arg[p]]
  /\ wf[p] # -1 => pc[p] \in DownPCs /\ wf[p] = arg[p] /\ created[arg[p]]

(* Only threads inside down have a position, and they keep a nonzero one   *)
(* until they have gone to sleep.                                          *)
PosInv ==
  /\ \A p \in Procs :
       /\ pos[p] # 0 => pc[p] \in DownPCs /\ created[arg[p]]
       /\ pc[p] \in {"sleepAcquire", "sleepSwitch"} => pos[p] # 0
  /\ \A s \in Sems : waiting[s] # 0 => created[s]

IInv == TypeOK /\ LockInv /\ UseInv /\ WfInv /\ PosInv

(* The steps that touch neither a semaphore nor what a thread knows of it: *)
(* scheduling, kill() and exit().  At most a sleeper returns from sched(). *)
Quiet ==
  /\ UNCHANGED <<wf, pos, arg, semvars>>
  /\ \/ pc' = pc
     \/ \E p \in Procs : /\ pc[p] = "sleepReturn"
                         /\ pc' = [pc EXCEPT ![p] = "downReacquire"]

-----------------------------------------------------------------------------
(* Threads and ids are numbers, none of them the -1 of a free lock.        *)
LEMMA Ids == /\ Procs \subseteq Int /\ Sems \subseteq Int /\ 0 \in Sems
             /\ Free = -1 /\ Free \notin Procs /\ -1 \notin Sems
  BY ConstantsAssumption DEF Procs, Sems, Free

(* Every field keeps its type: TypeOK is inductive by itself.              *)
LEMMA TypeStep == TypeOK /\ [Next]_vars => TypeOK'
<1> SUFFICES ASSUME TypeOK, [Next]_vars PROVE TypeOK'
  OBVIOUS
<1> USE Ids DEF TypeOK, PCs, States, Goto
<1>1. ASSUME NEW p \in Procs, NEW v \in {0, 1}, BinarySemaphoreCreate(p, v) PROVE TypeOK'
  BY <1>1 DEF BinarySemaphoreCreate, procvars, semvars
<1>2. ASSUME NEW p \in Procs, NEW s \in Sems, CallDown(p, s) PROVE TypeOK'
  BY <1>2 DEF CallDown, procvars, semvars
<1>3. ASSUME NEW p \in Procs, NEW s \in Sems, CallUp(p, s) PROVE TypeOK'
  BY <1>3 DEF CallUp, procvars, semvars
<1>4. ASSUME NEW p \in Procs, NEW q \in Procs, Kill(p, q) PROVE TypeOK'
  BY <1>4 DEF Kill, procvars, semvars
<1>5. ASSUME NEW p \in Procs, DownAcquire(p) PROVE TypeOK'
  <2>1. waiting' \in [Sems -> Nat] /\ pos' \in [Procs -> Int]
    <3>1. CASE waiting[arg[p]] # 0
      <4>1. arg[p] \in Sems /\ waiting[arg[p]] \in Nat
        OBVIOUS
      <4> QED
        BY <1>5, <3>1, <4>1 DEF DownAcquire
    <3>2. CASE waiting[arg[p]] = 0
      BY <1>5, <3>2 DEF DownAcquire
    <3> QED
      BY <3>1, <3>2
  <2> QED
    BY Zenon, <1>5, <2>1 DEF DownAcquire
<1>6. ASSUME NEW p \in Procs, DownTake(p) PROVE TypeOK'
  <2>1. held' \in [Sems -> SUBSET Procs]
    BY ZenonT(30), <1>6 DEF DownTake
  <2> QED
    BY Zenon, <1>6, <2>1 DEF DownTake
<1>7. ASSUME NEW p \in Procs, DownWait(p) PROVE TypeOK'
  <2>1. waiting' \in [Sems -> Nat] /\ pos' \in [Procs -> Int]
    <3>1. CASE pos[p] = 0
      <4>1. arg[p] \in Sems /\ waiting[arg[p]] \in Nat
        OBVIOUS
      <4> QED
        BY <1>7, <3>1, <4>1 DEF DownWait
    <3>2. CASE pos[p] # 0
      BY <1>7, <3>2 DEF DownWait
    <3> QED
      BY <3>1, <3>2
  <2> QED
    BY Zenon, <1>7, <2>1 DEF DownWait
<1>8. ASSUME NEW p \in Procs, DownNotCreated(p) PROVE TypeOK'
  BY Zenon, <1>8 DEF DownNotCreated, procvars, semvars
<1>9. ASSUME NEW p \in Procs, SleepAcquire(p) PROVE TypeOK'
  BY Zenon, <1>9 DEF SleepAcquire, procvars, semvars
<1>10. ASSUME NEW p \in Procs, SleepSwitch(p) PROVE TypeOK'
  BY Zenon, <1>10 DEF SleepSwitch, procvars, semvars
<1>11. ASSUME NEW p \in Procs, DownReacquire(p) PROVE TypeOK'
  BY Zenon, <1>11 DEF DownReacquire, procvars, semvars
<1>12. ASSUME NEW p \in Procs, UpAcquire(p) PROVE TypeOK'
  BY Zenon, <1>12 DEF UpAcquire, procvars, semvars
<1>13. ASSUME NEW p \in Procs, UpLock(p) PROVE TypeOK'
  BY Zenon, <1>13 DEF UpLock, procvars, semvars
<1>14. ASSUME NEW p \in Procs, UpNotCreated(p) PROVE TypeOK'
  BY Zenon, <1>14 DEF UpNotCreated, procvars, semvars
<1>15. ASSUME NEW p \in Procs, UpScan(p) PROVE TypeOK'
  <2>1. pos' \in [Procs -> Int]
    BY <1>15 DEF UpScan
  <2>2. waiting' \in [Sems -> Nat]
    <3>1. \A n \in Nat : WaitingAfterUp(n) \in Nat
      BY DEF WaitingAfterUp
    <3> QED
      BY Zenon, <1>15, <3>1 DEF UpScan
  <2>3. state' \in [Procs -> States]
    BY Zenon, <1>15 DEF UpScan
  <2> QED
    BY Zenon, <1>15, <2>1, <2>2, <2>3 DEF UpScan
<1>16. ASSUME NEW p \in Procs, Exit(p) PROVE TypeOK'
  BY Zenon, <1>16 DEF Exit, procvars, semvars
<1>17. ASSUME NEW p \in Procs, Dispatch(p) PROVE TypeOK'
  BY Zenon, <1>17 DEF Dispatch, procvars, semvars
<1>18. ASSUME NEW p \in Procs, Resume(p) PROVE TypeOK'
  BY Zenon, <1>18 DEF Resume, procvars, semvars
<1>19. ASSUME NEW p \in Procs, TimerTrap(p) PROVE TypeOK'
  BY Zenon, <1>19 DEF TimerTrap, procvars, semvars
<1>20. ASSUME NEW p \in Procs, Yield(p) PROVE TypeOK'
  BY Zenon, <1>20 DEF Yield, procvars, semvars
<1>21. CASE UNCHANGED vars
  BY Zenon, <1>21 DEF vars, procvars, semvars
<1> HIDE Ids DEF TypeOK, PCs, States, Goto
<1> QED
  BY <1>1, <1>2, <1>3, <1>4, <1>5, <1>6, <1>7, <1>8, <1>9, <1>10, <1>11,
     <1>12, <1>13, <1>14, <1>15, <1>16, <1>17, <1>18, <1>19, <1>20, <1>21
  DEF Next, KernelStep, UserCall, Schedule

(* TypeOK is an invariant, for any number of threads, semaphores and CPUs: *)
(* the fields of proc.h that down, up, sleep, exit and the scheduler write *)
(* keep their types.                                                       *)
THEOREM TypeCorrect == Spec => []TypeOK
<1>1. Init => TypeOK
  BY Ids DEF Init, TypeOK, PCs, States
<1> QED
  BY <1>1, TypeStep, PTL DEF Spec

(* The cases of a step: a quiet one, or one action of down, up or create.  *)
LEMMA NextCases ==
  ASSUME TypeOK, [Next]_vars
  PROVE  \/ Quiet
         \/ \E p \in Procs :
              \/ \E v \in {0, 1} : BinarySemaphoreCreate(p, v)
              \/ \E t \in Sems : CallDown(p, t) \/ CallUp(p, t)
              \/ KernelStep(p)
<1>1. ASSUME NEW p \in Procs, NEW q \in Procs, Kill(p, q) PROVE Quiet
  BY <1>1 DEF Kill, Quiet
<1>2. ASSUME NEW p \in Procs, Exit(p) PROVE Quiet
  BY <1>2 DEF Exit, Quiet
<1>3. ASSUME NEW p \in Procs, Dispatch(p) PROVE Quiet
  BY <1>3 DEF Dispatch, Quiet
<1>4. ASSUME NEW p \in Procs, Resume(p) PROVE Quiet
  <2>1. CASE pc[p] = "sleepReturn"
    BY Zenon, <1>4, <2>1 DEF Resume, Goto, Quiet
  <2>2. CASE pc[p] # "sleepReturn"
    BY Zenon, <1>4, <2>2 DEF Resume, Goto, Quiet, TypeOK
  <2> QED
    BY <2>1, <2>2
<1>5. ASSUME NEW p \in Procs, TimerTrap(p) \/ Yield(p) PROVE Quiet
  BY <1>5 DEF TimerTrap, Yield, Quiet
<1>6. CASE UNCHANGED vars
  BY <1>6 DEF vars, procvars, semvars, Quiet
<1> QED
  BY <1>1, <1>2, <1>3, <1>4, <1>5, <1>6 DEF Next, UserCall, Schedule

(* Only binary_semaphore_create changes which ids are usable.              *)
LEMMA UsableStep == ASSUME UNCHANGED created PROVE \A s \in Sems : Usable(s)' <=> Usable(s)
  BY DEF Usable, NCreated

(* The lock discipline is preserved by every step.                         *)
LEMMA LockStep == TypeOK /\ TypeOK' /\ LockInv /\ UseInv /\ [Next]_vars => LockInv'
<1> SUFFICES ASSUME TypeOK, TypeOK', LockInv, UseInv, [Next]_vars PROVE LockInv'
  OBVIOUS
<1> USE Ids DEF TypeOK, LockInv, Locking, Goto, Running, At
<1>1. ASSUME NEW p \in Procs, NEW v \in {0, 1}, BinarySemaphoreCreate(p, v) PROVE LockInv'
  <2>1. PICK s \in Sems : /\ ~created[s]
                          /\ semlock' = [semlock EXCEPT ![s] = Free]
                          /\ created' = [created EXCEPT ![s] = TRUE]
    BY Zenon, <1>1 DEF BinarySemaphoreCreate
  <2>2. NCreated # MaxCreates
    BY <1>1, ConstantsAssumption DEF BinarySemaphoreCreate
  <2>3. \A q \in Procs : pc[q] # "user" => created[arg[q]] /\ arg[q] # s
    BY <2>1, <2>2 DEF UseInv, Usable
  <2>4. UNCHANGED <<pc, arg>>
    BY Zenon, <1>1 DEF BinarySemaphoreCreate, procvars
  <2> QED
    BY <2>1, <2>3, <2>4
<1>2. ASSUME NEW p \in Procs, NEW s \in Sems, CallDown(p, s) PROVE LockInv'
  BY <1>2 DEF CallDown, procvars, semvars
<1>3. ASSUME NEW p \in Procs, NEW s \in Sems, CallUp(p, s) PROVE LockInv'
  BY <1>3 DEF CallUp, procvars, semvars
<1>4. CASE Quiet
  BY <1>4 DEF Quiet, semvars
<1>5. ASSUME NEW p \in Procs, DownAcquire(p) PROVE LockInv'
  BY <1>5 DEF DownAcquire, procvars, semvars
<1>6. ASSUME NEW p \in Procs, DownTake(p) PROVE LockInv'
  BY <1>6 DEF DownTake, procvars, semvars
<1>7. ASSUME NEW p \in Procs, DownWait(p) PROVE LockInv'
  BY <1>7 DEF DownWait, procvars, semvars
<1>8. ASSUME NEW p \in Procs, DownNotCreated(p) PROVE LockInv'
  BY <1>8 DEF DownNotCreated, procvars, semvars
<1>9. ASSUME NEW p \in Procs, SleepAcquire(p) PROVE LockInv'
  BY <1>9 DEF SleepAcquire, procvars, semvars
<1>10. ASSUME NEW p \in Procs, SleepSwitch(p) PROVE LockInv'
  BY <1>10 DEF SleepSwitch, procvars, semvars
<1>11. ASSUME NEW p \in Procs, DownReacquire(p) PROVE LockInv'
  BY <1>11 DEF DownReacquire, procvars, semvars
<1>12. ASSUME NEW p \in Procs, UpAcquire(p) PROVE LockInv'
  BY <1>12 DEF UpAcquire, procvars, semvars
<1>13. ASSUME NEW p \in Procs, UpLock(p) PROVE LockInv'
  BY <1>13 DEF UpLock, procvars, semvars
<1>14. ASSUME NEW p \in Procs, UpNotCreated(p) PROVE LockInv'
  BY <1>14 DEF UpNotCreated, procvars, semvars
<1>15. ASSUME NEW p \in Procs, UpScan(p) PROVE LockInv'
  BY <1>15 DEF UpScan, procvars, semvars
<1> HIDE DEF TypeOK, LockInv, Locking, Goto, Running, At
<1> QED
  BY Zenon, NextCases, <1>1, <1>2, <1>3, <1>4, <1>5, <1>6, <1>7, <1>8, <1>9, <1>10,
     <1>11, <1>12, <1>13, <1>14, <1>15 DEF KernelStep

(* So is the use of ids.                                                   *)
LEMMA UseStep == TypeOK /\ TypeOK' /\ UseInv /\ [Next]_vars => UseInv'
<1> SUFFICES ASSUME TypeOK, TypeOK', UseInv, [Next]_vars PROVE UseInv'
  OBVIOUS
<1> USE UsableStep DEF TypeOK, UseInv, Goto, Running, At
<1>1. ASSUME NEW p \in Procs, NEW v \in {0, 1}, BinarySemaphoreCreate(p, v) PROVE UseInv'
  <2>1. PICK s \in Sems : /\ ~created[s]
                          /\ semlock' = [semlock EXCEPT ![s] = Free]
                          /\ created' = [created EXCEPT ![s] = TRUE]
    BY Zenon, <1>1 DEF BinarySemaphoreCreate
  <2>2. NCreated # MaxCreates
    BY <1>1, ConstantsAssumption DEF BinarySemaphoreCreate
  <2>3. \A q \in Procs : pc[q] # "user" => created[arg[q]] /\ arg[q] # s
    BY <2>1, <2>2 DEF UseInv, Usable
  <2>4. UNCHANGED <<pc, arg>>
    BY Zenon, <1>1 DEF BinarySemaphoreCreate, procvars
  <2>5. \A r \in Sems : created[r] => created'[r]
    BY Zenon, <2>1
  <2>6. \A q \in Procs : pc[q] # "user" => Usable(arg[q])'
    BY Zenon, <2>3, <2>4, <2>5 DEF Usable
  <2>7. \A q \in Procs : pc[q] = "upScan" => created'[arg[q]]
    BY Zenon, <2>5
  <2> QED
    BY Zenon, <2>4, <2>6, <2>7
<1>2. ASSUME NEW p \in Procs, NEW s \in Sems, CallDown(p, s) PROVE UseInv'
  BY Zenon, <1>2 DEF CallDown, procvars, semvars
<1>3. ASSUME NEW p \in Procs, NEW s \in Sems, CallUp(p, s) PROVE UseInv'
  BY <1>3 DEF CallUp, procvars, semvars
<1>4. CASE Quiet
  BY SMTT(30), <1>4 DEF Quiet, semvars
<1>5. ASSUME NEW p \in Procs, DownAcquire(p) PROVE UseInv'
  BY Zenon, <1>5 DEF DownAcquire, procvars, semvars
<1>6. ASSUME NEW p \in Procs, DownTake(p) PROVE UseInv'
  BY <1>6 DEF DownTake, procvars, semvars
<1>7. ASSUME NEW p \in Procs, DownWait(p) PROVE UseInv'
  BY Zenon, <1>7 DEF DownWait, procvars, semvars
<1>8. ASSUME NEW p \in Procs, DownNotCreated(p) PROVE UseInv'
  BY Zenon, <1>8 DEF DownNotCreated, procvars, semvars
<1>9. ASSUME NEW p \in Procs, SleepAcquire(p) PROVE UseInv'
  BY Zenon, <1>9 DEF SleepAcquire, procvars, semvars
<1>10. ASSUME NEW p \in Procs, SleepSwitch(p) PROVE UseInv'
  BY Zenon, <1>10 DEF SleepSwitch, procvars, semvars
<1>11. ASSUME NEW p \in Procs, DownReacquire(p) PROVE UseInv'
  BY Zenon, <1>11 DEF DownReacquire, procvars, semvars
<1>12. ASSUME NEW p \in Procs, UpAcquire(p) PROVE UseInv'
  BY <1>12 DEF UpAcquire, procvars, semvars
<1>13. ASSUME NEW p \in Procs, UpLock(p) PROVE UseInv'
  BY Zenon, <1>13 DEF UpLock, procvars, semvars
<1>14. ASSUME NEW p \in Procs, UpNotCreated(p) PROVE UseInv'
  BY Zenon, <1>14 DEF UpNotCreated, procvars, semvars
<1>15. ASSUME NEW p \in Procs, UpScan(p) PROVE UseInv'
  BY Zenon, <1>15 DEF UpScan, procvars, semvars
<1> HIDE DEF TypeOK, UseInv, Goto, Running, At
<1> QED
  BY Zenon, NextCases, <1>1, <1>2, <1>3, <1>4, <1>5, <1>6, <1>7, <1>8, <1>9, <1>10,
     <1>11, <1>12, <1>13, <1>14, <1>15 DEF KernelStep

(* And what waiting_for_semaphore says.                                    *)
LEMMA WfStep == TypeOK /\ TypeOK' /\ WfInv /\ [Next]_vars => WfInv'
<1> SUFFICES ASSUME TypeOK, TypeOK', WfInv, [Next]_vars PROVE WfInv'
  OBVIOUS
<1> USE Ids DEF TypeOK, WfInv, Sleeping, DownPCs, Goto, Running, At
<1>1. ASSUME NEW p \in Procs, NEW v \in {0, 1}, BinarySemaphoreCreate(p, v) PROVE WfInv'
  BY <1>1 DEF BinarySemaphoreCreate, procvars, semvars
<1>2. ASSUME NEW p \in Procs, NEW s \in Sems, CallDown(p, s) PROVE WfInv'
  BY <1>2 DEF CallDown, procvars, semvars
<1>3. ASSUME NEW p \in Procs, NEW s \in Sems, CallUp(p, s) PROVE WfInv'
  BY <1>3 DEF CallUp, procvars, semvars
<1>4. CASE Quiet
  BY <1>4 DEF Quiet, semvars
<1>5. ASSUME NEW p \in Procs, DownAcquire(p) PROVE WfInv'
  BY <1>5 DEF DownAcquire, procvars, semvars
<1>6. ASSUME NEW p \in Procs, DownTake(p) PROVE WfInv'
  BY <1>6 DEF DownTake, procvars, semvars
<1>7. ASSUME NEW p \in Procs, DownWait(p) PROVE WfInv'
  <2>1. /\ created[arg[p]] /\ wf' = [wf EXCEPT ![p] = arg[p]]
        /\ pc' = [pc EXCEPT ![p] = "sleepAcquire"] /\ UNCHANGED <<arg, created>>
    BY Zenon, <1>7 DEF DownWait
  <2> QED
    BY <2>1
<1>8. ASSUME NEW p \in Procs, DownNotCreated(p) PROVE WfInv'
  BY <1>8 DEF DownNotCreated, procvars, semvars
<1>9. ASSUME NEW p \in Procs, SleepAcquire(p) PROVE WfInv'
  BY <1>9 DEF SleepAcquire, procvars, semvars
<1>10. ASSUME NEW p \in Procs, SleepSwitch(p) PROVE WfInv'
  BY <1>10 DEF SleepSwitch, procvars, semvars
<1>11. ASSUME NEW p \in Procs, DownReacquire(p) PROVE WfInv'
  BY <1>11 DEF DownReacquire, procvars, semvars
<1>12. ASSUME NEW p \in Procs, UpAcquire(p) PROVE WfInv'
  BY <1>12 DEF UpAcquire, procvars, semvars
<1>13. ASSUME NEW p \in Procs, UpLock(p) PROVE WfInv'
  BY <1>13 DEF UpLock, procvars, semvars
<1>14. ASSUME NEW p \in Procs, UpNotCreated(p) PROVE WfInv'
  BY <1>14 DEF UpNotCreated, procvars, semvars
<1>15. ASSUME NEW p \in Procs, UpScan(p) PROVE WfInv'
  BY <1>15 DEF UpScan, procvars, semvars
<1> HIDE DEF TypeOK, WfInv, Sleeping, DownPCs, Goto, Running, At
<1> QED
  BY Zenon, NextCases, <1>1, <1>2, <1>3, <1>4, <1>5, <1>6, <1>7, <1>8, <1>9, <1>10,
     <1>11, <1>12, <1>13, <1>14, <1>15 DEF KernelStep

(* And what the queue positions say.                                       *)
LEMMA PosStep == IInv /\ TypeOK' /\ [Next]_vars => PosInv'
<1> SUFFICES ASSUME IInv, TypeOK', [Next]_vars PROVE PosInv'
  OBVIOUS
<1>0. TypeOK /\ LockInv /\ UseInv /\ WfInv /\ PosInv
  BY DEF IInv
<1> USE <1>0, Ids DEF TypeOK, PosInv, Sleeping, DownPCs, Goto, Running, At
<1>1. ASSUME NEW p \in Procs, NEW v \in {0, 1}, BinarySemaphoreCreate(p, v) PROVE PosInv'
  BY <1>1 DEF BinarySemaphoreCreate, procvars, semvars
<1>2. ASSUME NEW p \in Procs, NEW s \in Sems, CallDown(p, s) PROVE PosInv'
  BY <1>2 DEF CallDown, procvars, semvars
<1>3. ASSUME NEW p \in Procs, NEW s \in Sems, CallUp(p, s) PROVE PosInv'
  BY SMTT(30), <1>3 DEF CallUp, procvars, semvars
<1>4. CASE Quiet
  BY <1>4 DEF Quiet, semvars
<1>5. ASSUME NEW p \in Procs, DownAcquire(p) PROVE PosInv'
  <2>1. CASE waiting[arg[p]] # 0
    <3>1. /\ waiting' = [waiting EXCEPT ![arg[p]] = waiting[arg[p]] + 1]
          /\ pos' = [pos EXCEPT ![p] = waiting[arg[p]] + 1]
      BY Zenon, <1>5, <2>1 DEF DownAcquire
    <3>2. created[arg[p]]
      BY Zenon, <2>1
    <3>3. UNCHANGED <<arg, created>> /\ pc' = [pc EXCEPT ![p] = "downTest"]
      BY Zenon, <1>5 DEF DownAcquire
    <3> QED
      BY <3>1, <3>2, <3>3
  <2>2. CASE waiting[arg[p]] = 0
    BY <1>5, <2>2 DEF DownAcquire
  <2> QED
    BY Zenon, <2>1, <2>2
<1>6. ASSUME NEW p \in Procs, DownTake(p) PROVE PosInv'
  <2>1. pos[p] = 0 /\ UNCHANGED <<pos, waiting, arg, created>>
    BY Zenon, <1>6 DEF DownTake, MayTake
  <2> QED
    BY <1>6, <2>1 DEF DownTake
<1>7. ASSUME NEW p \in Procs, DownWait(p) PROVE PosInv'
  <2>1. created[arg[p]] /\ UNCHANGED <<arg, created>>
    BY Zenon, <1>7 DEF DownWait
  <2>2. arg[p] \in Sems /\ waiting[arg[p]] \in Nat
    OBVIOUS
  <2>3. CASE pos[p] = 0
    <3>1. /\ waiting' = [waiting EXCEPT ![arg[p]] = waiting[arg[p]] + 1]
          /\ pos' = [pos EXCEPT ![p] = waiting[arg[p]] + 1]
      BY Zenon, <1>7, <2>3 DEF DownWait
    <3>2. pc' = [pc EXCEPT ![p] = "sleepAcquire"]
      BY Zenon, <1>7 DEF DownWait
    <3>3. pos'[p] # 0
      BY <2>2, <3>1
    <3> QED
      BY <2>1, <2>2, <3>1, <3>2, <3>3
  <2>4. CASE pos[p] # 0
    BY <1>7, <2>1, <2>4 DEF DownWait
  <2> QED
    BY Zenon, <2>3, <2>4
<1>8. ASSUME NEW p \in Procs, DownNotCreated(p) PROVE PosInv'
  BY <1>8 DEF DownNotCreated, procvars, semvars
<1>9. ASSUME NEW p \in Procs, SleepAcquire(p) PROVE PosInv'
  BY <1>9 DEF SleepAcquire, procvars, semvars
<1>10. ASSUME NEW p \in Procs, SleepSwitch(p) PROVE PosInv'
  BY <1>10 DEF SleepSwitch, procvars, semvars
<1>11. ASSUME NEW p \in Procs, DownReacquire(p) PROVE PosInv'
  BY <1>11 DEF DownReacquire, procvars, semvars
<1>12. ASSUME NEW p \in Procs, UpAcquire(p) PROVE PosInv'
  BY <1>12 DEF UpAcquire, procvars, semvars
<1>13. ASSUME NEW p \in Procs, UpLock(p) PROVE PosInv'
  BY <1>13 DEF UpLock, procvars, semvars
<1>14. ASSUME NEW p \in Procs, UpNotCreated(p) PROVE PosInv'
  BY <1>14 DEF UpNotCreated, procvars, semvars
<1>15. ASSUME NEW p \in Procs, UpScan(p) PROVE PosInv'
  <2> USE DEF LockInv, UseInv, WfInv, Locking
  <2> arg[p] \in Sems /\ pc[p] = "upScan"
    BY Zenon, <1>15 DEF UpScan
  <2>1. created[arg[p]] /\ semlock[arg[p]] = p /\ UNCHANGED <<arg, wf, created>>
    BY Zenon, <1>15 DEF UpScan
  <2>2. \A q \in Waiters(p, arg[p]) :
          q \in Procs /\ arg[q] = arg[p] /\ pc[q] \in {"sleepReturn", "downReacquire"}
    <3> TAKE q \in Waiters(p, arg[p])
    <3>1. q \in Procs /\ q # p /\ wf[q] = arg[p]
      BY Zenon DEF Waiters
    <3>2. arg[q] = arg[p] /\ pc[q] \in DownPCs
      BY <3>1
    <3>3. ASSUME pc[q] \in Locking PROVE FALSE
      <4>1. semlock[arg[p]] = q
        BY Zenon, <3>1, <3>2, <3>3
      <4> QED
        BY Zenon, <2>1, <3>1, <4>1
    <3> QED
      BY Zenon, <3>1, <3>2, <3>3
  <2>3. \A q \in Procs \ Waiters(p, arg[p]) : pos'[q] = pos[q]
    BY Zenon, <1>15 DEF UpScan
  <2>4. \A s \in Sems : waiting'[s] # 0 => created[s]
    BY <1>15, <2>1 DEF UpScan
  <2> QED
    BY <1>15, <2>1, <2>2, <2>3, <2>4 DEF UpScan
<1> HIDE DEF TypeOK, PosInv, Sleeping, DownPCs, Goto, Running, At
<1> QED
  BY Zenon, NextCases, <1>0, <1>1, <1>2, <1>3, <1>4, <1>5, <1>6, <1>7, <1>8, <1>9, <1>10,
     <1>11, <1>12, <1>13, <1>14, <1>15 DEF KernelStep

(* All of it together.                                                     *)
LEMMA InvStep == IInv /\ [Next]_vars => IInv'
  BY TypeStep, LockStep, UseStep, WfStep, PosStep DEF IInv

(* pinit and the zeroed tables satisfy the invariant.                      *)
LEMMA InvInit == Init => IInv
  BY Ids DEF Init, IInv, TypeOK, LockInv, UseInv, WfInv, PosInv, PCs, States,
             Locking, Sleeping, DownPCs

-----------------------------------------------------------------------------
(* The thread that gives a lock back no longer counts as its holder.       *)
HeldInv == \A s \in Sems :
  /\ ~created[s] => held[s] = {}
  /\ s \in MutexIds => \A p \in Procs : InUp(p, s) => p \notin held[s]

(* The history of who holds what is consistent.                            *)
LEMMA HeldStep == IInv /\ IInv' /\ HeldInv /\ [Next]_vars => HeldInv'
<1> SUFFICES ASSUME IInv, IInv', HeldInv, [Next]_vars PROVE HeldInv'
  OBVIOUS
<1> USE DEF HeldInv, InUp, IInv, TypeOK, Goto, Running, At
<1>0. TypeOK
  BY Zenon DEF IInv
<1>1. ASSUME NEW p \in Procs, NEW v \in {0, 1}, BinarySemaphoreCreate(p, v) PROVE HeldInv'
  BY <1>1 DEF BinarySemaphoreCreate, procvars, semvars
<1>2. ASSUME NEW p \in Procs, NEW s \in Sems, CallDown(p, s) PROVE HeldInv'
  BY <1>2 DEF CallDown, procvars, semvars
<1>3. ASSUME NEW p \in Procs, NEW s \in Sems, CallUp(p, s) PROVE HeldInv'
  BY <1>3 DEF CallUp, procvars, semvars
<1>4. CASE Quiet
  BY <1>4 DEF Quiet, semvars
<1>5. ASSUME NEW p \in Procs, DownAcquire(p) PROVE HeldInv'
  BY <1>5 DEF DownAcquire, procvars, semvars
<1>6. ASSUME NEW p \in Procs, DownTake(p) PROVE HeldInv'
  BY <1>6 DEF DownTake, procvars, semvars
<1>7. ASSUME NEW p \in Procs, DownWait(p) PROVE HeldInv'
  BY <1>7 DEF DownWait, procvars, semvars
<1>8. ASSUME NEW p \in Procs, DownNotCreated(p) PROVE HeldInv'
  BY <1>8 DEF DownNotCreated, procvars, semvars
<1>9. ASSUME NEW p \in Procs, SleepAcquire(p) PROVE HeldInv'
  BY <1>9 DEF SleepAcquire, procvars, semvars
<1>10. ASSUME NEW p \in Procs, SleepSwitch(p) PROVE HeldInv'
  BY <1>10 DEF SleepSwitch, procvars, semvars
<1>11. ASSUME NEW p \in Procs, DownReacquire(p) PROVE HeldInv'
  BY <1>11 DEF DownReacquire, procvars, semvars
<1>12. ASSUME NEW p \in Procs, UpAcquire(p) PROVE HeldInv'
  BY <1>12 DEF UpAcquire, procvars, semvars
<1>13. ASSUME NEW p \in Procs, UpLock(p) PROVE HeldInv'
  BY <1>13 DEF UpLock, procvars, semvars
<1>14. ASSUME NEW p \in Procs, UpNotCreated(p) PROVE HeldInv'
  BY <1>14 DEF UpNotCreated, procvars, semvars
<1>15. ASSUME NEW p \in Procs, UpScan(p) PROVE HeldInv'
  BY <1>15 DEF UpScan, procvars, semvars
<1> HIDE DEF HeldInv, InUp, IInv, TypeOK, Goto, Running, At
<1> QED
  BY Zenon, NextCases, <1>0, <1>1, <1>2, <1>3, <1>4, <1>5, <1>6, <1>7, <1>8, <1>9, <1>10,
     <1>11, <1>12, <1>13, <1>14, <1>15 DEF KernelStep

(* The semaphores used as locks are semaphores.                            *)
LEMMA MutexInSems == MutexIds \subseteq Sems
  BY ConstantsAssumption

(* A step that moves no token keeps them all.                              *)
LEMMA MutexFrame ==
  ASSUME MutualExclusion, UNCHANGED <<created, value, held>>,
         \A q \in Procs : \A t \in Sems : InUp(q, t)' <=> InUp(q, t)
  PROVE  MutualExclusion'
<1>1. \A t \in MutexIds : Bearers(t)' = Bearers(t)
  BY MutexInSems DEF Bearers
<1> QED
  BY <1>1 DEF MutualExclusion

(* And every step keeps each lock a single token.                          *)
LEMMA MutexStep ==
  IInv /\ IInv' /\ HeldInv /\ MutualExclusion /\ [Next]_vars => MutualExclusion'
<1> SUFFICES ASSUME IInv, IInv', HeldInv, MutualExclusion, [Next]_vars
             PROVE  MutualExclusion'
  OBVIOUS
<1>0. TypeOK
  BY DEF IInv
<1>1. ASSUME NEW p \in Procs, NEW v \in {0, 1}, BinarySemaphoreCreate(p, v) PROVE MutualExclusion'
  <2>1. PICK s \in Sems : /\ ~created[s] /\ (s \in MutexIds => v = 1)
                          /\ created' = [created EXCEPT ![s] = TRUE]
                          /\ value' = [value EXCEPT ![s] = v]
    BY Zenon, <1>1 DEF BinarySemaphoreCreate
  <2>2. NCreated # MaxCreates
    BY <1>1, ConstantsAssumption DEF BinarySemaphoreCreate
  <2>3. \A q \in Procs : pc[q] # "user" => arg[q] # s
    BY <2>1, <2>2 DEF IInv, UseInv, Usable
  <2>4. UNCHANGED <<pc, arg, held>>
    BY <1>1 DEF BinarySemaphoreCreate, procvars
  <2>5. s \in MutexIds => Bearers(s)' = {}
    BY Zenon, <2>1, <2>3, <2>4 DEF Bearers, InUp, HeldInv
  <2>6. \A t \in Sems : Bearers(t)' = Bearers(t)
    BY <2>4 DEF Bearers, InUp
  <2>7. \A t \in Sems : t # s => created'[t] = created[t] /\ value'[t] = value[t]
    BY Zenon, <2>1 DEF IInv, TypeOK
  <2>8. s \in MutexIds => value'[s] = 1
    BY <2>1 DEF IInv, TypeOK
  <2> QED
    BY <2>5, <2>6, <2>7, <2>8, MutexInSems DEF MutualExclusion
<1>2. ASSUME NEW p \in Procs, NEW s \in Sems, CallDown(p, s) PROVE MutualExclusion'
  BY <1>2, MutexFrame DEF CallDown, procvars, semvars, Running, At, Goto, InUp, IInv, TypeOK
<1>3. ASSUME NEW p \in Procs, NEW s \in Sems, CallUp(p, s) PROVE MutualExclusion'
  <2>1. /\ UNCHANGED <<created, value>> /\ pc' = [pc EXCEPT ![p] = "upAcquire"]
        /\ arg' = [arg EXCEPT ![p] = s] /\ pc[p] = "user"
        /\ held' = [held EXCEPT ![s] = held[s] \ {p}]
    BY Zenon, <1>3 DEF CallUp, Goto, Running, At
  <2>2. s \in MutexIds /\ created[s] => p \in held[s]
    BY Zenon, <1>3 DEF CallUp
  <2>3. ASSUME NEW t \in MutexIds, created[t] PROVE Bearers(t)' = Bearers(t)
    <3>1. t \in Sems
      BY MutexInSems
    <3>2. CASE t = s
      <4>1. \A q \in Procs : q # p => (InUp(q, s)' <=> InUp(q, s)) /\ (q \in held'[s] <=> q \in held[s])
        BY <2>1 DEF InUp, IInv, TypeOK
      <4>2. p \in held[s] /\ InUp(p, s)'
        BY <2>1, <2>2, <2>3, <3>2 DEF InUp, IInv, TypeOK
      <4> QED
        BY Zenon, <2>3, <3>2, <4>1, <4>2 DEF Bearers
    <3>3. CASE t # s
      <4>1. held'[t] = held[t]
        BY <2>1, <3>1, <3>3 DEF IInv, TypeOK
      <4>2. \A q \in Procs : InUp(q, t)' <=> InUp(q, t)
        BY <2>1, <3>3 DEF InUp, IInv, TypeOK
      <4> QED
        BY <4>1, <4>2 DEF Bearers
    <3> QED
      BY <3>2, <3>3
  <2> QED
    BY <2>1, <2>3 DEF MutualExclusion
<1>4. CASE Quiet
  BY <1>4, MutexFrame DEF Quiet, InUp, IInv, TypeOK, semvars
<1>5. ASSUME NEW p \in Procs, DownAcquire(p) PROVE MutualExclusion'
  BY Zenon, <1>5, MutexFrame DEF DownAcquire, procvars, semvars, Running, At, Goto, InUp, IInv, TypeOK
<1>6. ASSUME NEW p \in Procs, DownTake(p) PROVE MutualExclusion'
  <2> DEFINE s == arg[p]
  <2>1. /\ s \in Sems /\ value[s] = 1 /\ created[s] /\ pc[p] = "downTest"
        /\ value' = [value EXCEPT ![s] = 0] /\ UNCHANGED <<created, arg>>
        /\ held' = [held EXCEPT ![s] = held[s] \union {p}]
        /\ pc' = [pc EXCEPT ![p] = "user"]
    BY Zenon, <1>6 DEF DownTake, MayTake, Running, At, Goto, IInv, TypeOK
  <2>2. \A q \in Procs : \A t \in Sems : InUp(q, t)' <=> InUp(q, t)
    BY <2>1 DEF InUp, IInv, TypeOK
  <2>3. ASSUME NEW t \in MutexIds, created[t], t # s PROVE Bearers(t)' = Bearers(t) /\ value'[t] = value[t]
    BY Zenon, <2>1, <2>2, <2>3, MutexInSems DEF Bearers, IInv, TypeOK
  <2>4. s \in MutexIds => Bearers(s)' = {p} /\ value'[s] = 0
    <3> SUFFICES ASSUME s \in MutexIds PROVE Bearers(s)' = {p} /\ value'[s] = 0
      OBVIOUS
    <3>1. Bearers(s) = {}
      BY Zenon, <2>1 DEF MutualExclusion
    <3>2. \A q \in Procs : q \notin held[s] /\ ~InUp(q, s)
      BY <3>1 DEF Bearers
    <3>3. held'[s] = held[s] \union {p} /\ value'[s] = 0
      BY Zenon, <2>1 DEF IInv, TypeOK
    <3> QED
      BY Zenon, <2>1, <2>2, <3>2, <3>3 DEF Bearers
  <2> QED
    BY <2>1, <2>3, <2>4 DEF MutualExclusion
<1>7. ASSUME NEW p \in Procs, DownWait(p) PROVE MutualExclusion'
  BY <1>7, MutexFrame DEF DownWait, procvars, semvars, Running, At, Goto, InUp, IInv, TypeOK
<1>8. ASSUME NEW p \in Procs, DownNotCreated(p) PROVE MutualExclusion'
  BY Zenon, <1>8, MutexFrame DEF DownNotCreated, procvars, semvars, Running, At, Goto, InUp, IInv, TypeOK
<1>9. ASSUME NEW p \in Procs, SleepAcquire(p) PROVE MutualExclusion'
  BY Zenon, <1>9, MutexFrame DEF SleepAcquire, procvars, semvars, Running, At, Goto, InUp, IInv, TypeOK
<1>10. ASSUME NEW p \in Procs, SleepSwitch(p) PROVE MutualExclusion'
  BY Zenon, <1>10, MutexFrame DEF SleepSwitch, procvars, semvars, Running, At, Goto, InUp, IInv, TypeOK
<1>11. ASSUME NEW p \in Procs, DownReacquire(p) PROVE MutualExclusion'
  BY Zenon, <1>11, MutexFrame DEF DownReacquire, procvars, semvars, Running, At, Goto, InUp, IInv, TypeOK
<1>12. ASSUME NEW p \in Procs, UpAcquire(p) PROVE MutualExclusion'
  BY Zenon, <1>12, MutexFrame DEF UpAcquire, procvars, semvars, Running, At, Goto, InUp, IInv, TypeOK
<1>13. ASSUME NEW p \in Procs, UpLock(p) PROVE MutualExclusion'
  BY <1>13, MutexFrame DEF UpLock, procvars, semvars, Running, At, Goto, InUp, IInv, TypeOK
<1>14. ASSUME NEW p \in Procs, UpNotCreated(p) PROVE MutualExclusion'
  <2>1. /\ UNCHANGED <<created, value, held, arg>> /\ ~created[arg[p]]
        /\ pc' = [pc EXCEPT ![p] = "user"]
    BY Zenon, <1>14 DEF UpNotCreated, Goto
  <2>2. ASSUME NEW t \in MutexIds, created[t] PROVE Bearers(t)' = Bearers(t)
    BY Zenon, <2>1, <2>2 DEF Bearers, InUp, IInv, TypeOK
  <2> QED
    BY <2>1, <2>2 DEF MutualExclusion
<1>15. ASSUME NEW p \in Procs, UpScan(p) PROVE MutualExclusion'
  <2> DEFINE s == arg[p]
  <2>1. /\ s \in Sems /\ pc[p] = "upScan" /\ created[s]
        /\ value' = [value EXCEPT ![s] = 1] /\ UNCHANGED <<created, arg, held>>
        /\ pc' = [pc EXCEPT ![p] = "user"]
    BY Zenon, <1>15 DEF UpScan, At, Goto, IInv, TypeOK, UseInv
  <2>2. \A t \in Sems : \A q \in Procs : q # p \/ t # s => (InUp(q, t)' <=> InUp(q, t))
    BY Zenon, <2>1 DEF InUp, IInv, TypeOK
  <2>3. ASSUME NEW t \in MutexIds, created[t], t # s PROVE Bearers(t)' = Bearers(t) /\ value'[t] = value[t]
    BY Zenon, <2>1, <2>2, <2>3, MutexInSems DEF Bearers, IInv, TypeOK
  <2>4. s \in MutexIds => Bearers(s)' = {} /\ value'[s] = 1
    <3> SUFFICES ASSUME s \in MutexIds PROVE Bearers(s)' = {} /\ value'[s] = 1
      OBVIOUS
    <3>1. InUp(p, s) /\ p \notin held[s]
      BY Zenon, <2>1 DEF InUp, HeldInv
    <3>2. \A q \in Procs : q # p => q \notin held[s] /\ ~InUp(q, s)
      BY Zenon, <2>1, <3>1 DEF Bearers, MutualExclusion
    <3>3. ~InUp(p, s)'
      BY Zenon, <2>1 DEF InUp, IInv, TypeOK
    <3>4. value'[s] = 1
      BY Zenon, <2>1 DEF IInv, TypeOK
    <3> QED
      BY Zenon, <2>1, <2>2, <3>1, <3>2, <3>3, <3>4 DEF Bearers
  <2> QED
    BY <2>1, <2>3, <2>4 DEF MutualExclusion
<1> QED
  BY NextCases, <1>0, <1>1, <1>2, <1>3, <1>4, <1>5, <1>6, <1>7, <1>8, <1>9, <1>10,
     <1>11, <1>12, <1>13, <1>14, <1>15 DEF KernelStep

(* A semaphore used as a lock is held by at most one thread, and its token *)
(* is never lost, on any number of CPUs and through kills and exits: what  *)
(* down and up promise the users of BB.mutex, semaphore.s1 and             *)
(* threadTest.lock.                                                        *)
THEOREM MutexCorrect == Spec => []MutualExclusion
<1>1. Init => IInv /\ HeldInv /\ MutualExclusion
  BY Zenon, InvInit, MutexInSems DEF Init, HeldInv, MutualExclusion, InUp
<1>2. IInv /\ HeldInv /\ MutualExclusion /\ [Next]_vars
        => (IInv /\ HeldInv /\ MutualExclusion)'
  BY InvStep, HeldStep, MutexStep
<1> QED
  BY <1>1, <1>2, PTL DEF Spec

-----------------------------------------------------------------------------
(* Who is on a CPU, who owns ptable.lock and who is being preempted.       *)
CpuInv ==
  /\ ptlock # Free => ptlock \in oncpu
  /\ yielding \subseteq oncpu
  /\ \A p \in Procs :
       /\ pc[p] \in Locking => p \in oncpu
       /\ p \in yielding => ptlock # p /\ pc[p] \in Preemptible
       /\ pc[p] \in {"sleepSwitch", "upScan"} => ptlock = p

(* Every step of Next keeps CpuInv.                                        *)
LEMMA CpuStep == IInv /\ IInv' /\ CpuInv /\ [Next]_vars => CpuInv'
<1> SUFFICES ASSUME IInv, IInv', CpuInv, [Next]_vars PROVE CpuInv'
  OBVIOUS
<1> USE Ids DEF CpuInv, IInv, TypeOK, Locking, Preemptible, Goto, Running, At
<1>1. ASSUME NEW p \in Procs, NEW v \in {0, 1}, BinarySemaphoreCreate(p, v) PROVE CpuInv'
  BY Zenon, <1>1 DEF BinarySemaphoreCreate, procvars, semvars
<1>2. ASSUME NEW p \in Procs, NEW s \in Sems, CallDown(p, s) PROVE CpuInv'
  BY <1>2 DEF CallDown, procvars, semvars
<1>3. ASSUME NEW p \in Procs, NEW s \in Sems, CallUp(p, s) PROVE CpuInv'
  BY <1>3 DEF CallUp, procvars, semvars
<1>4. ASSUME NEW p \in Procs, NEW q \in Procs, Kill(p, q) PROVE CpuInv'
  BY Zenon, <1>4 DEF Kill, procvars, semvars
<1>5. ASSUME NEW p \in Procs, DownAcquire(p) PROVE CpuInv'
  BY <1>5 DEF DownAcquire, procvars, semvars
<1>6. ASSUME NEW p \in Procs, DownTake(p) PROVE CpuInv'
  BY <1>6 DEF DownTake, procvars, semvars
<1>7. ASSUME NEW p \in Procs, DownWait(p) PROVE CpuInv'
  BY <1>7 DEF DownWait, procvars, semvars
<1>8. ASSUME NEW p \in Procs, DownNotCreated(p) PROVE CpuInv'
  BY <1>8 DEF DownNotCreated, procvars, semvars
<1>9. ASSUME NEW p \in Procs, SleepAcquire(p) PROVE CpuInv'
  BY <1>9 DEF SleepAcquire, procvars, semvars
<1>10. ASSUME NEW p \in Procs, SleepSwitch(p) PROVE CpuInv'
  BY <1>10 DEF SleepSwitch, procvars, semvars
<1>11. ASSUME NEW p \in Procs, DownReacquire(p) PROVE CpuInv'
  BY <1>11 DEF DownReacquire, procvars, semvars
<1>12. ASSUME NEW p \in Procs, UpAcquire(p) PROVE CpuInv'
  BY <1>12 DEF UpAcquire, procvars, semvars
<1>13. ASSUME NEW p \in Procs, UpLock(p) PROVE CpuInv'
  BY <1>13 DEF UpLock, procvars, semvars
<1>14. ASSUME NEW p \in Procs, UpNotCreated(p) PROVE CpuInv'
  BY <1>14 DEF UpNotCreated, procvars, semvars
<1>15. ASSUME NEW p \in Procs, UpScan(p) PROVE CpuInv'
  BY <1>15 DEF UpScan, procvars, semvars
<1>16. ASSUME NEW p \in Procs, Exit(p) PROVE CpuInv'
  BY Zenon, <1>16 DEF Exit, procvars, semvars
<1>17. ASSUME NEW p \in Procs, Dispatch(p) PROVE CpuInv'
  BY <1>17 DEF Dispatch, procvars, semvars
<1>18. ASSUME NEW p \in Procs, Resume(p) PROVE CpuInv'
  BY <1>18 DEF Resume, procvars, semvars
<1>19. ASSUME NEW p \in Procs, TimerTrap(p) PROVE CpuInv'
  BY Zenon, <1>19 DEF TimerTrap, procvars, semvars
<1>20. ASSUME NEW p \in Procs, Yield(p) PROVE CpuInv'
  BY Zenon, <1>20 DEF Yield, procvars, semvars
<1>21. CASE UNCHANGED vars
  BY Zenon, <1>21 DEF vars, procvars, semvars
<1> HIDE Ids DEF CpuInv, IInv, TypeOK, Locking, Preemptible, Goto, Running, At
<1> QED
  BY Zenon, <1>1, <1>2, <1>3, <1>4, <1>5, <1>6, <1>7, <1>8, <1>9, <1>10, <1>11,
     <1>12, <1>13, <1>14, <1>15, <1>16, <1>17, <1>18, <1>19, <1>20, <1>21
  DEF Next, KernelStep, UserCall, Schedule

(* No thread is off its CPU, or about to wait for a semaphore's lock, with *)
(* a spin lock held: sched() never panics with "sched locks".              *)
THEOREM SchedLocksCorrect == Spec => []SchedLocks
<1>1. Init => IInv /\ CpuInv
  BY Zenon, InvInit DEF Init, CpuInv, Locking
<1>2. IInv /\ CpuInv /\ [Next]_vars => (IInv /\ CpuInv)'
  BY InvStep, CpuStep
<1>3. IInv /\ CpuInv => SchedLocks
  BY DEF IInv, TypeOK, CpuInv, LockInv, SchedLocks, Locking, Preemptible
<1> QED
  BY <1>1, <1>2, <1>3, PTL DEF Spec

==============================================================================
