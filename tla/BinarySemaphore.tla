--------------------------- MODULE BinarySemaphore ---------------------------
(***************************************************************************)
(* The kernel's binary semaphores (proc.c: binary_semaphore_create, _down  *)
(* and _up) together with the parts of the kernel they run on: sleep(),    *)
(* sched(), scheduler(), yield(), kill() and what exit() does to the       *)
(* threads of a process.                                                   *)
(*                                                                         *)
(* A thread moves between the labels of pc; every acquire() of a           *)
(* semaphore's spin lock or of ptable.lock is a step of its own, so that   *)
(* all interleavings of the critical sections of two CPUs are explored.    *)
(* A thread takes steps only while it is on a CPU, whatever p->state says: *)
(* exit() may mark a thread ZOMBIE that is still executing elsewhere.      *)
(*                                                                         *)
(* Threads are the occupied slots of ptable.proc, in table order.  A       *)
(* semaphore is used in one of two ways: those in MutexIds are created     *)
(* with value 1 and only their holder calls up (BB.mutex, semaphore.s1,    *)
(* threadTest.lock); any thread may call up on the others (cupsem,         *)
(* semaphore.s2).                                                          *)
(***************************************************************************)
EXTENDS Integers, FiniteSets

CONSTANTS NProc,      \* occupied slots of ptable.proc
          NSem,       \* size of semtable.binary_semaphores (128 in the code)
          NCPU,       \* number of CPUs
          Pid,        \* Pid[p]: the process that thread p belongs to
          MutexIds,   \* semaphores used as locks
          MaxCreates, \* bound: calls of binary_semaphore_create
          MaxLag,     \* bound: how far below zero a queue position may fall
          Exiters,    \* threads whose program calls exit()
          Killers     \* threads whose program calls kill()

Procs == 0 .. NProc-1
Sems  == 0 .. NSem-1
Free  == -1           \* a lock nobody holds; also waiting_for_semaphore = -1

ASSUME ConstantsAssumption ==
  /\ NProc \in Nat \ {0} /\ NSem \in Nat \ {0} /\ NCPU \in Nat \ {0}
  /\ Pid \in [Procs -> Nat]
  /\ MutexIds \subseteq Sems
  /\ MaxCreates \in Nat /\ MaxLag \in Nat
  /\ Exiters \subseteq Procs /\ Killers \subseteq Procs

VARIABLES
  state,    \* p->state
  killed,   \* p->killed
  wf,       \* p->waiting_for_semaphore
  pos,      \* p->sem_queue_pos
  pc,       \* where p is in the kernel
  arg,      \* binary_semaphore_ID of p's current call
  oncpu,    \* the threads some CPU is executing
  yielding, \* the ones a timer interrupt has sent into yield()
  ptlock,   \* holder of ptable.lock
  semlock,  \* holder of semtable.semlocks[s]
  created, value, waiting,  \* the fields of struct b_semaphore
  held      \* history: threads between a successful down and the next up

procvars == <<state, killed, wf, pos, pc, arg, oncpu, yielding>>
semvars  == <<semlock, created, value, waiting, held>>
vars     == <<procvars, ptlock, semvars>>

PCs == {"user", "downAcquire", "downTest", "sleepAcquire", "sleepSwitch",
        "sleepReturn", "downReacquire", "upAcquire", "upTest", "upScan"}

Init ==
  /\ state = [p \in Procs |-> "RUNNABLE"]
  /\ killed = [p \in Procs |-> FALSE]
  /\ wf = [p \in Procs |-> -1]
  /\ pos = [p \in Procs |-> 0]
  /\ pc = [p \in Procs |-> "user"]
  /\ arg = [p \in Procs |-> 0]
  /\ oncpu = {}
  /\ yielding = {}
  /\ ptlock = Free
  /\ semlock = [s \in Sems |-> Free]
  /\ created = [s \in Sems |-> FALSE]
  /\ value = [s \in Sems |-> 0]
  /\ waiting = [s \in Sems |-> 0]
  /\ held = [s \in Sems |-> {}]

(***************************************************************************)
(* A thread that executes at a label: it is on a CPU, not still inside     *)
(* sched() (where it owns the ptable.lock that the scheduler took for it)  *)
(* and not on its way into yield().                                        *)
(***************************************************************************)
At(p, label) == p \in oncpu /\ pc[p] = label
Running(p, label) == At(p, label) /\ ptlock # p /\ p \notin yielding
Goto(p, label) == pc' = [pc EXCEPT ![p] = label]

(***************************************************************************)
(* binary_semaphore_create.  semtable.lock covers the whole function and   *)
(* nothing else takes it, so the call is one step.  A program uses an id   *)
(* only after create returned it.                                          *)
(***************************************************************************)
NCreated == Cardinality({s \in Sems : created[s]})

BinarySemaphoreCreate(p, initial_value) ==
  /\ Running(p, "user") /\ ~killed[p]
  /\ NCreated < MaxCreates
  /\ \E s \in Sems :
       /\ ~created[s] /\ \A r \in Sems : r < s => created[r]
       /\ s \in MutexIds => initial_value = 1
       /\ semlock' = [semlock EXCEPT ![s] = Free]
       /\ created' = [created EXCEPT ![s] = TRUE]
       /\ value' = [value EXCEPT ![s] = initial_value]
  /\ UNCHANGED <<procvars, ptlock, waiting, held>>

(* The ids a program passes to down and up: ones that create returned, or, *)
(* once no more will be created, any other (the calls then return -1).     *)
Usable(s) == created[s] \/ NCreated = MaxCreates

-----------------------------------------------------------------------------
(* binary_semaphore_down *)

CallDown(p, s) ==
  /\ Running(p, "user") /\ ~killed[p]
  /\ Usable(s) /\ p \notin held[s]
  /\ arg' = [arg EXCEPT ![p] = s]
  /\ Goto(p, "downAcquire")
  /\ UNCHANGED <<state, killed, wf, pos, oncpu, yielding, ptlock, semvars>>

DownAcquire(p) ==
  LET s == arg[p] IN
  /\ Running(p, "downAcquire")
  /\ semlock[s] = Free
  /\ semlock' = [semlock EXCEPT ![s] = p]
  /\ IF waiting[s] # 0
       THEN /\ waiting' = [waiting EXCEPT ![s] = @ + 1]
            /\ pos' = [pos EXCEPT ![p] = waiting[s] + 1]
       ELSE UNCHANGED <<waiting, pos>>
  /\ Goto(p, "downTest")
  /\ UNCHANGED <<state, killed, wf, arg, oncpu, yielding, ptlock, created, value, held>>

(* Mutant: the value is not tested.                                        *)
MayTakeIgnoresValue(p, s) == pos[p] = 0
MayTake(p, s) == value[s] # 0 /\ pos[p] = 0

DownTake(p) ==
  LET s == arg[p] IN
  /\ Running(p, "downTest")
  /\ created[s] /\ MayTake(p, s)
  /\ value' = [value EXCEPT ![s] = 0]
  /\ wf' = [wf EXCEPT ![p] = -1]
  /\ semlock' = [semlock EXCEPT ![s] = Free]
  /\ held' = [held EXCEPT ![s] = @ \union {p}]
  /\ Goto(p, "user")
  /\ UNCHANGED <<state, killed, pos, arg, oncpu, yielding, ptlock, created, waiting>>

DownWait(p) ==
  LET s == arg[p] IN
  /\ Running(p, "downTest")
  /\ created[s] /\ ~MayTake(p, s)
  /\ IF pos[p] = 0
       THEN /\ waiting' = [waiting EXCEPT ![s] = @ + 1]
            /\ pos' = [pos EXCEPT ![p] = waiting[s] + 1]
       ELSE UNCHANGED <<waiting, pos>>
  /\ wf' = [wf EXCEPT ![p] = s]
  /\ Goto(p, "sleepAcquire")
  /\ UNCHANGED <<state, killed, arg, oncpu, yielding, ptlock, semlock, created, value, held>>

DownNotCreated(p) ==
  /\ Running(p, "downTest")
  /\ ~created[arg[p]]
  /\ semlock' = [semlock EXCEPT ![arg[p]] = Free]
  /\ Goto(p, "user")
  /\ UNCHANGED <<state, killed, wf, pos, arg, oncpu, yielding, ptlock,
                 created, value, waiting, held>>

-----------------------------------------------------------------------------
(* sleep(sem, &semlocks[s]), called by down with the semaphore locked *)

SleepAcquire(p) ==
  /\ Running(p, "sleepAcquire")
  /\ ptlock = Free
  /\ ptlock' = p
  /\ Goto(p, "sleepSwitch")
  /\ UNCHANGED <<state, killed, wf, pos, arg, oncpu, yielding, semvars>>

(* Mutant: sleep() without the release of lk.                              *)
SleepSwitchKeepsLock(p) ==
  /\ At(p, "sleepSwitch") /\ ptlock = p
  /\ state' = [state EXCEPT ![p] = "SLEEPING"]
  /\ oncpu' = oncpu \ {p}
  /\ ptlock' = Free
  /\ Goto(p, "sleepReturn")
  /\ UNCHANGED <<killed, wf, pos, arg, yielding, semvars>>

(* release(lk), p->state = SLEEPING, sched(): the scheduler the CPU        *)
(* switches to releases ptable.lock or hands it to the next thread.        *)
SleepSwitch(p) ==
  /\ At(p, "sleepSwitch") /\ ptlock = p
  /\ semlock' = [semlock EXCEPT ![arg[p]] = Free]
  /\ state' = [state EXCEPT ![p] = "SLEEPING"]
  /\ oncpu' = oncpu \ {p}
  /\ ptlock' = Free
  /\ Goto(p, "sleepReturn")
  /\ UNCHANGED <<killed, wf, pos, arg, yielding, created, value, waiting, held>>

DownReacquire(p) ==
  LET s == arg[p] IN
  /\ Running(p, "downReacquire")
  /\ semlock[s] = Free
  /\ semlock' = [semlock EXCEPT ![s] = p]
  /\ Goto(p, "downTest")
  /\ UNCHANGED <<state, killed, wf, pos, arg, oncpu, yielding, ptlock,
                 created, value, waiting, held>>

-----------------------------------------------------------------------------
(* binary_semaphore_up *)

CallUp(p, s) ==
  /\ Running(p, "user") /\ ~killed[p]
  /\ Usable(s)
  /\ s \in MutexIds /\ created[s] => p \in held[s]
  /\ \A q \in Procs : pos[q] > -MaxLag
  /\ held' = [held EXCEPT ![s] = @ \ {p}]
  /\ arg' = [arg EXCEPT ![p] = s]
  /\ Goto(p, "upAcquire")
  /\ UNCHANGED <<state, killed, wf, pos, oncpu, yielding, ptlock,
                 semlock, created, value, waiting>>

UpAcquire(p) ==
  LET s == arg[p] IN
  /\ Running(p, "upAcquire")
  /\ semlock[s] = Free
  /\ semlock' = [semlock EXCEPT ![s] = p]
  /\ Goto(p, "upTest")
  /\ UNCHANGED <<state, killed, wf, pos, arg, oncpu, yielding, ptlock,
                 created, value, waiting, held>>

UpLock(p) ==
  /\ Running(p, "upTest")
  /\ created[arg[p]]
  /\ ptlock = Free
  /\ ptlock' = p
  /\ Goto(p, "upScan")
  /\ UNCHANGED <<state, killed, wf, pos, arg, oncpu, yielding, semvars>>

UpNotCreated(p) ==
  /\ Running(p, "upTest")
  /\ ~created[arg[p]]
  /\ semlock' = [semlock EXCEPT ![arg[p]] = Free]
  /\ Goto(p, "user")
  /\ UNCHANGED <<state, killed, wf, pos, arg, oncpu, yielding, ptlock,
                 created, value, waiting, held>>

(* The threads that up moves forward, and the one it wakes: the last of    *)
(* the table whose position becomes 0, if it is asleep.                    *)
(* Mutant: only sleeping threads move forward.                             *)
WaitersAsleep(p, s) == {q \in Procs \ {p} : wf[q] = s /\ state[q] = "SLEEPING"}
Waiters(p, s) == {q \in Procs \ {p} : wf[q] = s}

Firsts(p, s) == {q \in Waiters(p, s) : pos[q] = 1}

(* Mutants: the position is tested before it is decremented; a thread is   *)
(* made RUNNABLE whatever its state.                                       *)
WokenLate(p, s) == {q \in Waiters(p, s) : pos[q] = 0 /\ state[q] = "SLEEPING"}
WokenDead(p, s) == {q \in Firsts(p, s) : \A r \in Firsts(p, s) : r <= q}
Woken(p, s) == {q \in Firsts(p, s) : /\ \A r \in Firsts(p, s) : r <= q
                                     /\ state[q] = "SLEEPING"}

WaitingAfterUp(n) == IF n > 0 THEN n - 1 ELSE n

UpScan(p) ==
  LET s == arg[p] IN
  /\ At(p, "upScan") /\ ptlock = p
  /\ pos' = [q \in Procs |-> IF q \in Waiters(p, s) THEN pos[q] - 1 ELSE pos[q]]
  /\ waiting' = [waiting EXCEPT ![s] = WaitingAfterUp(@)]
  /\ value' = [value EXCEPT ![s] = 1]
  /\ state' = [q \in Procs |->
                 IF q \in Woken(p, s) THEN "RUNNABLE" ELSE state[q]]
  /\ ptlock' = Free
  /\ semlock' = [semlock EXCEPT ![s] = Free]
  /\ Goto(p, "user")
  /\ UNCHANGED <<killed, wf, arg, oncpu, yielding, created, held>>

-----------------------------------------------------------------------------
(* Scheduling *)

(* scheduler(): a CPU with nothing to run takes ptable.lock, picks a       *)
(* RUNNABLE thread and switches to it; the thread wakes inside sched() and *)
(* now owns the lock.                                                      *)
Dispatch(p) ==
  /\ p \notin oncpu /\ Cardinality(oncpu) < NCPU
  /\ ptlock = Free
  /\ state[p] = "RUNNABLE"
  /\ state' = [state EXCEPT ![p] = "RUNNING"]
  /\ oncpu' = oncpu \union {p}
  /\ ptlock' = p
  /\ UNCHANGED <<killed, wf, pos, pc, arg, yielding, semvars>>

(* The end of yield(), of forkret() and of sleep(): release ptable.lock.   *)
Resume(p) ==
  /\ p \in oncpu /\ ptlock = p
  /\ pc[p] \notin {"sleepSwitch", "upScan"}
  /\ ptlock' = Free
  /\ Goto(p, IF pc[p] = "sleepReturn" THEN "downReacquire" ELSE pc[p])
  /\ UNCHANGED <<state, killed, wf, pos, arg, oncpu, yielding, semvars>>

(* The timer interrupt: trap() tests proc->state and calls yield(), which  *)
(* then waits for ptable.lock.  Interrupts are off while a spin lock is    *)
(* held (pushcli), so a thread is preempted only between critical sections. *)
Preemptible == {"user", "downAcquire", "downReacquire", "upAcquire"}

TimerTrap(p) ==
  /\ p \in oncpu \ yielding /\ ptlock # p
  /\ pc[p] \in Preemptible
  /\ state[p] = "RUNNING"
  /\ yielding' = yielding \union {p}
  /\ UNCHANGED <<state, killed, wf, pos, pc, arg, oncpu, ptlock, semvars>>

Yield(p) ==
  /\ p \in yielding /\ ptlock = Free
  /\ state' = [state EXCEPT ![p] = "RUNNABLE"]
  /\ oncpu' = oncpu \ {p}
  /\ yielding' = yielding \ {p}
  /\ UNCHANGED <<killed, wf, pos, pc, arg, ptlock, semvars>>

(* kill(pid): only the first slot of the table with that pid.              *)
Kill(p, q) ==
  /\ p \in Killers
  /\ Running(p, "user") /\ ~killed[p]
  /\ ptlock = Free
  /\ \A r \in Procs : Pid[r] = Pid[q] => q <= r
  /\ killed' = [killed EXCEPT ![q] = TRUE]
  /\ state' = [state EXCEPT ![q] = IF @ = "SLEEPING" THEN "RUNNABLE" ELSE @]
  /\ UNCHANGED <<wf, pos, pc, arg, oncpu, yielding, ptlock, semvars>>

(* exit(): every thread of the process becomes a ZOMBIE, wherever it is;   *)
(* only the caller leaves its CPU.  Called by the program, or on the way   *)
(* back to user space by a killed thread (trap()).                         *)
Exit(p) ==
  /\ Running(p, "user")
  /\ killed[p] \/ p \in Exiters
  /\ ptlock = Free
  /\ state' = [q \in Procs |-> IF Pid[q] = Pid[p] THEN "ZOMBIE" ELSE state[q]]
  /\ oncpu' = oncpu \ {p}
  /\ UNCHANGED <<killed, wf, pos, pc, arg, yielding, ptlock, semvars>>

-----------------------------------------------------------------------------
(* What a thread on a CPU does next when it is inside the kernel.          *)
KernelStep(p) ==
  \/ DownAcquire(p) \/ DownTake(p) \/ DownWait(p) \/ DownNotCreated(p)
  \/ SleepAcquire(p) \/ SleepSwitch(p) \/ DownReacquire(p)
  \/ UpAcquire(p) \/ UpLock(p) \/ UpNotCreated(p) \/ UpScan(p)

UserCall(p) ==
  \/ \E v \in {0, 1} : BinarySemaphoreCreate(p, v)
  \/ \E s \in Sems : CallDown(p, s) \/ CallUp(p, s)
  \/ \E q \in Procs : Kill(p, q)
  \/ Exit(p)

Schedule(p) == Dispatch(p) \/ Resume(p) \/ TimerTrap(p) \/ Yield(p)

Next == \E p \in Procs : KernelStep(p) \/ UserCall(p) \/ Schedule(p)

Spec == Init /\ [][Next]_vars

(***************************************************************************)
(* Fairness: a CPU keeps executing instructions (a thread that is again    *)
(* and again at a step of the kernel takes it: a clock tick is much longer *)
(* than a step), a timer interrupt stays pending until interrupts are on,  *)
(* and scheduler() scans the whole table in turn.  Nothing is assumed of   *)
(* what programs call.  Only for NCPU = 1: acquire() does not promise a    *)
(* spinning CPU its turn.                                                  *)
(***************************************************************************)
Fairness == \A p \in Procs :
  /\ SF_vars(KernelStep(p)) /\ SF_vars(Dispatch(p))
  /\ WF_vars(Resume(p)) /\ SF_vars(TimerTrap(p)) /\ WF_vars(Yield(p))

FairSpec == Spec /\ Fairness

-----------------------------------------------------------------------------
(* The calls as atomic operations: everything down does before it takes    *)
(* the semaphore, queueing and sleeping included, is waiting.              *)
CallOf(label) ==
  CASE label = "user" -> "none"
    [] label \in {"upAcquire", "upTest", "upScan"} -> "up"
    [] OTHER -> "down"

Atomic == INSTANCE AtomicBinarySemaphore
            WITH call <- [p \in Procs |-> CallOf(pc[p])], on <- arg

(* binary_semaphore_create, _down and _up are atomic for the programs that *)
(* call them: the value a semaphore takes through any interleaving of      *)
(* spin-locked sections, sleeps, kills and exits is the value of a         *)
(* sequence of whole calls.                                                *)
Linearizable == Atomic!Spec

-----------------------------------------------------------------------------
(* Properties *)

States == {"SLEEPING", "RUNNABLE", "RUNNING", "ZOMBIE"}

(* Every field keeps the type its declaration in proc.h gives it.          *)
TypeOK ==
  /\ state \in [Procs -> States]
  /\ killed \in [Procs -> BOOLEAN]
  /\ wf \in [Procs -> Sems \union {-1}]
  /\ pos \in [Procs -> Int]
  /\ pc \in [Procs -> PCs]
  /\ arg \in [Procs -> Sems]
  /\ oncpu \in SUBSET Procs /\ yielding \in SUBSET Procs
  /\ ptlock \in Procs \union {Free}
  /\ semlock \in [Sems -> Procs \union {Free}]
  /\ created \in [Sems -> BOOLEAN]
  /\ value \in [Sems -> {0, 1}]
  /\ waiting \in [Sems -> Nat]
  /\ held \in [Sems -> SUBSET Procs]

(* p has entered binary_semaphore_down(s) and has not yet returned.        *)
InDown(p, s) ==
  /\ arg[p] = s
  /\ pc[p] \in {"downTest", "sleepAcquire", "sleepSwitch", "sleepReturn",
                "downReacquire"}

(* p is inside binary_semaphore_up(s).                                     *)
InUp(p, s) == arg[p] = s /\ pc[p] \in {"upAcquire", "upTest", "upScan"}

Queued(s) == {p \in Procs : InDown(p, s) /\ pos[p] > 0}

(* The queue of a semaphore has no gaps and no ties: the positions of the  *)
(* threads waiting in binary_semaphore_down are exactly 1 .. sem->waiting, *)
(* although every up renumbers them one thread at a time and exit() leaves *)
(* dead threads in the queue.                                              *)
QueueInv == \A s \in Sems :
  /\ \A p \in Queued(s) : pos[p] <= waiting[s]
  /\ \A p, q \in Queued(s) : pos[p] = pos[q] => p = q
  /\ \A i \in 1 .. waiting[s] : \E p \in Queued(s) : pos[p] = i

(* A semaphore used as a lock is one token: it is in the semaphore (value  *)
(* 1), or with exactly one thread, which is in its critical section or     *)
(* inside the up that gives it back.  This is mutual exclusion, and that   *)
(* no interleaving of down, up, kill and exit loses the token.             *)
Bearers(s) == {p \in Procs : p \in held[s] \/ (s \in MutexIds /\ InUp(p, s))}

MutualExclusion == \A s \in MutexIds : created[s] =>
  /\ \A p, q \in Bearers(s) : p = q
  /\ value[s] = 1 <=> Bearers(s) = {}

(* No wakeup is lost while threads queue: when the semaphore is free and   *)
(* threads have positions, a thread whose turn has come (position 0) is    *)
(* not asleep, so that somebody will take the semaphore or has died.       *)
HeadAwake == \A s \in Sems :
  semlock[s] = Free /\ value[s] = 1 /\ waiting[s] > 0 =>
    \E p \in Procs : InDown(p, s) /\ pos[p] = 0 /\ state[p] # "SLEEPING"

(* sched() panics with "sched locks" unless ptable.lock is the only spin   *)
(* lock held: no thread that is off its CPU owns a spin lock, and a thread *)
(* never waits for a semaphore's lock while it owns another one.           *)
SchedLocks ==
  /\ ptlock # Free => ptlock \in oncpu
  /\ \A s \in Sems : semlock[s] # Free =>
       /\ semlock[s] \in oncpu
       /\ arg[semlock[s]] = s
       /\ pc[semlock[s]] \notin Preemptible

(* With one CPU, exit() leaves no thread of the process executing.         *)
ZombieOffCpu == \A p \in Procs : state[p] = "ZOMBIE" => p \notin oncpu

(* "An exited process remains in the zombie state until its parent calls   *)
(* wait()" (proc.c:179): no step of sleep(), yield(), up or kill() takes   *)
(* a thread that exit() has marked back to another state.                  *)
ZombieStays ==
  [][\A p \in Procs : state[p] = "ZOMBIE" => state'[p] = "ZOMBIE"]_vars

(* Threads do not overtake each other in the queue: whatever up, down,     *)
(* kill and exit do, a thread that is behind another stays behind it until *)
(* the other's turn has come.                                              *)
OrderKept ==
  [][\A s \in Sems : \A p, q \in Queued(s) :
        pos[p] < pos[q] /\ p \in Queued(s)' => q \in Queued(s)' /\ pos'[p] < pos'[q]]_vars

(* What the comment of sleep() promises its callers (proc.c:420-423): "we  *)
(* won't miss any wakeup".  A semaphore that is up and unlocked has no     *)
(* thread asleep in down whose turn has already come.                      *)
NoMissedWakeup == \A s \in Sems : \A p \in Procs :
  ~(/\ semlock[s] = Free /\ value[s] = 1
    /\ InDown(p, s) /\ pos[p] <= 0 /\ state[p] = "SLEEPING")

(* A thread that is about to lock a semaphore gets the lock: critical      *)
(* sections of down and up, sleep() inside them included, always end.      *)
LockAcquired == \A p \in Procs :
  pc[p] \in {"downAcquire", "downReacquire", "upAcquire"} ~>
    \/ pc[p] \notin {"downAcquire", "downReacquire", "upAcquire"}
    \/ state[p] = "ZOMBIE"

==============================================================================
