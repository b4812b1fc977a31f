------------------------------ MODULE ProcTable ------------------------------
(***************************************************************************)
(* The life of processes and kernel threads in ptable (proc.c): fork,      *)
(* thread_create, exit, wait, thread_join, thread_exit and kill on one     *)
(* CPU.  A section that holds ptable.lock is one step, since interrupts    *)
(* are off in it; the timer may preempt the thread between two steps.      *)
(* What several CPUs add is in BinarySemaphore.                            *)
(*                                                                         *)
(* The threads of a process share its pid; the first one (the main thread, *)
(* isthread = 0) is the parent of the others and counts them, itself       *)
(* included, in threadnum.                                                 *)
(***************************************************************************)
EXTENDS Integers, FiniteSets

CONSTANTS NProc,    \* size of ptable.proc (64 in the code)
          MaxPid,   \* bound: the pids handed out
          Allowed   \* <<call, role>>: the calls that programs make in main
                    \* threads ("main"), in other threads ("thread")

ASSUME TableAssumption == NProc \in Nat \ {0} /\ MaxPid \in Nat

VARIABLES state, pid, parent, isthread, threadnum, isjoined, killed, chan,
          tid,      \* thread_id; of a main thread, the last one handed out
          nextpid,
          cur,      \* the slot the CPU executes, or None
          pc,       \* where each thread is
          np        \* the slot that a fork or thread_create is filling

Slots == 0 .. NProc-1
None == -1
InitProc == 0

fields == <<pid, parent, isthread, threadnum, isjoined, killed, tid>>
vars == <<state, fields, chan, nextpid, cur, pc, np>>

(* userinit: slot 0 is the init process.                                   *)
Init ==
  /\ state = [q \in Slots |-> IF q = InitProc THEN "RUNNABLE" ELSE "UNUSED"]
  /\ pid = [q \in Slots |-> IF q = InitProc THEN 1 ELSE 0]
  /\ parent = [q \in Slots |-> None]
  /\ isthread = [q \in Slots |-> FALSE]
  /\ threadnum = [q \in Slots |-> IF q = InitProc THEN 1 ELSE 0]
  /\ isjoined = [q \in Slots |-> FALSE]
  /\ killed = [q \in Slots |-> FALSE]
  /\ tid = [q \in Slots |-> 0]
  /\ chan = [q \in Slots |-> None]
  /\ nextpid = 2
  /\ cur = None
  /\ pc = [q \in Slots |-> "user"]
  /\ np = [q \in Slots |-> None]

Role(p) == IF p = InitProc THEN "init" ELSE IF isthread[p] THEN "thread" ELSE "main"

At(p, label) == cur = p /\ pc[p] = label
Calls(p, call) == At(p, "user") /\ ~killed[p] /\ <<call, Role(p)>> \in Allowed
Goto(p, label) == pc' = [pc EXCEPT ![p] = label]

(* wakeup1 for every channel of a set.                                     *)
Wake(st, chans) ==
  [q \in Slots |-> IF st[q] = "SLEEPING" /\ chan[q] \in chans THEN "RUNNABLE" ELSE st[q]]

MainOf(p) == IF isthread[p] THEN parent[p] ELSE p

-----------------------------------------------------------------------------
(* scheduler() and the timer interrupt.  A thread that wakes up in wait or *)
(* thread_join still holds ptable.lock and is not preempted.               *)

Dispatch(p) ==
  /\ cur = None /\ state[p] = "RUNNABLE"
  /\ state' = [state EXCEPT ![p] = "RUNNING"] /\ cur' = p
  /\ UNCHANGED <<fields, chan, nextpid, pc, np>>

Yield(p) ==
  /\ cur = p /\ pc[p] \notin {"wait", "join"}
  /\ state' = [state EXCEPT ![p] = "RUNNABLE"] /\ cur' = None
  /\ UNCHANGED <<fields, chan, nextpid, pc, np>>

SleepOn(p, c, label) ==
  /\ state' = [state EXCEPT ![p] = "SLEEPING"] /\ chan' = [chan EXCEPT ![p] = c]
  /\ cur' = None /\ Goto(p, label)

-----------------------------------------------------------------------------
(* allocproc, shared by fork and thread_create.  It does not reset         *)
(* isthread, isjoined or thread_id of the slot it reuses.                  *)
AllocProc(p, q, label) ==
  /\ state[q] = "UNUSED" /\ \A r \in Slots : r < q => state[r] # "UNUSED"
  /\ nextpid <= MaxPid
  /\ state' = [state EXCEPT ![q] = "EMBRYO"]
  /\ pid' = [pid EXCEPT ![q] = nextpid] /\ nextpid' = nextpid + 1
  /\ threadnum' = [threadnum EXCEPT ![q] = 1]
  /\ np' = [np EXCEPT ![p] = q] /\ Goto(p, label)
  /\ UNCHANGED <<parent, isthread, isjoined, killed, tid, chan, cur>>

(* kalloc or copyuvm fails: the slot is free again, its pid stays.         *)
AllocFails(p) ==
  /\ cur = p /\ pc[p] \in {"fork", "tc_pid"}
  /\ state' = [state EXCEPT ![np[p]] = "UNUSED"]
  /\ Goto(p, "user") /\ np' = [np EXCEPT ![p] = None]
  /\ UNCHANGED <<fields, chan, nextpid, cur>>

(* The end of fork and thread_create: the slot's thread may be scheduled.  *)
Start(p) ==
  /\ state' = [state EXCEPT ![np[p]] = "RUNNABLE"]
  /\ pc' = [pc EXCEPT ![p] = "user", ![np[p]] = "user"]
  /\ np' = [np EXCEPT ![p] = None]

Fork(p, q) == Calls(p, "fork") /\ AllocProc(p, q, "fork")

ForkParent(p) ==
  /\ At(p, "fork") /\ Goto(p, "fork_run")
  /\ parent' = [parent EXCEPT ![np[p]] = MainOf(p)]
  /\ UNCHANGED <<state, pid, isthread, threadnum, isjoined, killed, tid, chan, nextpid, cur, np>>

ForkRun(p) ==
  /\ At(p, "fork_run") /\ Start(p)
  /\ isthread' = [isthread EXCEPT ![np[p]] = FALSE]
  /\ isjoined' = [isjoined EXCEPT ![np[p]] = FALSE]
  /\ tid' = [tid EXCEPT ![np[p]] = 0]
  /\ UNCHANGED <<pid, parent, threadnum, killed, chan, nextpid, cur>>

ThreadCreate(p, q) == Calls(p, "thread_create") /\ AllocProc(p, q, "tc_pid")

ThreadPid(p) ==
  /\ At(p, "tc_pid") /\ Goto(p, "tc_parent")
  /\ pid' = [pid EXCEPT ![np[p]] = pid[p]]
  /\ UNCHANGED <<state, parent, isthread, threadnum, isjoined, killed, tid, chan, nextpid, cur, np>>

ThreadParent(p) ==
  /\ At(p, "tc_parent") /\ Goto(p, "tc_count")
  /\ parent' = [parent EXCEPT ![np[p]] = MainOf(p)]
  /\ UNCHANGED <<state, pid, isthread, threadnum, isjoined, killed, tid, chan, nextpid, cur, np>>

(* Mutant: the new thread is not counted.                                  *)
ThreadCountNot(p) ==
  /\ At(p, "tc_count") /\ Goto(p, "tc_flag")
  /\ UNCHANGED <<state, fields, chan, nextpid, cur, np>>
ThreadCount(p) ==
  /\ At(p, "tc_count") /\ Goto(p, "tc_flag")
  /\ threadnum' = [threadnum EXCEPT ![parent[np[p]]] = @ + 1]
  /\ UNCHANGED <<state, pid, parent, isthread, isjoined, killed, tid, chan, nextpid, cur, np>>

ThreadFlag(p) ==
  /\ At(p, "tc_flag") /\ Goto(p, "tc_run")
  /\ isthread' = [isthread EXCEPT ![np[p]] = TRUE]
  /\ isjoined' = [isjoined EXCEPT ![np[p]] = FALSE]
  /\ UNCHANGED <<state, pid, parent, threadnum, killed, tid, chan, nextpid, cur, np>>

ThreadRun(p) ==
  /\ At(p, "tc_run") /\ Start(p)
  /\ LET id == tid[parent[np[p]]] + 1 IN
     tid' = [tid EXCEPT ![parent[np[p]]] = id, ![np[p]] = id]
  /\ UNCHANGED <<pid, parent, isthread, threadnum, isjoined, killed, chan, nextpid, cur>>

-----------------------------------------------------------------------------
(* exit, called by the program, or in trap() by a killed thread.  It first *)
(* closes the files, without ptable.lock.                                  *)
CallExit(p) ==
  /\ p # InitProc /\ At(p, "user")
  /\ killed[p] \/ <<"exit", Role(p)>> \in Allowed
  /\ Goto(p, "exit")
  /\ UNCHANGED <<state, fields, chan, nextpid, cur, np>>

(* The threads that go down with p.  Mutant: only p itself.                *)
MembersSelf(p) == {p}
Members(p) == {q \in Slots : pid[q] = pid[p] /\ state[q] # "ZOMBIE"}

(* A visit of the loop to slot q counts a member out, a main thread even   *)
(* from 0; t is threadnum of all slots.  A slot that has no parent yet is  *)
(* passed over.                                                            *)
Visit(p, q, t) ==
  IF q \in Members(p) /\ MainOf(q) # None /\ ~(isthread[q] /\ t[MainOf(q)] = 0)
  THEN [t EXCEPT ![MainOf(q)] = @ - 1]
  ELSE t

(* threadnum of all slots after the loop has visited the first i of them.  *)
Scan(p) ==
  LET f[i \in 0 .. NProc] == IF i = 0 THEN threadnum ELSE Visit(p, i - 1, f[i-1])
  IN f

(* The child processes exit passes on to init.  Mutant: none.              *)
AbandonedNone(p) == {}
Abandoned(p) == {q \in Slots \ Members(p) : parent[q] = p /\ ~isthread[q]}

(* The channels exit wakes up: the parent, the parent of a process whose   *)
(* last thread is gone, and init if it inherits a zombie.                  *)
(* Mutant: the inherited zombies are all it reports.                       *)
ExitWakesLess(p) == {InitProc : q \in {r \in Abandoned(p) : state[r] = "ZOMBIE"}}
ExitWakes(p) ==
  {parent[p]}
  \union {parent[MainOf(q)] : q \in {r \in Members(p) :
             MainOf(r) # None /\ Scan(p)[r + 1][MainOf(r)] = 0}}
  \union {InitProc : q \in {r \in Abandoned(p) : state[r] = "ZOMBIE"}}

Exit(p) ==
  /\ cur = p /\ pc[p] \in {"exit", "last_exit"}
  /\ threadnum' = Scan(p)[NProc]
  /\ parent' = [q \in Slots |-> IF q \in Abandoned(p) THEN InitProc ELSE parent[q]]
  /\ state' = [q \in Slots |-> IF q \in Members(p) THEN "ZOMBIE"
                               ELSE Wake(state, ExitWakes(p))[q]]
  /\ cur' = None
  /\ UNCHANGED <<pid, isthread, isjoined, killed, tid, chan, nextpid, pc, np>>

-----------------------------------------------------------------------------
(* wait: one pass over the table, at the call and after every wakeup.      *)

(* Mutant: zombies are passed over like free slots.                        *)
KidsLeft(p) == {q \in Slots : parent[q] = p /\ state[q] # "ZOMBIE"}
Kids(p) == {q \in Slots : parent[q] = p}
Ready(p) == {q \in Kids(p) : state[q] = "ZOMBIE" /\ ~isthread[q] /\ threadnum[q] = 0}

Waiting(p) == Calls(p, "wait") \/ At(p, "wait")

WaitReap(p) ==
  /\ Waiting(p)
  /\ \E k \in Ready(p) :
       /\ \A r \in Ready(p) : k <= r
       /\ LET gone == {q \in Slots : pid[q] = pid[k]} IN
          /\ state' = [q \in Slots |-> IF q \in gone THEN "UNUSED" ELSE state[q]]
          /\ pid' = [q \in Slots |-> IF q \in gone THEN 0 ELSE pid[q]]
          /\ parent' = [q \in Slots |-> IF q \in gone THEN None ELSE parent[q]]
          /\ killed' = [q \in Slots |-> IF q \in gone THEN FALSE ELSE killed[q]]
  /\ chan' = [chan EXCEPT ![p] = None] /\ Goto(p, "user")
  /\ UNCHANGED <<isthread, threadnum, isjoined, tid, nextpid, cur, np>>

WaitFails(p) ==
  /\ Waiting(p) /\ Ready(p) = {} /\ (Kids(p) = {} \/ killed[p])
  /\ chan' = [chan EXCEPT ![p] = None] /\ Goto(p, "user")
  /\ UNCHANGED <<state, fields, nextpid, cur, np>>

WaitSleep(p) ==
  /\ Waiting(p) /\ Ready(p) = {} /\ Kids(p) # {} /\ ~killed[p]
  /\ SleepOn(p, p, "wait")
  /\ UNCHANGED <<fields, nextpid, np>>

-----------------------------------------------------------------------------
(* thread_join(id) finds the first slot of the table with that id.  Its    *)
(* other results (-1, -2, or 0 for a thread that is already a ZOMBIE)      *)
(* change nothing.  Programs pass ids that thread_create has handed out.   *)

Finds(p, id) == {q \in Slots : pid[q] = pid[p] /\ isthread[q] /\ tid[q] = id /\ q # p}

ThreadJoin(p, t) ==
  /\ Calls(p, "thread_join") /\ tid[t] \in 1 .. tid[MainOf(p)]
  /\ t \in Finds(p, tid[t]) /\ \A r \in Finds(p, tid[t]) : t <= r
  /\ ~isjoined[t] /\ state[t] # "ZOMBIE"
  /\ isjoined' = [isjoined EXCEPT ![t] = TRUE]
  /\ SleepOn(p, t, "join")
  /\ UNCHANGED <<pid, parent, isthread, threadnum, killed, tid, nextpid, np>>

JoinReturns(p) ==
  /\ At(p, "join") /\ Goto(p, "user")
  /\ chan' = [chan EXCEPT ![p] = None]
  /\ UNCHANGED <<state, fields, nextpid, cur, np>>

(* thread_exit by the last thread that counts: exit does the rest.         *)
LastThreadExit(p) ==
  /\ Calls(p, "thread_exit") /\ threadnum[MainOf(p)] = 1
  /\ threadnum' = [threadnum EXCEPT ![MainOf(p)] = @ - 1]
  /\ Goto(p, "last_exit")
  /\ UNCHANGED <<state, pid, parent, isthread, isjoined, killed, tid, chan, nextpid, cur, np>>

ThreadExit(p) ==
  /\ Calls(p, "thread_exit") /\ threadnum[MainOf(p)] # 1
  /\ threadnum' = [threadnum EXCEPT ![MainOf(p)] = @ - 1]
  /\ state' = Wake([state EXCEPT ![p] = "ZOMBIE"],
                   IF isthread[p] /\ isjoined[p] THEN {p} ELSE {})
  /\ cur' = None
  /\ UNCHANGED <<pid, parent, isthread, isjoined, killed, tid, chan, nextpid, pc, np>>

(* kill: the first slot of the table with that pid.                        *)
Kill(p, q) ==
  /\ Calls(p, "kill") /\ q # InitProc /\ pid[q] # 0
  /\ \A r \in Slots : pid[r] = pid[q] => q <= r
  /\ killed' = [killed EXCEPT ![q] = TRUE]
  /\ state' = [state EXCEPT ![q] = IF @ = "SLEEPING" THEN "RUNNABLE" ELSE @]
  /\ UNCHANGED <<pid, parent, isthread, threadnum, isjoined, tid, chan, nextpid, cur, pc, np>>

-----------------------------------------------------------------------------
Next == \E p \in Slots :
  \/ Dispatch(p) \/ Yield(p)
  \/ \E q \in Slots : Fork(p, q) \/ ThreadCreate(p, q) \/ ThreadJoin(p, q) \/ Kill(p, q)
  \/ AllocFails(p) \/ ForkParent(p) \/ ForkRun(p)
  \/ ThreadPid(p) \/ ThreadParent(p) \/ ThreadCount(p) \/ ThreadFlag(p) \/ ThreadRun(p)
  \/ CallExit(p) \/ Exit(p) \/ LastThreadExit(p) \/ ThreadExit(p)
  \/ WaitReap(p) \/ WaitFails(p) \/ WaitSleep(p) \/ JoinReturns(p)

Spec == Init /\ [][Next]_vars

(* Fairness, of init alone: scheduler() goes round the table and comes to  *)
(* it, the timer takes the CPU from whoever has it (a joiner gives up      *)
(* ptable.lock first), and init, run again and again, gets on with fork    *)
(* and calls wait() in a loop (init.c).                                    *)
InitLoop ==
  \/ WaitReap(InitProc) \/ WaitFails(InitProc) \/ WaitSleep(InitProc)
  \/ AllocFails(InitProc) \/ ForkParent(InitProc) \/ ForkRun(InitProc)
Fairness ==
  /\ SF_vars(Dispatch(InitProc)) /\ SF_vars(InitLoop)
  /\ WF_vars(\E p \in Slots : Yield(p) \/ JoinReturns(p))
FairSpec == Spec /\ Fairness

-----------------------------------------------------------------------------
Live(q) == state[q] \in {"RUNNABLE", "RUNNING", "SLEEPING"}

(* The comment in wait(): the slots it frees belong to "a child process    *)
(* whom all of his threads are zombies".                                   *)
ReapsZombies ==
  [][\A q \in Slots : pid[q] # 0 /\ pid'[q] = 0 => state[q] = "ZOMBIE"]_vars

(* Once all the threads of a process are zombies its count is 0, the value *)
(* for which wait() in the parent looks: the process does not stay in the  *)
(* table for ever.                                                         *)
Reapable ==
  \A m \in Slots :
    /\ pid[m] # 0 /\ ~isthread[m] /\ state[m] = "ZOMBIE"
    /\ \A q \in Slots : pid[q] = pid[m] => state[q] = "ZOMBIE"
    => threadnum[m] = 0

(* No thread sleeps in wait() while a child of it is ready to be reaped:   *)
(* whichever thread of the child was the last to go has woken the parent,  *)
(* or is on its way to do so in exit().                                    *)
NoLostExit ==
  \A p \in Slots : state[p] = "SLEEPING" /\ pc[p] = "wait" =>
    \A k \in Ready(p) : \E q \in Slots : pid[q] = pid[k] /\ Live(q) /\ pc[q] = "last_exit"

(* A thread asleep in thread_join waits for a thread of its own process    *)
(* that has not exited, so that somebody is left to wake it, as long as    *)
(* that thread is marked as joined (JoinMarked).                           *)
JoinWakes ==
  \A p \in Slots : state[p] = "SLEEPING" /\ pc[p] = "join" /\ isjoined[chan[p]] =>
    pid[chan[p]] = pid[p] /\ state[chan[p]] \notin {"ZOMBIE", "UNUSED"}

(* The comment of isjoined in struct proc: it "indicates if this kernel    *)
(* thread has been joined by another".                                     *)
JoinMarked ==
  \A p \in Slots : state[p] = "SLEEPING" /\ pc[p] = "join" => isjoined[chan[p]]

(* wait and thread_join do not sleep through the exit they wait for.       *)
ExitsHeard == NoLostExit /\ JoinWakes

(* threadnum of a main thread is the number of the process's threads that  *)
(* have not exited; a thread_create under way may still have to count its  *)
(* thread, and the last thread_exit has counted before its exit().         *)
Uncounted(q) ==
  \/ pc[q] = "last_exit"
  \/ \E p \in Slots : np[p] = q /\ pc[p] \in {"tc_parent", "tc_count"}
CountExact ==
  \A m \in Slots : pid[m] # 0 /\ ~isthread[m] /\ (Live(m) \/ state[m] = "ZOMBIE") =>
    threadnum[m] = Cardinality({q \in Slots :
                     pid[q] = pid[m] /\ state[q] # "ZOMBIE" /\ ~Uncounted(q)})

(* "Pass abandoned children to init": the parent of every process belongs  *)
(* to a process with a thread that is left to call wait().                 *)
OrphansToInit ==
  \A q \in Slots \ {InitProc} :
    (Live(q) \/ state[q] = "ZOMBIE") /\ ~isthread[q] /\ parent[q] # None =>
      \E r \in Slots : Live(r) /\ pid[r] = pid[parent[q]]

(* A child of init that has exited does not stay a zombie for ever: its    *)
(* exit(), or the exit() of the parent that left it to init, wakes init.   *)
InitCollects ==
  \A m \in Slots :
    (state[m] = "ZOMBIE" /\ ~isthread[m] /\ parent[m] = InitProc) ~> (state[m] = "UNUSED")

==============================================================================
