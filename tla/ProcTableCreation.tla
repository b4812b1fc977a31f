-------------------------- MODULE ProcTableCreation --------------------------
(***************************************************************************)
(* The inductive invariant of ProcTable, and the proof that the steps of   *)
(* fork and thread_create, and those that change neither who is live nor   *)
(* the fields of a slot, keep it.                                          *)
(***************************************************************************)
EXTENDS ProcTable, TLAPS

States == {"UNUSED", "EMBRYO", "SLEEPING", "RUNNABLE", "RUNNING", "ZOMBIE"}
Fresh == {"fork", "fork_run", "tc_pid"}
Joining == {"tc_parent", "tc_count", "tc_flag", "tc_run"}
Idle == {"user", "exit", "wait", "join"}
Labels == Idle \union Fresh \union Joining \union {"last_exit"}

(* Thread p is in a call of fork or thread_create that has its slot; the   *)
(* slot r is that of a thread to be, and threadnum counts it.              *)
Creates(p) == Live(p) /\ pc[p] \in Fresh \union Joining
Joins(p, r) == Live(p) /\ pc[p] \in Joining /\ np[p] = r
Counts(p, r) == Live(p) /\ pc[p] \in {"tc_flag", "tc_run"} /\ np[p] = r

TypeOK ==
  /\ state \in [Slots -> States]
  /\ pid \in [Slots -> Nat] /\ nextpid \in Nat
  /\ parent \in [Slots -> Slots \union {None}]
  /\ isthread \in [Slots -> BOOLEAN] /\ isjoined \in [Slots -> BOOLEAN]
  /\ threadnum \in [Slots -> Int]
  /\ chan \in [Slots -> Slots \union {None}] /\ cur \in Slots \union {None}
  /\ pc \in [Slots -> Labels]
  /\ np \in [Slots -> Slots \union {None}]

(* One thread runs, the one on the CPU.                                    *)
CpuInv == \A q \in Slots : state[q] = "RUNNING" <=> cur = q

(* Pids are never handed out twice; a free slot has no parent.             *)
PidInv ==
  /\ nextpid > 0
  /\ \A q \in Slots : pid[q] < nextpid
  /\ \A q \in Slots : Live(q) => pid[q] # 0
  /\ \A q \in Slots : state[q] = "UNUSED" => parent[q] = None

(* What fork and thread_create have done with their slot so far.           *)
NewSlot(p, c) ==
  /\ state[c] = "EMBRYO"
  /\ pc[p] \in Fresh => /\ pid[c] # 0 /\ threadnum[c] = 1
                        /\ \A r \in Slots : pid[r] = pid[c] => r = c
  /\ pc[p] \in Joining => pid[c] = pid[p]
  /\ pc[p] \in {"fork", "tc_pid", "tc_parent"} => parent[c] = None
  /\ pc[p] \in {"tc_count", "tc_flag", "tc_run"} => parent[c] = MainOf(p)
  /\ pc[p] = "tc_run" => isthread[c]
CreateInv ==
  /\ \A p \in Slots : Creates(p) => \E c \in Slots : np[p] = c /\ NewSlot(p, c)
  /\ \A p, r \in Slots : Creates(p) /\ Creates(r) /\ np[p] = np[r] => p = r

(* The slots with the pid of a live thread q are the threads of its        *)
(* process, or about to become threads; one of them is the main thread.    *)
Used(r) == state[r] \notin {"UNUSED", "EMBRYO"}
GroupOf(q) ==
  /\ MainOf(q) \in Slots /\ ~isthread[MainOf(q)] /\ pid[MainOf(q)] = pid[q] /\ Used(MainOf(q))
  /\ \A r \in Slots : pid[r] = pid[q] =>
       (Used(r) /\ (isthread[r] \/ r = MainOf(q))) \/ \E p \in Slots : Joins(p, r)
GroupInv == \A q \in Slots : Live(q) => GroupOf(q)

(* The threads that count: the live ones, except for the last one in its   *)
(* thread_exit, and the one that thread_create has already counted.        *)
DoesCount(q) == (Live(q) /\ pc[q] # "last_exit") \/ \E p \in Slots : Counts(p, q)
Counted(g) == {q \in Slots : pid[q] = g /\ DoesCount(q)}
CountOf(q) == threadnum[MainOf(q)] = Cardinality(Counted(pid[q]))
CountInv == \A q \in Slots : Live(q) => CountOf(q)

(* Who sleeps, where, and for whom.                                        *)
SleepInv ==
  \A p \in Slots : state[p] = "SLEEPING" =>
    /\ pc[p] = "wait" => chan[p] = p
    /\ pc[p] = "join" =>
         /\ chan[p] \in Slots /\ isthread[chan[p]] /\ pid[chan[p]] = pid[p]
         /\ state[chan[p]] # "UNUSED" /\ (isjoined[chan[p]] => state[chan[p]] # "ZOMBIE")

Inv == CpuInv /\ PidInv /\ CreateInv /\ GroupInv /\ CountInv /\ SleepInv /\ NoLostExit

(* What the proof needs to know of the number of slots in a set, and of    *)
(* the loop of exit().  Both are proved in ProcTableProofs.                *)
Cardinals ==
  /\ \A S \in SUBSET Slots : Cardinality(S) \in Nat /\ (Cardinality(S) = 0 => S = {})
  /\ \A S \in SUBSET Slots, x \in Slots :
       /\ x \notin S => Cardinality(S \union {x}) = Cardinality(S) + 1
       /\ x \in S => Cardinality(S \ {x}) = Cardinality(S) - 1
  /\ \A x \in Slots : Cardinality({x}) = 1
ScanRuns(p) ==
  /\ Scan(p)[NProc] \in [Slots -> Int]
  /\ \A k \in Slots : (\A r \in Members(p) : MainOf(r) # k) => Scan(p)[NProc][k] = threadnum[k]
  /\ \A k \in Slots : Scan(p)[NProc][k] = 0 =>
       \/ threadnum[k] = 0 /\ \A r \in Members(p) : MainOf(r) # k
       \/ \E r \in Members(p) : MainOf(r) = k /\ Scan(p)[r + 1][k] = 0

-----------------------------------------------------------------------------
(* What the steps keep.                                                    *)

(* The thread on the CPU is live.                                          *)
LEMMA Running ==
  ASSUME CpuInv, NEW p \in Slots, cur = p
  PROVE  state[p] = "RUNNING" /\ Live(p)
BY Zenon DEF CpuInv, Live

(* None is no slot.                                                        *)
LEMMA NoneNoSlot == None \notin Slots
BY DEF None, Slots

(* A step that changes neither who is live nor the fields of a slot, and   *)
(* that has nothing to do with fork, thread_create or thread_exit.         *)
Quiet ==
  /\ pid' = pid /\ parent' = parent /\ isthread' = isthread /\ threadnum' = threadnum
  /\ np' = np /\ nextpid' = nextpid
  /\ \A q \in Slots : Live(q)' <=> Live(q)
  /\ \A q \in Slots : ~Live(q) => state'[q] = state[q]
  /\ \A q \in Slots : pc'[q] = pc[q] \/ (pc[q] \in Idle /\ pc'[q] \in Idle)

(* Such a step keeps who is who in the table.                              *)
LEMMA QuietKeeps ==
  ASSUME PidInv, CreateInv, GroupInv, CountInv, Quiet
  PROVE  PidInv' /\ CreateInv' /\ GroupInv' /\ CountInv'
<1>1. \A q \in Slots : /\ Creates(q)' <=> Creates(q)
                       /\ Creates(q) => pc'[q] = pc[q]
                       /\ \A r \in Slots : (Joins(q, r)' <=> Joins(q, r))
                                           /\ (Counts(q, r)' <=> Counts(q, r))
  BY DEF Quiet, Creates, Joins, Counts, Fresh, Joining, Idle
<1>2. \A q \in Slots : MainOf(q)' = MainOf(q)
  BY DEF Quiet, MainOf
<1>3. \A q \in Slots : /\ state'[q] = "UNUSED" <=> state[q] = "UNUSED"
                       /\ state'[q] = "EMBRYO" <=> state[q] = "EMBRYO"
  BY DEF Quiet, Live
<1>4. PidInv'
  BY <1>3 DEF PidInv, Quiet
<1>5. CreateInv'
  <2>1. ASSUME NEW p \in Slots, NEW c \in Slots, Creates(p), NewSlot(p, c) PROVE NewSlot(p, c)'
    <3>1. pc'[p] = pc[p]
      BY <2>1, <1>1, Zenon
    <3>2. QED
      BY Zenon, <2>1, <3>1, <1>2, <1>3 DEF NewSlot, Quiet
  <2>2. QED
    BY <2>1, <1>1, Zenon DEF CreateInv, Quiet
<1>6. GroupInv'
  BY <1>1, <1>2, <1>3 DEF GroupInv, GroupOf, Used, Quiet
<1>7. \A g : Counted(g)' = Counted(g)
  BY Zenon, <1>1 DEF Counted, DoesCount, Quiet, Idle
<1>8. CountInv'
  BY <1>2, <1>7, Zenon DEF CountInv, CountOf, Quiet
<1>9. QED
  BY Zenon, <1>4, <1>5, <1>6, <1>8

(* The steps that are quiet.                                               *)
QuietStep(p) ==
  \/ Dispatch(p) \/ Yield(p) \/ CallExit(p) \/ WaitFails(p) \/ WaitSleep(p) \/ JoinReturns(p)
  \/ \E q \in Slots : ThreadJoin(p, q) \/ Kill(p, q)

(* Scheduling, the calls that only go to sleep or return, and kill.        *)
LEMMA QuietSteps ==
  ASSUME TypeOK, CpuInv, NEW p \in Slots, QuietStep(p)
  PROVE  Quiet
<1>1. CASE Dispatch(p)
  BY <1>1 DEF Dispatch, Quiet, Live, TypeOK, fields
<1>2. CASE Yield(p)
  BY <1>2, Running DEF Yield, Quiet, Live, TypeOK, fields
<1>3. CASE CallExit(p)
  BY <1>3 DEF CallExit, At, Goto, Quiet, Live, TypeOK, fields, Idle
<1>4. CASE WaitFails(p)
  BY <1>4 DEF WaitFails, Waiting, Calls, At, Goto, Quiet, Live, TypeOK, fields, Idle
<1>5. CASE WaitSleep(p)
  BY Zenon, <1>5, Running DEF WaitSleep, SleepOn, Waiting, Calls, At, Goto, Quiet, Live, TypeOK, fields, Idle
<1>6. CASE JoinReturns(p)
  BY Zenon, <1>6 DEF JoinReturns, At, Goto, Quiet, Live, TypeOK, fields, Idle
<1>7. CASE \E q \in Slots : ThreadJoin(p, q)
  BY <1>7, Running DEF ThreadJoin, SleepOn, Calls, At, Goto, Quiet, Live, TypeOK, Idle
<1>8. CASE \E q \in Slots : Kill(p, q)
  BY <1>8 DEF Kill, Quiet, Live, TypeOK
<1>9. QED
  BY Zenon, <1>1, <1>2, <1>3, <1>4, <1>5, <1>6, <1>7, <1>8 DEF QuietStep

(* No quiet step loses an exit.                                            *)
LEMMA QuietHears ==
  ASSUME Quiet, NoLostExit,
         \A p \in Slots : state'[p] = "SLEEPING" /\ pc'[p] = "wait" =>
           (state[p] = "SLEEPING" /\ pc[p] = "wait") \/ Ready(p) = {}
  PROVE  NoLostExit'
<1>1. \A q \in Slots : state'[q] = "ZOMBIE" <=> state[q] = "ZOMBIE"
  BY Zenon DEF Quiet, Live
<1>2. \A q \in Slots : pc[q] = "last_exit" => pc'[q] = "last_exit"
  BY DEF Quiet, Idle
<1>3. ASSUME NEW p \in Slots PROVE Ready(p)' = Ready(p)
  <2>1. Ready(p) = {q \in Slots : parent[q] = p /\ state[q] = "ZOMBIE" /\ ~isthread[q]
                                 /\ threadnum[q] = 0}
    BY Zenon DEF Ready, Kids
  <2>2. Ready(p)' = {q \in Slots : parent[q] = p /\ state'[q] = "ZOMBIE" /\ ~isthread[q]
                                  /\ threadnum[q] = 0}
    BY Zenon DEF Ready, Kids, Quiet
  <2>3. QED
    BY <1>1, <2>1, <2>2, Zenon
<1>4. ASSUME NEW p \in Slots, state'[p] = "SLEEPING", pc'[p] = "wait", NEW k \in Ready(p)'
      PROVE  \E q \in Slots : pid'[q] = pid'[k] /\ Live(q)' /\ pc'[q] = "last_exit"
  <2>1. k \in Ready(p) /\ state[p] = "SLEEPING" /\ pc[p] = "wait"
    BY <1>3, <1>4
  <2>2. PICK q \in Slots : pid[q] = pid[k] /\ Live(q) /\ pc[q] = "last_exit"
    BY <2>1, Zenon DEF NoLostExit
  <2>3. QED
    BY <1>2, <2>2, Zenon DEF Quiet
<1>5. QED
  BY <1>4, Zenon DEF NoLostExit

(* What a quiet step does to the sleepers, and to the CPU.                 *)
LEMMA QuietSleep ==
  ASSUME TypeOK, CpuInv, CreateInv, GroupInv, SleepInv, NoLostExit, NEW p \in Slots, QuietStep(p)
  PROVE  CpuInv' /\ SleepInv' /\ NoLostExit'
<1>0. Quiet
  BY QuietSteps
<1>1. CASE Dispatch(p)
  <2>1. CpuInv'
    BY Zenon, <1>1, NoneNoSlot DEF Dispatch, CpuInv, TypeOK
  <2>2. SleepInv'
    BY <1>1 DEF Dispatch, SleepInv, TypeOK, fields
  <2>3. QED
    BY Zenon, <1>0, <1>1, <2>1, <2>2, QuietHears DEF Dispatch, TypeOK
<1>2. CASE Yield(p)
  <2>1. CpuInv'
    BY <1>2, NoneNoSlot DEF Yield, CpuInv, TypeOK
  <2>2. SleepInv'
    BY <1>2 DEF Yield, SleepInv, TypeOK, fields
  <2>3. QED
    BY Zenon, <1>0, <1>2, <2>1, <2>2, QuietHears DEF Yield, TypeOK
<1>3. CASE CallExit(p) \/ WaitFails(p) \/ JoinReturns(p)
  <2>1. /\ cur = p /\ state' = state /\ cur' = cur /\ pc' = [pc EXCEPT ![p] = pc'[p]]
        /\ chan' = [chan EXCEPT ![p] = chan'[p]] /\ isjoined' = isjoined
    BY <1>3 DEF CallExit, WaitFails, JoinReturns, Waiting, Calls, At, Goto, TypeOK, fields
  <2>2. state[p] # "SLEEPING"
    BY <2>1, Running
  <2>3. CpuInv'
    BY <2>1 DEF CpuInv
  <2>4. SleepInv'
    BY <1>0, <2>1, <2>2 DEF SleepInv, TypeOK, Quiet
  <2>5. QED
    BY <1>0, <2>1, <2>2, <2>3, <2>4, QuietHears DEF TypeOK
<1>4. CASE WaitSleep(p)
  <2>1. CpuInv'
    BY Zenon, <1>4, NoneNoSlot DEF WaitSleep, SleepOn, Waiting, Calls, At, CpuInv, TypeOK
  <2>2. SleepInv'
    BY <1>4, Running DEF WaitSleep, SleepOn, Goto, Waiting, Calls, At, SleepInv, TypeOK, fields
  <2>3. QED
    BY Zenon, <1>0, <1>4, <2>1, <2>2, QuietHears DEF WaitSleep, SleepOn, Goto, TypeOK
<1>5. ASSUME NEW t \in Slots, ThreadJoin(p, t) PROVE CpuInv' /\ SleepInv' /\ NoLostExit'
  <2>1. CpuInv'
    BY Zenon, <1>5, NoneNoSlot DEF ThreadJoin, SleepOn, Calls, At, CpuInv, TypeOK
  <2>2. state[p] = "RUNNING" /\ Live(p)
    BY Zenon, <1>5, Running DEF ThreadJoin, Calls, At
  <2>3. t # p /\ isthread[t] /\ pid[t] = pid[p] /\ state[t] \notin {"UNUSED", "ZOMBIE"}
    <3>1. t # p /\ isthread[t] /\ pid[t] = pid[p] /\ state[t] # "ZOMBIE"
      BY Zenon, <1>5 DEF ThreadJoin, Finds
    <3>2. ASSUME NEW r \in Slots, Joins(r, t) PROVE state[t] = "EMBRYO"
      BY <3>2 DEF Joins, CreateInv, Creates, NewSlot
    <3>3. QED
      BY Zenon, <2>2, <3>1, <3>2 DEF GroupInv, GroupOf, Used
  <2>4. SleepInv'
    <3>1. /\ state' = [state EXCEPT ![p] = "SLEEPING"] /\ chan' = [chan EXCEPT ![p] = t]
          /\ pc' = [pc EXCEPT ![p] = "join"] /\ isjoined' = [isjoined EXCEPT ![t] = TRUE]
          /\ isthread' = isthread /\ pid' = pid
      BY Zenon, <1>5 DEF ThreadJoin, SleepOn, Goto
    <3>2. QED
      BY <2>2, <2>3, <3>1 DEF SleepInv, TypeOK
  <2>5. QED
    BY Zenon, <1>0, <1>5, <2>1, <2>4, QuietHears DEF ThreadJoin, SleepOn, Goto, TypeOK
<1>6. ASSUME NEW q \in Slots, Kill(p, q) PROVE CpuInv' /\ SleepInv' /\ NoLostExit'
  <2>1. CpuInv'
    BY Zenon, <1>6 DEF Kill, CpuInv, TypeOK
  <2>2. SleepInv'
    BY <1>6 DEF Kill, SleepInv, TypeOK
  <2>3. QED
    BY Zenon, <1>0, <1>6, <2>1, <2>2, QuietHears DEF Kill, TypeOK
<1>7. QED
  BY Zenon, <1>1, <1>2, <1>3, <1>4, <1>5, <1>6 DEF QuietStep

(* A step after which nobody new sleeps in wait(), and no process becomes  *)
(* ready to be reaped, loses no exit.                                      *)
LEMMA NothingToHear ==
  ASSUME NoLostExit,
         \A p \in Slots : state'[p] = "SLEEPING" => state[p] = "SLEEPING" /\ pc'[p] = pc[p],
         \A k \in Slots : state'[k] = "ZOMBIE" /\ ~isthread'[k] /\ threadnum'[k] = 0 =>
           /\ state[k] = "ZOMBIE" /\ ~isthread[k] /\ threadnum[k] = 0
           /\ parent'[k] = parent[k] /\ pid'[k] = pid[k],
         \A q \in Slots : Live(q) /\ pc[q] = "last_exit" =>
           Live(q)' /\ pc'[q] = "last_exit" /\ pid'[q] = pid[q]
  PROVE  NoLostExit'
<1>1. ASSUME NEW p \in Slots, state'[p] = "SLEEPING", pc'[p] = "wait", NEW k \in Ready(p)'
      PROVE  \E q \in Slots : pid'[q] = pid'[k] /\ Live(q)' /\ pc'[q] = "last_exit"
  <2>1. k \in Slots /\ parent'[k] = p /\ state'[k] = "ZOMBIE" /\ ~isthread'[k] /\ threadnum'[k] = 0
    BY <1>1 DEF Ready, Kids
  <2>2. k \in Ready(p) /\ state[p] = "SLEEPING" /\ pc[p] = "wait" /\ pid'[k] = pid[k]
    BY <1>1, <2>1 DEF Ready, Kids
  <2>3. PICK q \in Slots : pid[q] = pid[k] /\ Live(q) /\ pc[q] = "last_exit"
    BY <2>2, Zenon DEF NoLostExit
  <2>4. QED
    BY <2>2, <2>3, Zenon
<1>2. QED
  BY <1>1, Zenon DEF NoLostExit

(* The slots that are new, or still have their own pid, are nobody's       *)
(* thread and nobody waits for them.                                       *)
LEMMA Nobodys ==
  ASSUME CreateInv, GroupInv, SleepInv, NEW c \in Slots, ~Live(c),
         state[c] = "UNUSED" \/ \E p \in Slots : Creates(p) /\ pc[p] \in Fresh /\ np[p] = c
  PROVE  /\ \A q \in Slots : Live(q) => MainOf(q) # c /\ pid[q] # pid[c]
         /\ \A p \in Slots : state[p] = "SLEEPING" /\ pc[p] = "join" => chan[p] # c
         /\ \A p \in Slots : ~Joins(p, c) /\ ~Counts(p, c)
<1>1. CASE state[c] = "UNUSED"
  <2>1. \A p \in Slots : ~Creates(p) \/ np[p] # c
    BY <1>1 DEF CreateInv, NewSlot
  <2>2. \A p \in Slots : ~Joins(p, c) /\ ~Counts(p, c)
    BY <2>1 DEF Creates, Joins, Counts, Joining
  <2>3. QED
    BY <1>1, <2>2 DEF GroupInv, GroupOf, Used, SleepInv
<1>2. ASSUME NEW p \in Slots, Creates(p), pc[p] \in Fresh, np[p] = c
      PROVE  /\ \A q \in Slots : Live(q) => MainOf(q) # c /\ pid[q] # pid[c]
             /\ \A r \in Slots : state[r] = "SLEEPING" /\ pc[r] = "join" => chan[r] # c
             /\ \A r \in Slots : ~Joins(r, c) /\ ~Counts(r, c)
  <2>1. state[c] = "EMBRYO" /\ \A r \in Slots : pid[r] = pid[c] => r = c
    BY <1>2 DEF CreateInv, NewSlot
  <2>2. \A q \in Slots : Live(q) => MainOf(q) # c /\ pid[q] # pid[c]
    BY Zenon, <2>1 DEF GroupInv, GroupOf, Used, Live
  <2>3. \A r \in Slots : state[r] = "SLEEPING" /\ pc[r] = "join" => chan[r] # c
    BY <2>1 DEF SleepInv
  <2>4. \A r \in Slots : Joins(r, c) \/ Counts(r, c) => r = p
    BY Zenon, <1>2 DEF CreateInv, Creates, Joins, Counts, Joining
  <2>5. QED
    BY Zenon, <1>2, <2>2, <2>3, <2>4 DEF Joins, Counts, Joining, Fresh
<1>3. QED
  BY <1>1, <1>2

(* What keeps the facts about the process of a thread r.                   *)
LEMMA GroupSame ==
  ASSUME NEW r \in Slots, GroupOf(r), MainOf(r)' = MainOf(r), pid'[r] = pid[r],
         \A s \in Slots : pid'[s] = pid[r] => pid[s] = pid[r] \/ \E x \in Slots : Joins(x, s)',
         \A s \in Slots : pid[s] = pid[r] /\ Used(s) =>
           Used(s)' /\ pid'[s] = pid[s] /\ isthread'[s] = isthread[s],
         \A s, x \in Slots : pid[s] = pid[r] /\ Joins(x, s) =>
           Joins(x, s)' \/ (Used(s)' /\ isthread'[s])
  PROVE  GroupOf(r)'
<1>1. PICK m \in Slots : m = MainOf(r) /\ ~isthread[m] /\ pid[m] = pid[r] /\ Used(m)
  BY Zenon DEF GroupOf
<1>2. MainOf(r)' = m /\ ~isthread'[m] /\ pid'[m] = pid'[r] /\ Used(m)'
  BY <1>1, Zenon
<1>3. ASSUME NEW s \in Slots, pid'[s] = pid'[r]
      PROVE  (Used(s)' /\ (isthread'[s] \/ s = m)) \/ \E x \in Slots : Joins(x, s)'
  <2>1. CASE pid[s] = pid[r]
    <3>1. (Used(s) /\ (isthread[s] \/ s = m)) \/ \E x \in Slots : Joins(x, s)
      BY <1>1, <2>1, Zenon DEF GroupOf
    <3>2. QED
      BY <2>1, <3>1, Zenon
  <2>2. QED
    BY <1>3, <2>1, Zenon
<1>4. QED
  BY <1>2, <1>3, Zenon DEF GroupOf

(* What keeps the count of the process of a thread r.                      *)
LEMMA CountSame ==
  ASSUME NEW r \in Slots, CountOf(r), MainOf(r)' = MainOf(r), pid'[r] = pid[r],
         threadnum'[MainOf(r)] = threadnum[MainOf(r)],
         \A s \in Slots : pid'[s] = pid[r] /\ DoesCount(s)' <=> pid[s] = pid[r] /\ DoesCount(s)
  PROVE  CountOf(r)'
<1>1. Counted(pid[r])' = Counted(pid[r])
  BY Zenon DEF Counted
<1>2. QED
  BY <1>1, Zenon DEF CountOf

(* The slot of another fork or thread_create than the one that moves.      *)
LEMMA NewSlotSame ==
  ASSUME NEW r \in Slots, NEW c \in Slots, NewSlot(r, c), pc'[r] = pc[r], MainOf(r)' = MainOf(r),
         pid'[r] = pid[r], pid'[c] = pid[c],
         pc[r] \in Fresh => \A s \in Slots : pid'[s] = pid[c] => pid[s] = pid[c],
         state'[c] = state[c], isthread'[c] = isthread[c],
         pc[r] # "fork_run" => parent'[c] = parent[c],
         pc[r] \in Fresh => threadnum'[c] = threadnum[c]
  PROVE  NewSlot(r, c)'
BY Zenon DEF NewSlot

(* allocproc.                                                              *)
LEMMA AllocKeeps ==
  ASSUME TypeOK, Inv, NEW p \in Slots, NEW q \in Slots, NEW label \in {"fork", "tc_pid"},
         At(p, "user"), AllocProc(p, q, label)
  PROVE  Inv'
<1> USE DEF Inv
<1>1. state[p] = "RUNNING" /\ Live(p) /\ state[q] = "UNUSED" /\ q # p /\ pc[p] = "user" /\ ~Live(q)
  BY Zenon, Running DEF AllocProc, At, Live
<1>2. /\ state' = [state EXCEPT ![q] = "EMBRYO"] /\ pid' = [pid EXCEPT ![q] = nextpid]
      /\ nextpid' = nextpid + 1 /\ threadnum' = [threadnum EXCEPT ![q] = 1]
      /\ np' = [np EXCEPT ![p] = q] /\ pc' = [pc EXCEPT ![p] = label]
      /\ parent' = parent /\ isthread' = isthread /\ isjoined' = isjoined
      /\ chan' = chan /\ cur' = cur
  BY Zenon DEF AllocProc, Goto
<1>3. /\ \A r \in Slots : Live(r) => MainOf(r) # q /\ pid[r] # pid[q]
      /\ \A r \in Slots : state[r] = "SLEEPING" /\ pc[r] = "join" => chan[r] # q
      /\ \A r \in Slots : ~Joins(r, q) /\ ~Counts(r, q)
  BY Zenon, <1>1, Nobodys
<1>4. \A r \in Slots : Live(r)' <=> Live(r)
  BY Zenon, <1>1, <1>2 DEF Live, TypeOK
<1>5. \A r \in Slots : MainOf(r)' = MainOf(r)
  BY Zenon, <1>2 DEF MainOf
<1>6. \A r, s \in Slots : (Joins(r, s)' <=> Joins(r, s)) /\ (Counts(r, s)' <=> Counts(r, s))
  BY <1>1, <1>2, <1>4 DEF Joins, Counts, Joining, TypeOK
<1>7. CpuInv'
  BY Zenon, <1>1, <1>2 DEF CpuInv, TypeOK
<1>8. PidInv'
  BY <1>1, <1>2, <1>4 DEF PidInv, TypeOK
<1>9. CreateInv'
  <2>1. NewSlot(p, q)' /\ np'[p] = q
    BY <1>1, <1>2 DEF NewSlot, PidInv, TypeOK, Fresh, Joining
  <2>2. ASSUME NEW r \in Slots, r # p, Creates(r)'
        PROVE  Creates(r) /\ np'[r] = np[r] /\ np[r] # q
               /\ \E c \in Slots : np[r] = c /\ NewSlot(r, c)'
    <3>1. Creates(r) /\ np'[r] = np[r] /\ pc'[r] = pc[r]
      BY Zenon, <1>2, <1>4, <2>2 DEF Creates, TypeOK
    <3>2. PICK c \in Slots : np[r] = c /\ NewSlot(r, c)
      BY Zenon, <3>1 DEF CreateInv
    <3>3. c # q
      BY Zenon, <1>1, <3>2 DEF NewSlot
    <3>4. NewSlot(r, c)'
      <4>1. pid'[r] = pid[r] /\ pid'[c] = pid[c] /\ state'[c] = state[c]
            /\ threadnum'[c] = threadnum[c] /\ parent' = parent /\ isthread' = isthread
        BY Zenon, <1>1, <1>2, <3>1, <3>3 DEF Creates, TypeOK
      <4>2. \A s \in Slots : pid'[s] = pid[c] => pid[s] = pid[c]
        BY <1>2 DEF PidInv, TypeOK
      <4>3. QED
        BY <1>5, <3>1, <3>2, <4>1, <4>2, NewSlotSame, Zenon
    <3>5. QED
      BY Zenon, <3>1, <3>2, <3>3, <3>4
  <2>3. ASSUME NEW r \in Slots, NEW s \in Slots, Creates(r)', Creates(s)', np'[r] = np'[s] PROVE r = s
    BY Zenon, <2>1, <2>2, <2>3 DEF CreateInv
  <2>4. QED
    BY <2>1, <2>2, <2>3, Zenon DEF CreateInv
<1>10. ASSUME NEW r \in Slots, Live(r) PROVE GroupOf(r)' /\ CountOf(r)'
  <2>1. MainOf(r)' = MainOf(r) /\ pid'[r] = pid[r] /\ GroupOf(r) /\ CountOf(r) /\ MainOf(r) # q
    BY Zenon, <1>1, <1>2, <1>3, <1>5, <1>10 DEF GroupInv, CountInv, TypeOK
  <2>2. /\ \A s \in Slots : s # q => pid'[s] = pid[s] /\ state'[s] = state[s]
                                       /\ threadnum'[s] = threadnum[s]
        /\ pid'[q] # pid[r] /\ pid[q] # pid[r] /\ ~Used(q)
    BY <1>1, <1>2, <1>3, <1>10 DEF PidInv, TypeOK, Used
  <2>3. GroupOf(r)'
    BY Zenon, <1>2, <1>6, <2>1, <2>2, GroupSame DEF Used
  <2>4. \A s \in Slots : DoesCount(s)' <=> DoesCount(s)
    BY Zenon, <1>1, <1>2, <1>4, <1>6 DEF DoesCount, TypeOK
  <2>5. CountOf(r)'
    BY Zenon, <2>1, <2>2, <2>4, CountSame DEF GroupOf
  <2>6. QED
    BY Zenon, <2>3, <2>5
<1>11. GroupInv' /\ CountInv'
  BY <1>4, <1>10, Zenon DEF GroupInv, CountInv
<1>12. SleepInv'
  BY <1>1, <1>2, <1>3 DEF SleepInv, TypeOK
<1>13. NoLostExit'
  <2>1. \A r \in Slots : state'[r] = "SLEEPING" => state[r] = "SLEEPING" /\ pc'[r] = pc[r]
    BY Zenon, <1>1, <1>2 DEF TypeOK
  <2>2. \A k \in Slots : state'[k] = "ZOMBIE" /\ ~isthread'[k] /\ threadnum'[k] = 0 =>
          /\ state[k] = "ZOMBIE" /\ ~isthread[k] /\ threadnum[k] = 0
          /\ parent'[k] = parent[k] /\ pid'[k] = pid[k]
    BY Zenon, <1>1, <1>2 DEF TypeOK
  <2>3. \A r \in Slots : Live(r) /\ pc[r] = "last_exit" =>
          Live(r)' /\ pc'[r] = "last_exit" /\ pid'[r] = pid[r]
    BY Zenon, <1>1, <1>2, <1>4 DEF TypeOK
  <2>4. QED
    BY Zenon, <2>1, <2>2, <2>3, NothingToHear
<1>14. QED
  BY Zenon, <1>7, <1>8, <1>9, <1>11, <1>12, <1>13

(* The slots under construction, if only thread p has to do with a new one.*)
LEMMA CreateSame ==
  ASSUME CreateInv, NEW p \in Slots,
         \A r \in Slots : r # p /\ Creates(r)' => Creates(r) /\ np'[r] = np[r],
         \A r, c \in Slots : r # p /\ Creates(r)' /\ np[r] = c /\ NewSlot(r, c) => NewSlot(r, c)',
         Creates(p)' => \E c \in Slots : /\ np'[p] = c /\ NewSlot(p, c)'
                                         /\ \A r \in Slots : r # p /\ Creates(r)' => np[r] # c
  PROVE  CreateInv'
<1>1. ASSUME NEW r \in Slots, Creates(r)' PROVE \E c \in Slots : np'[r] = c /\ NewSlot(r, c)'
  <2>1. CASE r = p
    BY <1>1, <2>1, Zenon
  <2>2. CASE r # p
    <3>1. PICK c \in Slots : np[r] = c /\ NewSlot(r, c)
      BY <1>1, <2>2, Zenon DEF CreateInv
    <3>2. NewSlot(r, c)' /\ np'[r] = c
      BY <1>1, <2>2, <3>1, Zenon
    <3>3. QED
      BY <3>2, Zenon
  <2>3. QED
    BY <2>1, <2>2, Zenon
<1>2. ASSUME NEW r \in Slots, NEW s \in Slots, Creates(r)', Creates(s)', np'[r] = np'[s] PROVE r = s
  BY <1>2, Zenon DEF CreateInv
<1>3. QED
  BY <1>1, <1>2, Zenon DEF CreateInv

(* A thread in fork or thread_create, and its slot.                        *)
LEMMA Creator ==
  ASSUME Inv, NEW p \in Slots, cur = p, pc[p] \in Fresh \union Joining
  PROVE  \E c \in Slots :
           /\ np[p] = c /\ NewSlot(p, c) /\ Creates(p) /\ Live(p) /\ state[p] = "RUNNING"
           /\ c # p /\ ~Live(c) /\ state[c] = "EMBRYO"
           /\ \A r \in Slots : Creates(r) /\ np[r] = c => r = p
           /\ \A r \in Slots : Joins(r, c) \/ Counts(r, c) => r = p
<1>1. state[p] = "RUNNING" /\ Live(p) /\ Creates(p)
  BY Running DEF Inv, Creates
<1>2. PICK c \in Slots : np[p] = c /\ NewSlot(p, c)
  BY Zenon, <1>1 DEF Inv, CreateInv
<1>3. state[c] = "EMBRYO" /\ c # p /\ ~Live(c)
  BY Zenon, <1>1, <1>2 DEF NewSlot, Live
<1>4. \A r \in Slots : Creates(r) /\ np[r] = c => r = p
  BY <1>1, <1>2 DEF Inv, CreateInv
<1>5. \A r \in Slots : Joins(r, c) \/ Counts(r, c) => Creates(r) /\ np[r] = c
  BY DEF Joins, Counts, Creates, Joining
<1>6. QED
  BY Zenon, <1>1, <1>2, <1>3, <1>4, <1>5

(* kalloc or copyuvm fails.                                                *)
LEMMA AllocFailsKeeps ==
  ASSUME TypeOK, Inv, NEW p \in Slots, AllocFails(p)
  PROVE  Inv'
<1>0. cur = p /\ pc[p] \in {"fork", "tc_pid"} /\ pc[p] \in Fresh
  BY DEF AllocFails, Fresh
<1>1. PICK c \in Slots :
           /\ np[p] = c /\ NewSlot(p, c) /\ Creates(p) /\ Live(p) /\ state[p] = "RUNNING"
           /\ c # p /\ ~Live(c) /\ state[c] = "EMBRYO"
           /\ \A r \in Slots : Creates(r) /\ np[r] = c => r = p
  BY <1>0, Creator
<1>2. /\ state' = [state EXCEPT ![c] = "UNUSED"] /\ pc' = [pc EXCEPT ![p] = "user"]
      /\ np' = [np EXCEPT ![p] = None]
      /\ pid' = pid /\ parent' = parent /\ isthread' = isthread /\ threadnum' = threadnum
      /\ isjoined' = isjoined /\ chan' = chan /\ cur' = cur /\ nextpid' = nextpid
  BY Zenon, <1>1 DEF AllocFails, Goto, fields
<1>3. /\ \A r \in Slots : Live(r) => MainOf(r) # c /\ pid[r] # pid[c]
      /\ \A r \in Slots : state[r] = "SLEEPING" /\ pc[r] = "join" => chan[r] # c
      /\ \A r \in Slots : ~Joins(r, c) /\ ~Counts(r, c)
  BY Zenon, <1>0, <1>1, Nobodys DEF Inv
<1>4. \A r \in Slots : Live(r)' <=> Live(r)
  BY Zenon, <1>1, <1>2 DEF Live, TypeOK
<1>5. \A r \in Slots : MainOf(r)' = MainOf(r)
  BY Zenon, <1>2 DEF MainOf
<1>6. \A r, s \in Slots : (Joins(r, s)' <=> Joins(r, s)) /\ (Counts(r, s)' <=> Counts(r, s))
  BY Zenon, <1>0, <1>2, <1>4 DEF Joins, Counts, Joining, Fresh, TypeOK
<1>7. CpuInv'
  BY Zenon, <1>1, <1>2 DEF Inv, CpuInv, TypeOK
<1>8. PidInv'
  BY Zenon, <1>0, <1>1, <1>2, <1>4 DEF Inv, PidInv, NewSlot, TypeOK
<1>9. CreateInv'
  <2>1. ~Creates(p)' /\ \A r \in Slots : r # p /\ Creates(r)' => Creates(r) /\ np'[r] = np[r] /\ np[r] # c
    BY <1>1, <1>2, <1>4 DEF Creates, TypeOK, Fresh, Joining
  <2>2. ASSUME NEW r \in Slots, NEW d \in Slots, r # p, Creates(r)', np[r] = d, NewSlot(r, d)
        PROVE  NewSlot(r, d)'
    <3>1. state'[d] = state[d] /\ pc'[r] = pc[r]
      BY Zenon, <1>2, <2>1, <2>2 DEF TypeOK
    <3>2. QED
      BY Zenon, <1>2, <1>5, <2>2, <3>1, NewSlotSame
  <2>3. QED
    BY Zenon, <2>1, <2>2, CreateSame DEF Inv
<1>10. ASSUME NEW r \in Slots, Live(r) PROVE GroupOf(r)' /\ CountOf(r)'
  <2>1. GroupOf(r) /\ CountOf(r)
    BY <1>10 DEF Inv, GroupInv, CountInv
  <2>2. \A s \in Slots : Used(s) => Used(s)'
    BY Zenon, <1>1, <1>2 DEF Used, TypeOK
  <2>3. GroupOf(r)'
    BY Zenon, <1>2, <1>5, <1>6, <2>1, <2>2, GroupSame
  <2>4. \A s \in Slots : DoesCount(s)' <=> DoesCount(s)
    BY Zenon, <1>0, <1>2, <1>4, <1>6 DEF DoesCount, TypeOK
  <2>5. CountOf(r)'
    BY Zenon, <1>2, <1>5, <2>1, <2>4, CountSame
  <2>6. QED
    BY Zenon, <2>3, <2>5
<1>11. GroupInv' /\ CountInv'
  BY <1>4, <1>10, Zenon DEF GroupInv, CountInv
<1>12. SleepInv'
  BY <1>1, <1>2, <1>3 DEF Inv, SleepInv, TypeOK
<1>13. NoLostExit'
  <2>1. \A r \in Slots : state'[r] = "SLEEPING" => state[r] = "SLEEPING" /\ pc'[r] = pc[r]
    BY Zenon, <1>1, <1>2 DEF TypeOK
  <2>2. \A k \in Slots : state'[k] = "ZOMBIE" /\ ~isthread'[k] /\ threadnum'[k] = 0 =>
          /\ state[k] = "ZOMBIE" /\ ~isthread[k] /\ threadnum[k] = 0
          /\ parent'[k] = parent[k] /\ pid'[k] = pid[k]
    BY Zenon, <1>2 DEF TypeOK
  <2>3. \A r \in Slots : Live(r) /\ pc[r] = "last_exit" =>
          Live(r)' /\ pc'[r] = "last_exit" /\ pid'[r] = pid[r]
    BY Zenon, <1>0, <1>2, <1>4 DEF TypeOK
  <2>4. QED
    BY Zenon, <2>1, <2>2, <2>3, NothingToHear DEF Inv
<1>14. QED
  BY Zenon, <1>7, <1>8, <1>9, <1>11, <1>12, <1>13 DEF Inv

(* fork: the parent.                                                       *)
LEMMA ForkParentKeeps ==
  ASSUME TypeOK, Inv, NEW p \in Slots, ForkParent(p)
  PROVE  Inv'
<1>0. cur = p /\ pc[p] = "fork" /\ pc[p] \in Fresh \union Joining
  BY DEF ForkParent, At, Fresh, Joining
<1>1. PICK c \in Slots :
           /\ np[p] = c /\ NewSlot(p, c) /\ Creates(p) /\ Live(p) /\ state[p] = "RUNNING"
           /\ c # p /\ ~Live(c) /\ state[c] = "EMBRYO"
           /\ \A r \in Slots : Creates(r) /\ np[r] = c => r = p
           /\ \A r \in Slots : Joins(r, c) \/ Counts(r, c) => r = p
  BY <1>0, Creator
<1>2. /\ pc' = [pc EXCEPT ![p] = "fork_run"]
      /\ parent' = [parent EXCEPT ![c] = MainOf(p)]
      /\ state' = state /\ pid' = pid /\ isthread' = isthread /\ threadnum' = threadnum /\ isjoined' = isjoined
      /\ chan' = chan /\ nextpid' = nextpid /\ cur' = cur /\ np' = np
  BY <1>0, <1>1 DEF ForkParent, Goto
<1>3. /\ \A r \in Slots : Live(r) => MainOf(r) # c /\ pid[r] # pid[c]
      /\ \A r \in Slots : state[r] = "SLEEPING" /\ pc[r] = "join" => chan[r] # c
      /\ \A r \in Slots : ~Joins(r, c) /\ ~Counts(r, c)
  BY Zenon, <1>0, <1>1, Nobodys DEF Inv, Fresh
<1>4. \A r \in Slots : Live(r)' <=> Live(r)
  BY <1>2 DEF Live
<1>5. \A r \in Slots : r # c => MainOf(r)' = MainOf(r)
  BY Zenon, <1>1, <1>2 DEF MainOf, TypeOK
<1>6. \A r, s \in Slots : (Joins(r, s)' <=> Joins(r, s)) /\ (Counts(r, s)' <=> Counts(r, s))
  BY Zenon, <1>0, <1>2, <1>4 DEF Joins, Counts, Joining, Fresh, TypeOK
<1>7. CpuInv'
  BY Zenon, <1>1, <1>2 DEF Inv, CpuInv, TypeOK
<1>8. PidInv'
  BY <1>0, <1>1, <1>2, <1>4 DEF Inv, PidInv, NewSlot, Fresh, TypeOK
<1>9. CreateInv'
  <2>1. \A r \in Slots : r # p /\ Creates(r)' => Live(r) /\ r # c /\ Creates(r) /\ np'[r] = np[r] /\ np[r] # c
    BY Zenon, <1>1, <1>2, <1>4 DEF Creates, TypeOK, Fresh, Joining
  <2>2. ASSUME NEW r \in Slots, NEW d \in Slots, r # p, Creates(r)', np[r] = d, NewSlot(r, d)
        PROVE  NewSlot(r, d)'
    <3>1. d # c /\ r # c /\ Live(r)
      BY Zenon, <2>1, <2>2
    <3>2. pc'[r] = pc[r]
      BY Zenon, <1>2, <2>2, <3>1 DEF TypeOK
    <3>9. QED
      BY Zenon, <1>2, <1>5, <2>2, <3>1, <3>2, NewSlotSame DEF TypeOK
  <2>3. np'[p] = c /\ NewSlot(p, c)'
    BY <1>0, <1>1, <1>2, <1>5 DEF NewSlot, Fresh, Joining, TypeOK
  <2>4. QED
    BY Zenon, <1>1, <2>1, <2>2, <2>3, CreateSame DEF Inv
<1>10. ASSUME NEW r \in Slots, Live(r) PROVE GroupOf(r)' /\ CountOf(r)'
  <2>1. GroupOf(r) /\ CountOf(r)
    BY <1>10 DEF Inv, GroupInv, CountInv
  <2>2. \A s \in Slots : Used(s) => Used(s)'
    BY <1>2 DEF Used
  <2>5. r # c /\ MainOf(r)' = MainOf(r)
    BY Zenon, <1>1, <1>5, <1>10
  <2>3. GroupOf(r)'
    BY Zenon, <1>2, <1>5, <1>6, <2>1, <2>2, <2>5, GroupSame DEF TypeOK
  <2>4. \A s \in Slots : DoesCount(s)' <=> DoesCount(s)
    BY Zenon, <1>0, <1>1, <1>2, <1>4, <1>6 DEF DoesCount, TypeOK
  <2>6. CountOf(r)'
    BY Zenon, <1>2, <2>1, <2>4, <2>5, CountSame
  <2>7. QED
    BY <2>3, <2>6
<1>11. GroupInv' /\ CountInv'
  BY <1>4, <1>10, Zenon DEF GroupInv, CountInv
<1>12. SleepInv'
  BY Zenon, <1>1, <1>2, <1>3 DEF Inv, SleepInv, TypeOK
<1>13. NoLostExit'
  <2>1. \A r \in Slots : state'[r] = "SLEEPING" => state[r] = "SLEEPING" /\ pc'[r] = pc[r]
    BY Zenon, <1>1, <1>2 DEF TypeOK
  <2>2. \A k \in Slots : state'[k] = "ZOMBIE" /\ ~isthread'[k] /\ threadnum'[k] = 0 =>
          /\ state[k] = "ZOMBIE" /\ ~isthread[k] /\ threadnum[k] = 0
          /\ parent'[k] = parent[k] /\ pid'[k] = pid[k]
    BY Zenon, <1>1, <1>2 DEF TypeOK
  <2>3. \A r \in Slots : Live(r) /\ pc[r] = "last_exit" =>
          Live(r)' /\ pc'[r] = "last_exit" /\ pid'[r] = pid[r]
    BY Zenon, <1>0, <1>1, <1>2, <1>4 DEF TypeOK
  <2>4. QED
    BY Zenon, <2>1, <2>2, <2>3, NothingToHear DEF Inv
<1>14. QED
  BY <1>7, <1>8, <1>9, <1>11, <1>12, <1>13 DEF Inv

(* thread_create: the pid.                                                 *)
LEMMA ThreadPidKeeps ==
  ASSUME TypeOK, Inv, NEW p \in Slots, ThreadPid(p)
  PROVE  Inv'
<1>0. cur = p /\ pc[p] = "tc_pid" /\ pc[p] \in Fresh \union Joining
  BY DEF ThreadPid, At, Fresh, Joining
<1>1. PICK c \in Slots :
           /\ np[p] = c /\ NewSlot(p, c) /\ Creates(p) /\ Live(p) /\ state[p] = "RUNNING"
           /\ c # p /\ ~Live(c) /\ state[c] = "EMBRYO"
           /\ \A r \in Slots : Creates(r) /\ np[r] = c => r = p
           /\ \A r \in Slots : Joins(r, c) \/ Counts(r, c) => r = p
  BY <1>0, Creator
<1>2. /\ pc' = [pc EXCEPT ![p] = "tc_parent"]
      /\ pid' = [pid EXCEPT ![c] = pid[p]]
      /\ state' = state /\ parent' = parent /\ isthread' = isthread /\ threadnum' = threadnum /\ isjoined' = isjoined
      /\ chan' = chan /\ nextpid' = nextpid /\ cur' = cur /\ np' = np
  BY Zenon, <1>0, <1>1 DEF ThreadPid, Goto
<1>3. /\ \A r \in Slots : Live(r) => MainOf(r) # c /\ pid[r] # pid[c]
      /\ \A r \in Slots : state[r] = "SLEEPING" /\ pc[r] = "join" => chan[r] # c
      /\ \A r \in Slots : ~Joins(r, c) /\ ~Counts(r, c)
  BY Zenon, <1>0, <1>1, Nobodys DEF Inv, Fresh
<1>4. \A r \in Slots : Live(r)' <=> Live(r)
  BY Zenon, <1>2 DEF Live
<1>5. \A r \in Slots : MainOf(r)' = MainOf(r)
  BY Zenon, <1>2 DEF MainOf
<1>6. \A r, s \in Slots : (Joins(r, s)' <=> Joins(r, s) \/ (r = p /\ s = c)) /\ (Counts(r, s)' <=> Counts(r, s))
  BY <1>0, <1>1, <1>2, <1>4 DEF Joins, Counts, Joining, Fresh, TypeOK
<1>7. CpuInv'
  BY Zenon, <1>1, <1>2 DEF Inv, CpuInv, TypeOK
<1>8. PidInv'
  BY <1>0, <1>1, <1>2, <1>4 DEF Inv, PidInv, NewSlot, Fresh, TypeOK
<1>9. CreateInv'
  <2>1. \A r \in Slots : r # p /\ Creates(r)' => Live(r) /\ r # c /\ Creates(r) /\ np'[r] = np[r] /\ np[r] # c
    BY Zenon, <1>1, <1>2, <1>4 DEF Creates, TypeOK, Fresh, Joining
  <2>2. ASSUME NEW r \in Slots, NEW d \in Slots, r # p, Creates(r)', np[r] = d, NewSlot(r, d)
        PROVE  NewSlot(r, d)'
    <3>1. d # c /\ r # c /\ Live(r)
      BY Zenon, <2>1, <2>2
    <3>2. pc'[r] = pc[r]
      BY Zenon, <1>2, <2>2, <3>1 DEF TypeOK
    <3>3. pc[r] \in Fresh => pid[p] # pid[d]
      BY Zenon, <1>1, <2>2 DEF NewSlot, Live
    <3>9. QED
      BY Zenon, <1>2, <1>5, <2>2, <3>1, <3>2, <3>3, NewSlotSame DEF TypeOK
  <2>3. np'[p] = c /\ NewSlot(p, c)'
    BY Zenon, <1>0, <1>1, <1>2, <1>5 DEF NewSlot, Fresh, Joining, TypeOK
  <2>4. QED
    BY Zenon, <1>1, <2>1, <2>2, <2>3, CreateSame DEF Inv
<1>10. ASSUME NEW r \in Slots, Live(r) PROVE GroupOf(r)' /\ CountOf(r)'
  <2>1. GroupOf(r) /\ CountOf(r)
    BY <1>10 DEF Inv, GroupInv, CountInv
  <2>2. \A s \in Slots : Used(s) => Used(s)'
    BY <1>2 DEF Used
  <2>5. r # c /\ MainOf(r)' = MainOf(r)
    BY Zenon, <1>1, <1>5, <1>10
  <2>3. GroupOf(r)'
    BY Zenon, <1>1, <1>2, <1>3, <1>5, <1>6, <1>10, <2>1, <2>2, <2>5, GroupSame DEF TypeOK
  <2>4. \A s \in Slots : (DoesCount(s)' <=> DoesCount(s)) /\ ~DoesCount(c)
    BY <1>0, <1>1, <1>2, <1>3, <1>4, <1>6 DEF DoesCount, TypeOK
  <2>6. CountOf(r)'
    BY Zenon, <1>2, <2>1, <2>4, <2>5, CountSame DEF TypeOK
  <2>7. QED
    BY <2>3, <2>6
<1>11. GroupInv' /\ CountInv'
  BY <1>4, <1>10, Zenon DEF GroupInv, CountInv
<1>12. SleepInv'
  BY <1>1, <1>2, <1>3 DEF Inv, SleepInv, TypeOK
<1>13. NoLostExit'
  <2>1. \A r \in Slots : state'[r] = "SLEEPING" => state[r] = "SLEEPING" /\ pc'[r] = pc[r]
    BY Zenon, <1>1, <1>2 DEF TypeOK
  <2>2. \A k \in Slots : state'[k] = "ZOMBIE" /\ ~isthread'[k] /\ threadnum'[k] = 0 =>
          /\ state[k] = "ZOMBIE" /\ ~isthread[k] /\ threadnum[k] = 0
          /\ parent'[k] = parent[k] /\ pid'[k] = pid[k]
    BY Zenon, <1>1, <1>2 DEF TypeOK
  <2>3. \A r \in Slots : Live(r) /\ pc[r] = "last_exit" =>
          Live(r)' /\ pc'[r] = "last_exit" /\ pid'[r] = pid[r]
    BY Zenon, <1>0, <1>1, <1>2, <1>4 DEF TypeOK
  <2>4. QED
    BY Zenon, <2>1, <2>2, <2>3, NothingToHear DEF Inv
<1>14. QED
  BY <1>7, <1>8, <1>9, <1>11, <1>12, <1>13 DEF Inv

(* thread_create: the parent.                                              *)
LEMMA ThreadParentKeeps ==
  ASSUME TypeOK, Inv, NEW p \in Slots, ThreadParent(p)
  PROVE  Inv'
<1>0. cur = p /\ pc[p] = "tc_parent" /\ pc[p] \in Fresh \union Joining
  BY DEF ThreadParent, At, Fresh, Joining
<1>1. PICK c \in Slots :
           /\ np[p] = c /\ NewSlot(p, c) /\ Creates(p) /\ Live(p) /\ state[p] = "RUNNING"
           /\ c # p /\ ~Live(c) /\ state[c] = "EMBRYO"
           /\ \A r \in Slots : Creates(r) /\ np[r] = c => r = p
           /\ \A r \in Slots : Joins(r, c) \/ Counts(r, c) => r = p
  BY <1>0, Creator
<1>2. /\ pc' = [pc EXCEPT ![p] = "tc_count"]
      /\ parent' = [parent EXCEPT ![c] = MainOf(p)]
      /\ state' = state /\ pid' = pid /\ isthread' = isthread /\ threadnum' = threadnum /\ isjoined' = isjoined
      /\ chan' = chan /\ nextpid' = nextpid /\ cur' = cur /\ np' = np
  BY <1>0, <1>1 DEF ThreadParent, Goto
<1>4. \A r \in Slots : Live(r)' <=> Live(r)
  BY <1>2 DEF Live
<1>5. \A r \in Slots : r # c => MainOf(r)' = MainOf(r)
  BY Zenon, <1>1, <1>2 DEF MainOf, TypeOK
<1>6. \A r, s \in Slots : (Joins(r, s)' <=> Joins(r, s)) /\ (Counts(r, s)' <=> Counts(r, s))
  BY Zenon, <1>0, <1>2, <1>4 DEF Joins, Counts, Joining, Fresh, TypeOK
<1>7. CpuInv'
  BY Zenon, <1>1, <1>2 DEF Inv, CpuInv, TypeOK
<1>8. PidInv'
  BY <1>0, <1>1, <1>2, <1>4 DEF Inv, PidInv, NewSlot, Fresh, TypeOK
<1>9. CreateInv'
  <2>1. \A r \in Slots : r # p /\ Creates(r)' => Live(r) /\ r # c /\ Creates(r) /\ np'[r] = np[r] /\ np[r] # c
    BY Zenon, <1>1, <1>2, <1>4 DEF Creates, TypeOK, Fresh, Joining
  <2>2. ASSUME NEW r \in Slots, NEW d \in Slots, r # p, Creates(r)', np[r] = d, NewSlot(r, d)
        PROVE  NewSlot(r, d)'
    <3>1. d # c /\ r # c /\ Live(r)
      BY Zenon, <2>1, <2>2
    <3>2. pc'[r] = pc[r]
      BY Zenon, <1>2, <2>2, <3>1 DEF TypeOK
    <3>9. QED
      BY Zenon, <1>2, <1>5, <2>2, <3>1, <3>2, NewSlotSame DEF TypeOK
  <2>3. np'[p] = c /\ NewSlot(p, c)'
    BY Zenon, <1>0, <1>1, <1>2, <1>5 DEF NewSlot, Fresh, Joining, TypeOK
  <2>4. QED
    BY Zenon, <1>1, <2>1, <2>2, <2>3, CreateSame DEF Inv
<1>10. ASSUME NEW r \in Slots, Live(r) PROVE GroupOf(r)' /\ CountOf(r)'
  <2>1. GroupOf(r) /\ CountOf(r)
    BY <1>10 DEF Inv, GroupInv, CountInv
  <2>2. \A s \in Slots : Used(s) => Used(s)'
    BY <1>2 DEF Used
  <2>5. r # c /\ MainOf(r)' = MainOf(r)
    BY Zenon, <1>1, <1>5, <1>10
  <2>3. GroupOf(r)'
    BY Zenon, <1>2, <1>5, <1>6, <2>1, <2>2, <2>5, GroupSame DEF TypeOK
  <2>4. \A s \in Slots : DoesCount(s)' <=> DoesCount(s)
    BY <1>0, <1>1, <1>2, <1>4, <1>6 DEF DoesCount, TypeOK
  <2>6. CountOf(r)'
    BY <1>2, <2>1, <2>4, <2>5, CountSame
  <2>7. QED
    BY <2>3, <2>6
<1>11. GroupInv' /\ CountInv'
  BY <1>4, <1>10, Zenon DEF GroupInv, CountInv
<1>12. SleepInv'
  BY <1>1, <1>2 DEF Inv, SleepInv, TypeOK
<1>13. NoLostExit'
  <2>1. \A r \in Slots : state'[r] = "SLEEPING" => state[r] = "SLEEPING" /\ pc'[r] = pc[r]
    BY Zenon, <1>1, <1>2 DEF TypeOK
  <2>2. \A k \in Slots : state'[k] = "ZOMBIE" /\ ~isthread'[k] /\ threadnum'[k] = 0 =>
          /\ state[k] = "ZOMBIE" /\ ~isthread[k] /\ threadnum[k] = 0
          /\ parent'[k] = parent[k] /\ pid'[k] = pid[k]
    BY Zenon, <1>1, <1>2 DEF TypeOK
  <2>3. \A r \in Slots : Live(r) /\ pc[r] = "last_exit" =>
          Live(r)' /\ pc'[r] = "last_exit" /\ pid'[r] = pid[r]
    BY Zenon, <1>0, <1>1, <1>2, <1>4 DEF TypeOK
  <2>4. QED
    BY Zenon, <2>1, <2>2, <2>3, NothingToHear DEF Inv
<1>14. QED
  BY Zenon, <1>7, <1>8, <1>9, <1>11, <1>12, <1>13 DEF Inv

(* thread_create: isthread and isjoined.                                   *)
LEMMA ThreadFlagKeeps ==
  ASSUME TypeOK, Inv, NEW p \in Slots, ThreadFlag(p)
  PROVE  Inv'
<1>0. cur = p /\ pc[p] = "tc_flag" /\ pc[p] \in Fresh \union Joining
  BY DEF ThreadFlag, At, Fresh, Joining
<1>1. PICK c \in Slots :
           /\ np[p] = c /\ NewSlot(p, c) /\ Creates(p) /\ Live(p) /\ state[p] = "RUNNING"
           /\ c # p /\ ~Live(c) /\ state[c] = "EMBRYO"
           /\ \A r \in Slots : Creates(r) /\ np[r] = c => r = p
           /\ \A r \in Slots : Joins(r, c) \/ Counts(r, c) => r = p
  BY Zenon, <1>0, Creator
<1>2. /\ pc' = [pc EXCEPT ![p] = "tc_run"]
      /\ isthread' = [isthread EXCEPT ![c] = TRUE]
      /\ isjoined' = [isjoined EXCEPT ![c] = FALSE]
      /\ state' = state /\ pid' = pid /\ parent' = parent /\ threadnum' = threadnum /\ chan' = chan
      /\ nextpid' = nextpid /\ cur' = cur /\ np' = np
  BY <1>0, <1>1 DEF ThreadFlag, Goto
<1>4. \A r \in Slots : Live(r)' <=> Live(r)
  BY <1>2 DEF Live
<1>5. \A r \in Slots : r # c => MainOf(r)' = MainOf(r)
  BY Zenon, <1>1, <1>2 DEF MainOf, TypeOK
<1>6. \A r, s \in Slots : (Joins(r, s)' <=> Joins(r, s)) /\ (Counts(r, s)' <=> Counts(r, s))
  BY <1>0, <1>2, <1>4 DEF Joins, Counts, Joining, Fresh, TypeOK
<1>7. CpuInv'
  BY Zenon, <1>1, <1>2 DEF Inv, CpuInv, TypeOK
<1>8. PidInv'
  BY Zenon, <1>0, <1>1, <1>2, <1>4 DEF Inv, PidInv, NewSlot, Fresh, TypeOK
<1>9. CreateInv'
  <2>1. \A r \in Slots : r # p /\ Creates(r)' => Live(r) /\ r # c /\ Creates(r) /\ np'[r] = np[r] /\ np[r] # c
    BY <1>1, <1>2, <1>4 DEF Creates, TypeOK, Fresh, Joining
  <2>2. ASSUME NEW r \in Slots, NEW d \in Slots, r # p, Creates(r)', np[r] = d, NewSlot(r, d)
        PROVE  NewSlot(r, d)'
    <3>1. d # c /\ r # c /\ Live(r)
      BY <2>1, <2>2
    <3>2. pc'[r] = pc[r]
      BY Zenon, <1>2, <2>2, <3>1 DEF TypeOK
    <3>9. QED
      BY Zenon, <1>2, <1>5, <2>2, <3>1, <3>2, NewSlotSame DEF TypeOK
  <2>3. np'[p] = c /\ NewSlot(p, c)'
    BY Zenon, <1>0, <1>1, <1>2, <1>5 DEF NewSlot, Fresh, Joining, TypeOK
  <2>4. QED
    BY <1>1, <2>1, <2>2, <2>3, CreateSame DEF Inv
<1>10. ASSUME NEW r \in Slots, Live(r) PROVE GroupOf(r)' /\ CountOf(r)'
  <2>1. GroupOf(r) /\ CountOf(r)
    BY <1>10 DEF Inv, GroupInv, CountInv
  <2>2. \A s \in Slots : Used(s) => Used(s)'
    BY Zenon, <1>2 DEF Used
  <2>5. r # c /\ MainOf(r)' = MainOf(r)
    BY Zenon, <1>1, <1>5, <1>10
  <2>8. \A s \in Slots : Used(s) => isthread'[s] = isthread[s]
    BY Zenon, <1>1, <1>2 DEF Used, TypeOK
  <2>3. GroupOf(r)'
    BY Zenon, <1>2, <1>6, <2>1, <2>2, <2>5, <2>8, GroupSame
  <2>4. \A s \in Slots : DoesCount(s)' <=> DoesCount(s)
    BY Zenon, <1>0, <1>1, <1>2, <1>4, <1>6 DEF DoesCount, TypeOK
  <2>6. CountOf(r)'
    BY Zenon, <1>2, <2>1, <2>4, <2>5, CountSame
  <2>7. QED
    BY <2>3, <2>6
<1>11. GroupInv' /\ CountInv'
  BY <1>4, <1>10, Zenon DEF GroupInv, CountInv
<1>12. SleepInv'
  BY <1>1, <1>2 DEF Inv, SleepInv, TypeOK
<1>13. NoLostExit'
  <2>1. \A r \in Slots : state'[r] = "SLEEPING" => state[r] = "SLEEPING" /\ pc'[r] = pc[r]
    BY Zenon, <1>1, <1>2 DEF TypeOK
  <2>2. \A k \in Slots : state'[k] = "ZOMBIE" /\ ~isthread'[k] /\ threadnum'[k] = 0 =>
          /\ state[k] = "ZOMBIE" /\ ~isthread[k] /\ threadnum[k] = 0
          /\ parent'[k] = parent[k] /\ pid'[k] = pid[k]
    BY Zenon, <1>1, <1>2 DEF TypeOK
  <2>3. \A r \in Slots : Live(r) /\ pc[r] = "last_exit" =>
          Live(r)' /\ pc'[r] = "last_exit" /\ pid'[r] = pid[r]
    BY Zenon, <1>0, <1>1, <1>2, <1>4 DEF TypeOK
  <2>4. QED
    BY Zenon, <2>1, <2>2, <2>3, NothingToHear DEF Inv
<1>14. QED
  BY Zenon, <1>7, <1>8, <1>9, <1>11, <1>12, <1>13 DEF Inv

(* Two live threads with the same pid have the same main thread.           *)
LEMMA OneMain ==
  ASSUME CreateInv, GroupInv, NEW p \in Slots, NEW r \in Slots, Live(p), Live(r), pid[r] = pid[p]
  PROVE  MainOf(r) = MainOf(p)
<1>1. PICK m \in Slots : m = MainOf(r) /\ ~isthread[m] /\ pid[m] = pid[r] /\ Used(m)
  BY Zenon DEF GroupInv, GroupOf
<1>2. \A x \in Slots : ~Joins(x, m)
  BY <1>1 DEF CreateInv, NewSlot, Joins, Creates, Used
<1>3. GroupOf(p) /\ pid[m] = pid[p]
  BY <1>1 DEF GroupInv
<1>4. m = MainOf(p)
  BY <1>1, <1>2, <1>3, Zenon DEF GroupOf
<1>5. QED
  BY Zenon, <1>1, <1>4

(* The threads that count are some of the slots.                           *)
LEMMA CountedSlots == \A g : Counted(g) \in SUBSET Slots
BY Zenon DEF Counted

(* thread_create: the count.                                               *)
LEMMA ThreadCountKeeps ==
  ASSUME Cardinals, TypeOK, Inv, NEW p \in Slots, ThreadCount(p)
  PROVE  Inv'
<1>0. cur = p /\ pc[p] = "tc_count" /\ pc[p] \in Fresh \union Joining
  BY DEF ThreadCount, At, Fresh, Joining
<1>1. PICK c \in Slots :
           /\ np[p] = c /\ NewSlot(p, c) /\ Creates(p) /\ Live(p) /\ state[p] = "RUNNING"
           /\ c # p /\ ~Live(c) /\ state[c] = "EMBRYO"
           /\ \A r \in Slots : Creates(r) /\ np[r] = c => r = p
           /\ \A r \in Slots : Joins(r, c) \/ Counts(r, c) => r = p
  BY <1>0, Creator
<1>2. PICK m \in Slots : m = MainOf(p) /\ parent[c] = m /\ ~isthread[m] /\ pid[m] = pid[p] /\ Used(m)
  BY <1>0, <1>1 DEF Inv, GroupInv, GroupOf, NewSlot
<1>3. /\ pc' = [pc EXCEPT ![p] = "tc_flag"] /\ threadnum' = [threadnum EXCEPT ![m] = @ + 1]
      /\ state' = state /\ pid' = pid /\ parent' = parent /\ isthread' = isthread
      /\ isjoined' = isjoined /\ chan' = chan /\ nextpid' = nextpid /\ cur' = cur /\ np' = np
  BY Zenon, <1>1, <1>2 DEF ThreadCount, Goto
<1>4. \A r \in Slots : (Live(r)' <=> Live(r)) /\ (Used(r)' <=> Used(r)) /\ MainOf(r)' = MainOf(r)
  BY <1>3 DEF Live, Used, MainOf
<1>5. \A r, s \in Slots : /\ Joins(r, s)' <=> Joins(r, s)
                          /\ Counts(r, s)' <=> Counts(r, s) \/ (r = p /\ s = c)
  BY <1>0, <1>1, <1>3, <1>4 DEF Joins, Counts, Joining, Fresh, TypeOK
<1>6. \A s \in Slots : /\ DoesCount(s)' <=> DoesCount(s) \/ s = c
                       /\ ~DoesCount(c)
  <2>1. ~DoesCount(c)
    BY <1>0, <1>1 DEF DoesCount, Counts
  <2>2. \A s \in Slots : Live(s) => (pc'[s] = "last_exit" <=> pc[s] = "last_exit")
    BY <1>0, <1>3 DEF TypeOK
  <2>3. QED
    BY Zenon, <1>4, <1>5, <2>1, <2>2 DEF DoesCount
<1>7. CpuInv'
  BY <1>3 DEF Inv, CpuInv
<1>8. PidInv'
  BY Zenon, <1>3, <1>4 DEF Inv, PidInv
<1>9. CreateInv'
  <2>1. \A r \in Slots : r # p /\ Creates(r)' => Creates(r) /\ np'[r] = np[r] /\ np[r] # c
    BY Zenon, <1>1, <1>3, <1>4 DEF Creates, TypeOK
  <2>2. ASSUME NEW r \in Slots, NEW d \in Slots, r # p, Creates(r)', np[r] = d, NewSlot(r, d)
        PROVE  NewSlot(r, d)'
    <3>1. d # m
      BY Zenon, <1>2, <2>2 DEF NewSlot, Used
    <3>2. pc'[r] = pc[r] /\ threadnum'[d] = threadnum[d]
      BY Zenon, <1>3, <2>2, <3>1 DEF TypeOK
    <3>3. QED
      BY Zenon, <1>3, <1>4, <2>2, <3>2, NewSlotSame
  <2>3. np'[p] = c /\ NewSlot(p, c)'
    BY Zenon, <1>0, <1>1, <1>3, <1>4 DEF NewSlot, Fresh, Joining, TypeOK
  <2>4. QED
    BY Zenon, <2>1, <2>2, <2>3, CreateSame DEF Inv
<1>10. ASSUME NEW r \in Slots, Live(r) PROVE GroupOf(r)' /\ CountOf(r)'
  <2>1. GroupOf(r) /\ CountOf(r)
    BY <1>10 DEF Inv, GroupInv, CountInv
  <2>2. GroupOf(r)'
    BY Zenon, <1>3, <1>4, <1>5, <2>1, GroupSame
  <2>3. CASE pid[r] = pid[p]
    <3>1. MainOf(r) = m
      BY Zenon, <1>1, <1>2, <1>10, <2>3, OneMain DEF Inv
    <3>2. Counted(pid[r])' = Counted(pid[r]) \union {c} /\ c \notin Counted(pid[r])
      <4>1. pid[c] = pid[r]
        BY Zenon, <1>0, <1>1, <2>3 DEF NewSlot, Joining
      <4>2. QED
        BY Zenon, <1>3, <1>6, <4>1 DEF Counted
    <3>3. Cardinality(Counted(pid[r])') = Cardinality(Counted(pid[r])) + 1
      BY Zenon, <1>1, <3>2, CountedSlots DEF Cardinals
    <3>4. threadnum'[m] = threadnum[m] + 1
      BY Zenon, <1>2, <1>3 DEF TypeOK
    <3>5. QED
      BY Zenon, <1>4, <2>1, <2>2, <3>1, <3>3, <3>4 DEF CountOf
  <2>4. CASE pid[r] # pid[p]
    <3>1. threadnum'[MainOf(r)] = threadnum[MainOf(r)]
      BY Zenon, <1>2, <1>3, <2>1, <2>4 DEF GroupOf, TypeOK
    <3>2. pid[c] # pid[r]
      BY Zenon, <1>0, <1>1, <2>4 DEF NewSlot, Joining
    <3>3. QED
      BY Zenon, <1>3, <1>4, <1>6, <2>1, <2>2, <3>1, <3>2, CountSame
  <2>5. QED
    BY <2>3, <2>4
<1>11. GroupInv' /\ CountInv'
  BY <1>4, <1>10, Zenon DEF GroupInv, CountInv
<1>12. SleepInv'
  BY <1>1, <1>3 DEF Inv, SleepInv, TypeOK
<1>13. NoLostExit'
  <2>1. \A r \in Slots : state'[r] = "SLEEPING" => state[r] = "SLEEPING" /\ pc'[r] = pc[r]
    BY Zenon, <1>1, <1>3 DEF TypeOK
  <2>2. threadnum[m] \in Nat /\ threadnum'[m] = threadnum[m] + 1
    BY <1>1, <1>2, <1>3, CountedSlots DEF Cardinals, Inv, CountInv, CountOf, TypeOK
  <2>3. \A k \in Slots : state'[k] = "ZOMBIE" /\ ~isthread'[k] /\ threadnum'[k] = 0 =>
          /\ state[k] = "ZOMBIE" /\ ~isthread[k] /\ threadnum[k] = 0
          /\ parent'[k] = parent[k] /\ pid'[k] = pid[k]
    BY <1>2, <1>3, <2>2 DEF TypeOK
  <2>4. \A r \in Slots : Live(r) /\ pc[r] = "last_exit" =>
          Live(r)' /\ pc'[r] = "last_exit" /\ pid'[r] = pid[r]
    BY Zenon, <1>0, <1>3, <1>4 DEF TypeOK
  <2>5. QED
    BY Zenon, <2>1, <2>3, <2>4, NothingToHear DEF Inv
<1>14. QED
  BY <1>7, <1>8, <1>9, <1>11, <1>12, <1>13 DEF Inv

(* fork: the new process may run.                                          *)
LEMMA ForkRunKeeps ==
  ASSUME Cardinals, TypeOK, Inv, NEW p \in Slots, ForkRun(p)
  PROVE  Inv'
<1>0. cur = p /\ pc[p] = "fork_run" /\ pc[p] \in Fresh
  BY DEF ForkRun, At, Fresh
<1>1. PICK c \in Slots :
           /\ np[p] = c /\ NewSlot(p, c) /\ Creates(p) /\ Live(p) /\ state[p] = "RUNNING"
           /\ c # p /\ ~Live(c) /\ state[c] = "EMBRYO"
           /\ \A r \in Slots : Creates(r) /\ np[r] = c => r = p
  BY <1>0, Creator
<1>2. /\ pc' = [pc EXCEPT ![p] = "user", ![c] = "user"] /\ state' = [state EXCEPT ![c] = "RUNNABLE"]
      /\ np' = [np EXCEPT ![p] = None]
      /\ isthread' = [isthread EXCEPT ![c] = FALSE] /\ isjoined' = [isjoined EXCEPT ![c] = FALSE]
      /\ pid' = pid /\ parent' = parent /\ threadnum' = threadnum
      /\ chan' = chan /\ nextpid' = nextpid /\ cur' = cur
  BY <1>1 DEF ForkRun, Start
<1>3. /\ \A r \in Slots : Live(r) => MainOf(r) # c /\ pid[r] # pid[c]
      /\ \A r \in Slots : state[r] = "SLEEPING" /\ pc[r] = "join" => chan[r] # c
      /\ \A r \in Slots : ~Joins(r, c) /\ ~Counts(r, c)
  BY <1>0, <1>1, Nobodys DEF Inv
<1>4. \A r \in Slots : Live(r)' <=> Live(r) \/ r = c
  BY <1>1, <1>2 DEF Live, TypeOK
<1>5. \A r \in Slots : r # c => MainOf(r)' = MainOf(r)
  BY <1>2 DEF MainOf, TypeOK
<1>6. \A r, s \in Slots : (Joins(r, s)' <=> Joins(r, s)) /\ (Counts(r, s)' <=> Counts(r, s))
  BY <1>0, <1>1, <1>2, <1>4 DEF Joins, Counts, Joining, Fresh, TypeOK
<1>7. CpuInv'
  BY Zenon, <1>0, <1>1, <1>2 DEF Inv, CpuInv, TypeOK
<1>8. PidInv'
  BY <1>0, <1>1, <1>2, <1>4 DEF Inv, PidInv, NewSlot, TypeOK
<1>9. CreateInv'
  <2>1. \A r \in Slots : Creates(r)' => r # p /\ r # c /\ Creates(r) /\ np'[r] = np[r] /\ np[r] # c
    BY <1>1, <1>2, <1>4 DEF Creates, TypeOK, Fresh, Joining
  <2>2. ASSUME NEW r \in Slots, NEW d \in Slots, r # p, Creates(r)', np[r] = d, NewSlot(r, d)
        PROVE  NewSlot(r, d)'
    <3>1. d # c /\ r # c
      BY Zenon, <2>1, <2>2
    <3>2. state'[d] = state[d] /\ pc'[r] = pc[r] /\ isthread'[d] = isthread[d]
      BY Zenon, <1>2, <2>2, <3>1 DEF TypeOK
    <3>3. QED
      BY Zenon, <1>2, <1>5, <2>2, <3>1, <3>2, NewSlotSame
  <2>3. QED
    BY Zenon, <2>1, <2>2, CreateSame DEF Inv
<1>10. ASSUME NEW r \in Slots, Live(r) PROVE GroupOf(r)' /\ CountOf(r)'
  <2>1. GroupOf(r) /\ CountOf(r) /\ r # c /\ MainOf(r)' = MainOf(r) /\ pid[r] # pid[c]
    BY Zenon, <1>1, <1>3, <1>5, <1>10 DEF Inv, GroupInv, CountInv
  <2>2. \A s \in Slots : pid[s] = pid[r] => (Used(s) => Used(s)') /\ isthread'[s] = isthread[s]
    BY Zenon, <1>2, <2>1 DEF Used, TypeOK
  <2>3. GroupOf(r)'
    BY Zenon, <1>2, <1>6, <2>1, <2>2, GroupSame
  <2>4. \A s \in Slots : s # c => (DoesCount(s)' <=> DoesCount(s))
    BY Zenon, <1>0, <1>2, <1>4, <1>6 DEF DoesCount, TypeOK
  <2>5. CountOf(r)'
    BY <1>2, <2>1, <2>4, CountSame
  <2>6. QED
    BY <2>3, <2>5
<1>11. GroupOf(c)' /\ CountOf(c)'
  <2>1. MainOf(c)' = c /\ ~isthread'[c] /\ Used(c)' /\ pid'[c] = pid[c]
    BY Zenon, <1>2 DEF MainOf, Used, TypeOK
  <2>2. \A s \in Slots : pid'[s] = pid'[c] => s = c
    BY Zenon, <1>0, <1>1, <1>2 DEF NewSlot
  <2>3. GroupOf(c)'
    BY <2>1, <2>2, Zenon DEF GroupOf
  <2>4. DoesCount(c)'
    BY Zenon, <1>2, <1>4 DEF DoesCount, TypeOK
  <2>5. Counted(pid[c])' = {c}
    BY <2>1, <2>2, <2>4, Zenon DEF Counted
  <2>6. Cardinality({c}) = 1
    BY Zenon DEF Cardinals
  <2>7. threadnum'[c] = 1
    BY Zenon, <1>0, <1>1, <1>2 DEF NewSlot
  <2>8. QED
    BY Zenon, <2>1, <2>3, <2>5, <2>6, <2>7 DEF CountOf
<1>12. GroupInv' /\ CountInv'
  BY <1>4, <1>10, <1>11, Zenon DEF GroupInv, CountInv
<1>13. SleepInv'
  BY <1>1, <1>2, <1>3 DEF Inv, SleepInv, TypeOK
<1>14. NoLostExit'
  <2>1. \A r \in Slots : state'[r] = "SLEEPING" => state[r] = "SLEEPING" /\ pc'[r] = pc[r]
    BY Zenon, <1>1, <1>2 DEF TypeOK
  <2>2. \A k \in Slots : state'[k] = "ZOMBIE" /\ ~isthread'[k] /\ threadnum'[k] = 0 =>
          /\ state[k] = "ZOMBIE" /\ ~isthread[k] /\ threadnum[k] = 0
          /\ parent'[k] = parent[k] /\ pid'[k] = pid[k]
    BY Zenon, <1>1, <1>2 DEF TypeOK
  <2>3. \A r \in Slots : Live(r) /\ pc[r] = "last_exit" =>
          Live(r)' /\ pc'[r] = "last_exit" /\ pid'[r] = pid[r]
    BY Zenon, <1>0, <1>1, <1>2, <1>4 DEF TypeOK
  <2>4. QED
    BY Zenon, <2>1, <2>2, <2>3, NothingToHear DEF Inv
<1>15. QED
  BY <1>7, <1>8, <1>9, <1>12, <1>13, <1>14 DEF Inv

(* thread_create: the new thread may run.                                  *)
LEMMA ThreadRunKeeps ==
  ASSUME TypeOK, Inv, NEW p \in Slots, ThreadRun(p)
  PROVE  Inv'
<1>0. cur = p /\ pc[p] = "tc_run" /\ pc[p] \in Joining
  BY Zenon DEF ThreadRun, At, Joining
<1>1. PICK c \in Slots :
           /\ np[p] = c /\ NewSlot(p, c) /\ Creates(p) /\ Live(p) /\ state[p] = "RUNNING"
           /\ c # p /\ ~Live(c) /\ state[c] = "EMBRYO"
           /\ \A r \in Slots : Creates(r) /\ np[r] = c => r = p
           /\ \A r \in Slots : Joins(r, c) \/ Counts(r, c) => r = p
  BY <1>0, Creator
<1>2. /\ pc' = [pc EXCEPT ![p] = "user", ![c] = "user"] /\ state' = [state EXCEPT ![c] = "RUNNABLE"]
      /\ np' = [np EXCEPT ![p] = None]
      /\ isthread' = isthread /\ isjoined' = isjoined
      /\ pid' = pid /\ parent' = parent /\ threadnum' = threadnum
      /\ chan' = chan /\ nextpid' = nextpid /\ cur' = cur
  BY <1>1 DEF ThreadRun, Start
<1>3. isthread[c] /\ parent[c] = MainOf(p) /\ pid[c] = pid[p]
  BY <1>0, <1>1 DEF NewSlot, Joining
<1>4. \A r \in Slots : Live(r)' <=> Live(r) \/ r = c
  BY <1>1, <1>2 DEF Live, TypeOK
<1>5. (\A r \in Slots : MainOf(r)' = MainOf(r)) /\ MainOf(c) = MainOf(p)
  BY <1>2, <1>3 DEF MainOf
<1>6. \A r, s \in Slots : /\ Joins(r, s)' <=> Joins(r, s) /\ s # c
                          /\ Counts(r, s)' <=> Counts(r, s) /\ s # c
  BY <1>0, <1>1, <1>2, <1>4 DEF Joins, Counts, Joining, TypeOK
<1>7. CpuInv'
  BY Zenon, <1>0, <1>1, <1>2 DEF Inv, CpuInv, TypeOK
<1>8. PidInv'
  BY <1>1, <1>2, <1>3, <1>4 DEF Inv, PidInv, TypeOK
<1>9. CreateInv'
  <2>1. \A r \in Slots : Creates(r)' => r # p /\ r # c /\ Creates(r) /\ np'[r] = np[r] /\ np[r] # c
    BY <1>1, <1>2, <1>4 DEF Creates, TypeOK, Fresh, Joining
  <2>2. ASSUME NEW r \in Slots, NEW d \in Slots, r # p, Creates(r)', np[r] = d, NewSlot(r, d)
        PROVE  NewSlot(r, d)'
    <3>1. d # c /\ r # c
      BY Zenon, <2>1, <2>2
    <3>2. state'[d] = state[d] /\ pc'[r] = pc[r]
      BY Zenon, <1>2, <2>2, <3>1 DEF TypeOK
    <3>3. QED
      BY Zenon, <1>2, <1>5, <2>2, <3>1, <3>2, NewSlotSame
  <2>3. QED
    BY Zenon, <2>1, <2>2, CreateSame DEF Inv
<1>10. ASSUME NEW r \in Slots, Live(r) PROVE GroupOf(r)' /\ CountOf(r)'
  <2>1. GroupOf(r) /\ CountOf(r)
    BY Zenon, <1>10 DEF Inv, GroupInv, CountInv
  <2>2. (\A s \in Slots : Used(s) => Used(s)') /\ Used(c)'
    BY Zenon, <1>1, <1>2 DEF Used, TypeOK
  <2>3. GroupOf(r)'
    BY Zenon, <1>2, <1>3, <1>5, <1>6, <2>1, <2>2, GroupSame
  <2>4. \A s \in Slots : DoesCount(s)' <=> DoesCount(s)
    <3>1. DoesCount(c) /\ DoesCount(c)'
      BY Zenon, <1>0, <1>1, <1>2, <1>4 DEF DoesCount, Counts, TypeOK
    <3>2. \A s \in Slots : s # c => (Live(s) /\ pc'[s] = "last_exit" <=> Live(s) /\ pc[s] = "last_exit")
      BY Zenon, <1>0, <1>2 DEF TypeOK
    <3>3. QED
      BY Zenon, <1>4, <1>6, <3>1, <3>2 DEF DoesCount
  <2>5. CountOf(r)'
    BY Zenon, <1>2, <1>5, <2>1, <2>4, CountSame
  <2>6. QED
    BY Zenon, <2>3, <2>5
<1>11. GroupOf(c)' /\ CountOf(c)'
  <2>1. GroupOf(p)' /\ CountOf(p)' /\ MainOf(c)' = MainOf(p)' /\ pid'[c] = pid'[p]
    BY Zenon, <1>1, <1>2, <1>3, <1>5, <1>10
  <2>2. QED
    BY <2>1, Zenon DEF GroupOf, CountOf
<1>12. GroupInv' /\ CountInv'
  BY <1>4, <1>10, <1>11, Zenon DEF GroupInv, CountInv
<1>13. SleepInv'
  BY <1>1, <1>2 DEF Inv, SleepInv, TypeOK
<1>14. NoLostExit'
  <2>1. \A r \in Slots : state'[r] = "SLEEPING" => state[r] = "SLEEPING" /\ pc'[r] = pc[r]
    BY Zenon, <1>1, <1>2 DEF TypeOK
  <2>2. \A k \in Slots : state'[k] = "ZOMBIE" /\ ~isthread'[k] /\ threadnum'[k] = 0 =>
          /\ state[k] = "ZOMBIE" /\ ~isthread[k] /\ threadnum[k] = 0
          /\ parent'[k] = parent[k] /\ pid'[k] = pid[k]
    BY Zenon, <1>1, <1>2 DEF TypeOK
  <2>3. \A r \in Slots : Live(r) /\ pc[r] = "last_exit" =>
          Live(r)' /\ pc'[r] = "last_exit" /\ pid'[r] = pid[r]
    BY Zenon, <1>0, <1>1, <1>2, <1>4 DEF TypeOK
  <2>4. QED
    BY Zenon, <2>1, <2>2, <2>3, NothingToHear DEF Inv
<1>15. QED
  BY <1>7, <1>8, <1>9, <1>12, <1>13, <1>14 DEF Inv

==============================================================================
