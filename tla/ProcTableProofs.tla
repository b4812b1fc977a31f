--------------------------- MODULE ProcTableProofs ---------------------------
(***************************************************************************)
(* Proof, for every size of the table and every program, that wait() and   *)
(* thread_join() do not sleep through the exit they wait for: the steps of *)
(* exit, thread_exit and wait keep the inductive invariant as well.        *)
(***************************************************************************)
EXTENDS ProcTableCreation

(* One thread less counts, in thread_exit.                                 *)
LEMMA CountLess ==
  ASSUME Cardinals, TypeOK, CreateInv, GroupInv, CountInv, NEW p \in Slots, Live(p), pc[p] = "user",
         \A s \in Slots : DoesCount(s)' <=> DoesCount(s) /\ s # p,
         pid' = pid, threadnum' = [threadnum EXCEPT ![MainOf(p)] = @ - 1],
         NEW r \in Slots, Live(r), MainOf(r)' = MainOf(r)
  PROVE  CountOf(r)'
<1>1. GroupOf(p) /\ GroupOf(r) /\ CountOf(r)
  BY DEF GroupInv, CountInv
<1>2. PICK m \in Slots : m = MainOf(p) /\ pid[m] = pid[p]
  BY Zenon, <1>1 DEF GroupOf
<1>3. CASE pid[r] = pid[p]
  <2>1. MainOf(r) = m
    BY <1>2, <1>3, OneMain
  <2>2. p \in Counted(pid[r])
    BY Zenon, <1>3 DEF Counted, DoesCount
  <2>3. Counted(pid[r])' = Counted(pid[r]) \ {p}
    BY Zenon DEF Counted
  <2>4. Cardinality(Counted(pid[r])') = Cardinality(Counted(pid[r])) - 1
    BY Zenon, <2>2, <2>3, CountedSlots DEF Cardinals
  <2>5. threadnum'[m] = threadnum[m] - 1
    BY Zenon, <1>2 DEF TypeOK
  <2>6. QED
    BY Zenon, <1>1, <2>1, <2>4, <2>5 DEF CountOf
<1>4. CASE pid[r] # pid[p]
  <2>1. threadnum'[MainOf(r)] = threadnum[MainOf(r)]
    BY Zenon, <1>1, <1>2, <1>4 DEF GroupOf, TypeOK
  <2>2. \A s \in Slots : pid'[s] = pid[r] /\ DoesCount(s)' <=> pid[s] = pid[r] /\ DoesCount(s)
    BY Zenon, <1>4
  <2>3. QED
    BY Zenon, <1>1, <2>1, <2>2, CountSame
<1>5. QED
  BY <1>3, <1>4

(* thread_exit by the last thread that counts.                             *)
LEMMA LastThreadExitKeeps ==
  ASSUME Cardinals, TypeOK, Inv, NEW p \in Slots, LastThreadExit(p)
  PROVE  Inv'
<1>0. cur = p /\ pc[p] = "user" /\ threadnum[MainOf(p)] = 1
  BY DEF LastThreadExit, Calls, At
<1>1. state[p] = "RUNNING" /\ Live(p)
  BY <1>0, Running DEF Inv
<1>2. PICK m \in Slots : m = MainOf(p) /\ ~isthread[m] /\ pid[m] = pid[p] /\ Used(m)
  BY Zenon, <1>1 DEF Inv, GroupInv, GroupOf
<1>3. /\ pc' = [pc EXCEPT ![p] = "last_exit"] /\ threadnum' = [threadnum EXCEPT ![m] = @ - 1]
      /\ state' = state /\ pid' = pid /\ parent' = parent /\ isthread' = isthread
      /\ isjoined' = isjoined /\ chan' = chan /\ nextpid' = nextpid /\ cur' = cur /\ np' = np
  BY Zenon, <1>2 DEF LastThreadExit, Goto
<1>4. \A r \in Slots : (Live(r)' <=> Live(r)) /\ (Used(r)' <=> Used(r)) /\ MainOf(r)' = MainOf(r)
  BY Zenon, <1>3 DEF Live, Used, MainOf
<1>5. \A r, s \in Slots : (Joins(r, s)' <=> Joins(r, s)) /\ (Counts(r, s)' <=> Counts(r, s))
  BY Zenon, <1>0, <1>3, <1>4 DEF Joins, Counts, Joining, TypeOK
<1>6. \A s \in Slots : DoesCount(s)' <=> DoesCount(s) /\ s # p
  <2>1. \A x \in Slots : ~Counts(x, p)
    BY <1>1 DEF Inv, CreateInv, NewSlot, Counts, Creates, Joining
  <2>2. \A s \in Slots : pc'[s] # "last_exit" <=> pc[s] # "last_exit" /\ s # p
    BY Zenon, <1>3 DEF TypeOK
  <2>3. QED
    BY Zenon, <1>4, <1>5, <2>1, <2>2 DEF DoesCount
<1>7. CpuInv'
  BY Zenon, <1>3 DEF Inv, CpuInv
<1>8. PidInv'
  BY Zenon, <1>3, <1>4 DEF Inv, PidInv
<1>9. CreateInv'
  <2>1. \A r \in Slots : Creates(r)' => r # p /\ Creates(r) /\ np'[r] = np[r]
    BY Zenon, <1>3, <1>4 DEF Creates, TypeOK, Fresh, Joining
  <2>2. ASSUME NEW r \in Slots, NEW d \in Slots, r # p, Creates(r)', np[r] = d, NewSlot(r, d)
        PROVE  NewSlot(r, d)'
    <3>1. d # m
      BY Zenon, <1>2, <2>2 DEF NewSlot, Used
    <3>2. pc'[r] = pc[r] /\ threadnum'[d] = threadnum[d]
      BY Zenon, <1>3, <2>2, <3>1 DEF TypeOK
    <3>3. QED
      BY Zenon, <1>3, <1>4, <2>2, <3>2, NewSlotSame
  <2>3. QED
    BY Zenon, <2>1, <2>2, CreateSame DEF Inv
<1>10. ASSUME NEW r \in Slots, Live(r) PROVE GroupOf(r)' /\ CountOf(r)'
  <2>1. GroupOf(r)
    BY Zenon, <1>10 DEF Inv, GroupInv
  <2>2. GroupOf(r)'
    BY Zenon, <1>3, <1>4, <1>5, <2>1, GroupSame
  <2>3. CountOf(r)'
    BY Zenon, <1>0, <1>1, <1>2, <1>3, <1>4, <1>6, <1>10, CountLess DEF Inv
  <2>4. QED
    BY Zenon, <2>2, <2>3
<1>11. GroupInv' /\ CountInv'
  BY <1>4, <1>10, Zenon DEF GroupInv, CountInv
<1>12. SleepInv'
  BY <1>1, <1>3 DEF Inv, SleepInv, TypeOK
<1>13. NoLostExit'
  <2>1. \A r \in Slots : Live(r)' /\ pc[r] = "last_exit" => pc'[r] = "last_exit"
    BY Zenon, <1>3 DEF TypeOK
  <2>2. ASSUME NEW r \in Slots, state'[r] = "SLEEPING", pc'[r] = "wait", NEW k \in Ready(r)'
        PROVE  \E q \in Slots : pid'[q] = pid'[k] /\ Live(q)' /\ pc'[q] = "last_exit"
    <3>1. CASE k = m
      BY Zenon, <1>1, <1>2, <1>3, <1>4, <3>1 DEF TypeOK
    <3>2. CASE k # m
      <4>1. k \in Slots /\ threadnum'[k] = threadnum[k]
        BY Zenon, <1>3, <2>2, <3>2 DEF Ready, Kids, TypeOK
      <4>2. k \in Ready(r) /\ state[r] = "SLEEPING" /\ pc[r] = "wait"
        BY Zenon, <1>1, <1>3, <2>2, <4>1 DEF Ready, Kids, TypeOK
      <4>3. PICK q \in Slots : pid[q] = pid[k] /\ Live(q) /\ pc[q] = "last_exit"
        BY Zenon, <4>2 DEF Inv, NoLostExit
      <4>4. QED
        BY Zenon, <1>3, <1>4, <2>1, <4>3
    <3>3. QED
      BY Zenon, <3>1, <3>2
  <2>3. QED
    BY <2>2, Zenon DEF NoLostExit
<1>14. QED
  BY <1>7, <1>8, <1>9, <1>11, <1>12, <1>13 DEF Inv

(* thread_exit by another thread.                                          *)
LEMMA ThreadExitKeeps ==
  ASSUME Cardinals, TypeOK, Inv, NEW p \in Slots, ThreadExit(p)
  PROVE  Inv'
<1>0. cur = p /\ pc[p] = "user" /\ threadnum[MainOf(p)] # 1
  BY DEF ThreadExit, Calls, At
<1>1. state[p] = "RUNNING" /\ Live(p)
  BY <1>0, Running DEF Inv
<1>2. PICK m \in Slots : m = MainOf(p) /\ ~isthread[m] /\ pid[m] = pid[p] /\ Used(m)
  BY Zenon, <1>1 DEF Inv, GroupInv, GroupOf
<1>3. /\ threadnum' = [threadnum EXCEPT ![m] = @ - 1] /\ cur' = None
      /\ pc' = pc /\ pid' = pid /\ parent' = parent /\ isthread' = isthread
      /\ isjoined' = isjoined /\ chan' = chan /\ nextpid' = nextpid /\ np' = np
  BY Zenon, <1>2 DEF ThreadExit
<1>4. /\ state'[p] = "ZOMBIE"
      /\ \A r \in Slots : r # p => \/ state'[r] = state[r]
                                   \/ state[r] = "SLEEPING" /\ state'[r] = "RUNNABLE"
      /\ isthread[p] /\ isjoined[p] => \A r \in Slots : chan[r] = p => state'[r] # "SLEEPING"
  BY Zenon, <1>1 DEF ThreadExit, Wake, TypeOK
<1>5. /\ \A r \in Slots : (Live(r)' <=> Live(r) /\ r # p) /\ (Used(r)' <=> Used(r))
      /\ \A r \in Slots : MainOf(r)' = MainOf(r)
  <2>1. \A r \in Slots : (Live(r)' <=> Live(r) /\ r # p) /\ (Used(r)' <=> Used(r))
    BY Zenon, <1>1, <1>4 DEF Live, Used
  <2>2. QED
    BY Zenon, <1>3, <2>1 DEF MainOf
<1>6. \A r, s \in Slots : (Joins(r, s)' <=> Joins(r, s)) /\ (Counts(r, s)' <=> Counts(r, s))
  BY Zenon, <1>0, <1>3, <1>5 DEF Joins, Counts, Joining
<1>7. CpuInv'
  BY Zenon, <1>0, <1>3, <1>4, NoneNoSlot DEF Inv, CpuInv
<1>8. PidInv'
  <2>1. \A r \in Slots : state'[r] = "UNUSED" => state[r] = "UNUSED"
    BY <1>4
  <2>2. QED
    BY Zenon, <1>3, <1>5, <2>1 DEF Inv, PidInv
<1>9. CreateInv'
  <2>1. \A r \in Slots : Creates(r)' => r # p /\ Creates(r) /\ np'[r] = np[r]
    BY Zenon, <1>3, <1>5 DEF Creates
  <2>2. ASSUME NEW r \in Slots, NEW d \in Slots, r # p, Creates(r)', np[r] = d, NewSlot(r, d)
        PROVE  NewSlot(r, d)'
    <3>1. d # m /\ state[d] = "EMBRYO" /\ d # p
      BY Zenon, <1>1, <1>2, <2>2 DEF NewSlot, Used
    <3>2. state'[d] = state[d]
      BY Zenon, <1>4, <3>1
    <3>3. threadnum'[d] = threadnum[d]
      BY Zenon, <1>3, <2>2, <3>1 DEF TypeOK
    <3>4. QED
      BY Zenon, <1>3, <1>5, <2>2, <3>2, <3>3, NewSlotSame
  <2>3. QED
    BY Zenon, <2>1, <2>2, CreateSame DEF Inv
<1>10. ASSUME NEW r \in Slots, Live(r) PROVE GroupOf(r)' /\ CountOf(r)'
  <2>1. GroupOf(r)
    BY Zenon, <1>10 DEF Inv, GroupInv
  <2>2. GroupOf(r)'
    BY Zenon, <1>3, <1>5, <1>6, <2>1, GroupSame
  <2>3. \A s \in Slots : DoesCount(s)' <=> DoesCount(s) /\ s # p
    <3>1. \A x \in Slots : ~Counts(x, p)
      BY <1>1 DEF Inv, CreateInv, NewSlot, Counts, Creates, Joining
    <3>2. QED
      BY Zenon, <1>3, <1>5, <1>6, <3>1 DEF DoesCount
  <2>4. CountOf(r)'
    BY Zenon, <1>0, <1>1, <1>2, <1>3, <1>5, <1>10, <2>3, CountLess DEF Inv
  <2>5. QED
    BY Zenon, <2>2, <2>4
<1>11. GroupInv' /\ CountInv'
  BY <1>5, <1>10, Zenon DEF GroupInv, CountInv
<1>12. SleepInv'
  <2>1. ASSUME NEW r \in Slots, state'[r] = "SLEEPING" PROVE state[r] = "SLEEPING"
    BY Zenon, <1>4, <2>1
  <2>2. ASSUME NEW r \in Slots, state'[r] = "SLEEPING", pc'[r] = "join"
        PROVE  /\ chan'[r] \in Slots /\ isthread'[chan'[r]] /\ pid'[chan'[r]] = pid'[r]
               /\ state'[chan'[r]] # "UNUSED" /\ (isjoined'[chan'[r]] => state'[chan'[r]] # "ZOMBIE")
    <3>1. PICK t \in Slots : /\ t = chan[r] /\ isthread[t] /\ pid[t] = pid[r]
                             /\ state[t] # "UNUSED" /\ (isjoined[t] => state[t] # "ZOMBIE")
      BY Zenon, <1>3, <2>1, <2>2 DEF Inv, SleepInv
    <3>2. isjoined[t] => t # p
      BY Zenon, <1>4, <2>2, <3>1
    <3>3. state'[t] # "UNUSED" /\ (isjoined[t] => state'[t] # "ZOMBIE")
      BY Zenon, <1>4, <3>1, <3>2
    <3>4. QED
      BY Zenon, <1>3, <3>1, <3>3
  <2>3. QED
    BY Zenon, <1>3, <2>1, <2>2 DEF Inv, SleepInv
<1>13. NoLostExit'
  <2>1. \A r \in Slots : state'[r] = "SLEEPING" => state[r] = "SLEEPING" /\ pc'[r] = pc[r]
    BY Zenon, <1>3, <1>4
  <2>2. threadnum'[m] = threadnum[m] - 1 /\ threadnum[m] \in Int /\ threadnum'[m] # 0
    BY <1>0, <1>2, <1>3 DEF TypeOK
  <2>3. ASSUME NEW k \in Slots, state'[k] = "ZOMBIE", ~isthread'[k], threadnum'[k] = 0
        PROVE  /\ state[k] = "ZOMBIE" /\ ~isthread[k] /\ threadnum[k] = 0
               /\ parent'[k] = parent[k] /\ pid'[k] = pid[k]
    <3>1. k # m /\ ~isthread[k]
      BY Zenon, <1>3, <2>2, <2>3
    <3>2. k # p
      BY Zenon, <1>2, <3>1 DEF MainOf
    <3>3. state[k] = "ZOMBIE"
      BY Zenon, <1>4, <2>3, <3>2
    <3>4. threadnum[k] = 0
      BY Zenon, <1>3, <2>3, <3>1 DEF TypeOK
    <3>5. QED
      BY Zenon, <1>3, <3>1, <3>3, <3>4
  <2>4. \A r \in Slots : Live(r) /\ pc[r] = "last_exit" =>
          Live(r)' /\ pc'[r] = "last_exit" /\ pid'[r] = pid[r]
    BY Zenon, <1>0, <1>3, <1>5
  <2>5. QED
    BY Zenon, <2>1, <2>3, <2>4, NothingToHear DEF Inv
<1>14. QED
  BY <1>7, <1>8, <1>9, <1>11, <1>12, <1>13 DEF Inv

(* wait() reaps a child.                                                   *)
LEMMA WaitReapKeeps ==
  ASSUME Cardinals, TypeOK, Inv, NEW p \in Slots, WaitReap(p)
  PROVE  Inv'
<1>0. cur = p /\ pc[p] \in {"user", "wait"}
  BY Zenon DEF WaitReap, Waiting, Calls, At
<1>1. state[p] = "RUNNING" /\ Live(p)
  BY <1>0, Running DEF Inv
<1>2. PICK k \in Slots :
        /\ state[k] = "ZOMBIE" /\ ~isthread[k] /\ threadnum[k] = 0
        /\ state' = [q \in Slots |-> IF pid[q] = pid[k] THEN "UNUSED" ELSE state[q]]
        /\ pid' = [q \in Slots |-> IF pid[q] = pid[k] THEN 0 ELSE pid[q]]
        /\ parent' = [q \in Slots |-> IF pid[q] = pid[k] THEN None ELSE parent[q]]
  <2>1. PICK k \in Ready(p) :
          LET gone == {q \in Slots : pid[q] = pid[k]} IN
          /\ state' = [q \in Slots |-> IF q \in gone THEN "UNUSED" ELSE state[q]]
          /\ pid' = [q \in Slots |-> IF q \in gone THEN 0 ELSE pid[q]]
          /\ parent' = [q \in Slots |-> IF q \in gone THEN None ELSE parent[q]]
    BY Zenon DEF WaitReap
  <2>2. k \in Slots /\ state[k] = "ZOMBIE" /\ ~isthread[k] /\ threadnum[k] = 0
    BY Zenon, <2>1 DEF Ready, Kids
  <2>3. QED
    BY Zenon, <2>1, <2>2
<1>3. /\ chan' = [chan EXCEPT ![p] = None] /\ pc' = [pc EXCEPT ![p] = "user"]
      /\ isthread' = isthread /\ threadnum' = threadnum /\ isjoined' = isjoined
      /\ nextpid' = nextpid /\ cur' = cur /\ np' = np
  BY Zenon DEF WaitReap, Goto
<1>4. pid[p] # pid[k]
  <2>1. SUFFICES ASSUME pid[p] = pid[k] PROVE FALSE
    OBVIOUS
  <2>2. \A x \in Slots : ~Joins(x, k)
    BY <1>2 DEF Inv, CreateInv, NewSlot, Joins, Creates
  <2>3. MainOf(p) = k
    BY Zenon, <1>1, <1>2, <2>1, <2>2 DEF Inv, GroupInv, GroupOf
  <2>4. p \in Counted(pid[p])
    BY Zenon, <1>0, <1>1 DEF Counted, DoesCount
  <2>5. Cardinality(Counted(pid[p])) = 0
    BY Zenon, <1>1, <1>2, <2>3 DEF Inv, CountInv, CountOf
  <2>6. QED
    BY <2>4, <2>5, CountedSlots DEF Cardinals
<1>5. /\ \A q \in Slots : pid[q] # pid[k] =>
           state'[q] = state[q] /\ pid'[q] = pid[q] /\ parent'[q] = parent[q] /\ MainOf(q)' = MainOf(q)
      /\ \A q \in Slots : pid[q] = pid[k] => state'[q] = "UNUSED" /\ pid'[q] = 0 /\ parent'[q] = None
  BY Zenon, <1>2, <1>3 DEF MainOf
<1>6. \A r \in Slots : Live(r)' <=> Live(r) /\ pid[r] # pid[k]
  BY Zenon, <1>5 DEF Live
<1>7. \A r \in Slots : /\ pc'[r] = "last_exit" <=> pc[r] = "last_exit"
                       /\ r # p => pc'[r] = pc[r] /\ chan'[r] = chan[r]
                       /\ pc[r] \in Fresh \union Joining => r # p
                       /\ pc'[r] \in Fresh \union Joining => r # p
  BY <1>0, <1>3 DEF TypeOK, Fresh, Joining
<1>8. \A r \in Slots : Creates(r)' => Live(r) /\ pid[r] # pid[k] /\ r # p /\ Creates(r)
  BY Zenon, <1>6, <1>7 DEF Creates
<1>9. \A r, s \in Slots : /\ pid[s] # pid[k] => (Joins(r, s)' <=> Joins(r, s))
                          /\ pid[s] # pid[k] => (Counts(r, s)' <=> Counts(r, s))
  <2>1. \A r, s \in Slots : Joins(r, s) => pid[r] = pid[s]
    BY DEF Inv, CreateInv, NewSlot, Joins, Creates
  <2>2. \A r, s \in Slots : Counts(r, s) => Joins(r, s)
    BY Zenon DEF Joins, Counts, Joining
  <2>3. \A r, s \in Slots : pid[s] # pid[k] => (Joins(r, s)' <=> Joins(r, s))
    BY Zenon, <1>3, <1>6, <1>7, <2>1 DEF Joins
  <2>4. \A r \in Slots : pc'[r] \in {"tc_flag", "tc_run"} <=> pc[r] \in {"tc_flag", "tc_run"}
    BY Zenon, <1>0, <1>3 DEF TypeOK
  <2>5. QED
    BY Zenon, <1>3, <1>6, <2>1, <2>2, <2>3, <2>4 DEF Counts
<1>10. CpuInv'
  BY Zenon, <1>0, <1>1, <1>3, <1>4, <1>5 DEF Inv, CpuInv
<1>11. PidInv'
  BY Zenon, <1>3, <1>5, <1>6 DEF Inv, PidInv
<1>12. CreateInv'
  <2>1. ASSUME NEW r \in Slots, NEW d \in Slots, r # p, Creates(r)', np[r] = d, NewSlot(r, d)
        PROVE  NewSlot(r, d)'
    <3>1. pid[r] # pid[k] /\ pc'[r] = pc[r] /\ pc[r] \in Fresh \union Joining
      BY Zenon, <1>7, <1>8, <2>1 DEF Creates
    <3>2. pid[d] # pid[k]
      BY Zenon, <1>2, <2>1, <3>1 DEF NewSlot
    <3>3. pc[r] \in Fresh => pid[d] # 0
      BY Zenon, <2>1 DEF NewSlot
    <3>4. QED
      BY Zenon, <1>3, <1>5, <2>1, <3>1, <3>2, <3>3, NewSlotSame
  <2>2. QED
    BY Zenon, <1>3, <1>8, <2>1, CreateSame DEF Inv
<1>13. ASSUME NEW r \in Slots, Live(r)' PROVE GroupOf(r)' /\ CountOf(r)'
  <2>1. GroupOf(r) /\ CountOf(r) /\ pid[r] # pid[k] /\ pid[r] # 0
    BY Zenon, <1>6, <1>13 DEF Inv, GroupInv, CountInv, PidInv
  <2>2. \A s \in Slots : pid'[s] = pid[r] <=> pid[s] = pid[r]
    BY Zenon, <1>5, <2>1
  <2>3. \A s \in Slots : pid[s] = pid[r] => (Used(s) => Used(s)')
    BY Zenon, <1>5, <2>1 DEF Used
  <2>4. GroupOf(r)'
    BY Zenon, <1>3, <1>5, <1>9, <2>1, <2>2, <2>3, GroupSame
  <2>5. \A s \in Slots : pid[s] = pid[r] => (DoesCount(s)' <=> DoesCount(s))
    BY Zenon, <1>6, <1>7, <1>9, <2>1 DEF DoesCount
  <2>6. CountOf(r)'
    BY Zenon, <1>3, <1>5, <2>1, <2>2, <2>5, CountSame
  <2>7. QED
    BY <2>4, <2>6
<1>14. GroupInv' /\ CountInv'
  BY <1>13, Zenon DEF GroupInv, CountInv
<1>15. \A r \in Slots : state'[r] = "SLEEPING" =>
         /\ state[r] = "SLEEPING" /\ pid[r] # pid[k] /\ pid'[r] = pid[r]
         /\ pc'[r] = pc[r] /\ chan'[r] = chan[r]
  BY <1>1, <1>5, <1>7
<1>16. SleepInv'
  BY <1>3, <1>5, <1>15 DEF Inv, SleepInv
<1>17. NoLostExit'
  <2>1. ASSUME NEW r \in Slots, state'[r] = "SLEEPING", pc'[r] = "wait", NEW c \in Ready(r)'
        PROVE  \E q \in Slots : pid'[q] = pid'[c] /\ Live(q)' /\ pc'[q] = "last_exit"
    <3>1. c \in Slots /\ parent'[c] = r /\ state'[c] = "ZOMBIE" /\ ~isthread'[c] /\ threadnum'[c] = 0
      BY Zenon, <2>1 DEF Ready, Kids
    <3>2. pid[c] # pid[k]
      BY Zenon, <1>5, <3>1
    <3>3. c \in Ready(r)
      BY Zenon, <1>3, <1>5, <3>1, <3>2 DEF Ready, Kids
    <3>4. PICK q \in Slots : pid[q] = pid[c] /\ Live(q) /\ pc[q] = "last_exit"
      BY <1>15, <2>1, <3>3 DEF Inv, NoLostExit
    <3>5. QED
      BY Zenon, <1>5, <1>6, <1>7, <3>1, <3>2, <3>4
  <2>2. QED
    BY <2>1, Zenon DEF NoLostExit
<1>18. QED
  BY Zenon, <1>10, <1>11, <1>12, <1>14, <1>16, <1>17 DEF Inv

(* The main threads of the slots that go down with p: a slot on its way to *)
(* become a thread may have no parent yet, or not be marked as a thread.   *)
LEMMA MemberMain ==
  ASSUME TypeOK, CreateInv, GroupInv, NEW p \in Slots, Live(p), NEW q \in Members(p)
  PROVE  MainOf(q) \in {None, q, MainOf(p)}
<1>1. q \in Slots /\ pid[q] = pid[p] /\ state[q] # "ZOMBIE"
  BY DEF Members
<1>2. CASE Used(q)
  <2>1. Live(q)
    BY Zenon, <1>1, <1>2 DEF Used, Live, States, TypeOK
  <2>2. QED
    BY Zenon, <1>1, <2>1, OneMain
<1>3. ASSUME NEW x \in Slots, Joins(x, q) PROVE MainOf(q) \in {None, q, MainOf(p)}
  <2>1. Creates(x) /\ np[x] = q /\ NewSlot(x, q) /\ pc[x] \in Joining /\ Live(x)
    BY Zenon, <1>3 DEF CreateInv, Joins, Creates
  <2>2. pid[x] = pid[p] /\ parent[q] \in {None, MainOf(x)}
    BY Zenon, <1>1, <2>1 DEF NewSlot, Joining
  <2>3. MainOf(x) = MainOf(p)
    BY Zenon, <2>1, <2>2, OneMain
  <2>4. QED
    BY Zenon, <2>2, <2>3 DEF MainOf
<1>4. QED
  BY <1>1, <1>2, <1>3 DEF GroupInv, GroupOf

(* exit().                                                                 *)
LEMMA ExitKeeps ==
  ASSUME TypeOK, Inv, NEW p \in Slots, ScanRuns(p), Exit(p)
  PROVE  Inv'
<1>0. cur = p /\ state[p] = "RUNNING" /\ Live(p) /\ GroupOf(p)
  BY Running DEF Exit, Inv, GroupInv
<1>1. /\ threadnum' = Scan(p)[NProc] /\ cur' = None
      /\ pid' = pid /\ isthread' = isthread /\ isjoined' = isjoined /\ chan' = chan
      /\ nextpid' = nextpid /\ pc' = pc /\ np' = np
  BY DEF Exit
<1>2. /\ \A q \in Slots : q \in Abandoned(p) => parent'[q] = InitProc
      /\ \A q \in Slots : q \notin Abandoned(p) => parent'[q] = parent[q]
  BY DEF Exit
<1>3. /\ \A q \in Slots : q \in Members(p) => state'[q] = "ZOMBIE"
      /\ \A q \in Slots : q \notin Members(p) =>
           \/ state'[q] = state[q] /\ (state[q] = "SLEEPING" => chan[q] \notin ExitWakes(p))
           \/ state[q] = "SLEEPING" /\ state'[q] = "RUNNABLE"
  BY Zenon DEF Exit, Wake
<1>4. \A q \in Slots : q \in Members(p) <=> pid[q] = pid[p] /\ state[q] # "ZOMBIE"
  BY DEF Members
<1>5. \A r \in Slots : (Live(r)' <=> Live(r) /\ pid[r] # pid[p]) /\ (Used(r) => Used(r)')
  BY Zenon, <1>3, <1>4 DEF Live, Used
<1>6. \A r \in Slots : MainOf(r)' = MainOf(r)
  BY <1>1, <1>2 DEF MainOf, Abandoned
<1>7. ASSUME NEW d \in Slots, pid[d] # pid[p] PROVE threadnum'[d] = threadnum[d]
  <2>1. \A r \in Members(p) : MainOf(r) # d
    BY Zenon, <1>0, <1>4, <1>7, MemberMain, NoneNoSlot DEF Inv, GroupOf, Members
  <2>2. QED
    BY Zenon, <1>1, <2>1 DEF ScanRuns
<1>8. \A r, s \in Slots : Joins(r, s) => pid[r] = pid[s]
  BY DEF Inv, CreateInv, NewSlot, Joins, Creates
<1>9. \A r, s \in Slots : pid[s] # pid[p] => /\ Joins(r, s)' <=> Joins(r, s)
                                             /\ Counts(r, s)' <=> Counts(r, s)
  <2>1. \A r, s \in Slots : pid[s] # pid[p] => (Joins(r, s)' <=> Joins(r, s))
    BY Zenon, <1>1, <1>5, <1>8 DEF Joins
  <2>2. \A r, s \in Slots : Counts(r, s) => Joins(r, s)
    BY DEF Joins, Counts, Joining
  <2>3. QED
    BY Zenon, <1>1, <1>5, <1>8, <2>1, <2>2 DEF Counts
<1>10. CpuInv'
  BY Zenon, <1>0, <1>1, <1>3, <1>4, NoneNoSlot DEF Inv, CpuInv
<1>11. PidInv'
  <2>1. \A q \in Slots : state'[q] = "UNUSED" => state[q] = "UNUSED" /\ q \notin Abandoned(p)
    <3>1. \A q \in Slots : state'[q] = "UNUSED" => state[q] = "UNUSED"
      BY Zenon, <1>3
    <3>2. QED
      BY <3>1, NoneNoSlot DEF Inv, PidInv, Abandoned
  <2>2. \A q \in Slots : state'[q] = "UNUSED" => parent'[q] = None
    BY Zenon, <1>2, <2>1 DEF Inv, PidInv
  <2>3. QED
    BY Zenon, <1>1, <1>5, <2>2 DEF Inv, PidInv
<1>12. CreateInv'
  <2>1. \A r \in Slots : Creates(r)' => Live(r) /\ Creates(r) /\ pid[r] # pid[p] /\ np'[r] = np[r]
    BY Zenon, <1>1, <1>5 DEF Creates
  <2>2. ASSUME NEW r \in Slots, NEW d \in Slots, Creates(r)', np[r] = d, NewSlot(r, d)
        PROVE  NewSlot(r, d)'
    <3>1. state[d] = "EMBRYO" /\ pc[r] \in Fresh \union Joining /\ pid[r] # pid[p] /\ Live(r)
      BY Zenon, <2>1, <2>2 DEF NewSlot, Creates
    <3>2. pid[d] # pid[p]
      BY Zenon, <1>0, <2>2, <3>1 DEF NewSlot
    <3>3. state'[d] = state[d]
      BY Zenon, <1>3, <1>4, <3>1, <3>2
    <3>4. pc[r] # "fork_run" => parent[d] # p
      BY <2>2, <3>1, NoneNoSlot DEF Inv, GroupInv, GroupOf, NewSlot, Fresh, Joining
    <3>5. pc[r] # "fork_run" => parent'[d] = parent[d]
      BY Zenon, <1>2, <3>4 DEF Abandoned
    <3>6. threadnum'[d] = threadnum[d]
      BY <1>7, <3>2
    <3>7. QED
      BY Zenon, <1>1, <1>6, <2>2, <3>3, <3>5, <3>6, NewSlotSame
  <2>3. QED
    BY Zenon, <1>0, <2>1, <2>2, CreateSame DEF Inv
<1>13. ASSUME NEW r \in Slots, Live(r)' PROVE GroupOf(r)' /\ CountOf(r)'
  <2>1. GroupOf(r) /\ CountOf(r) /\ pid[r] # pid[p]
    BY <1>5, <1>13 DEF Inv, GroupInv, CountInv
  <2>2. GroupOf(r)'
    BY Zenon, <1>1, <1>5, <1>6, <1>9, <2>1, GroupSame
  <2>3. \A s \in Slots : pid[s] = pid[r] => (DoesCount(s)' <=> DoesCount(s))
    BY Zenon, <1>1, <1>5, <1>9, <2>1 DEF DoesCount
  <2>4. threadnum'[MainOf(r)] = threadnum[MainOf(r)]
    BY Zenon, <1>7, <2>1 DEF GroupOf
  <2>5. CountOf(r)'
    BY Zenon, <1>1, <1>6, <2>1, <2>3, <2>4, CountSame
  <2>6. QED
    BY <2>2, <2>5
<1>14. GroupInv' /\ CountInv'
  BY <1>13, Zenon DEF GroupInv, CountInv
<1>15. \A r \in Slots : state'[r] = "SLEEPING" =>
         state[r] = "SLEEPING" /\ pid[r] # pid[p] /\ chan[r] \notin ExitWakes(p)
  BY Zenon, <1>3, <1>4
<1>16. SleepInv'
  <2>1. ASSUME NEW t \in Slots, pid[t] # pid[p]
        PROVE  (state'[t] = "UNUSED" <=> state[t] = "UNUSED") /\ (state'[t] = "ZOMBIE" <=> state[t] = "ZOMBIE")
    BY Zenon, <1>3, <1>4, <2>1
  <2>2. QED
    BY <1>1, <1>15, <2>1 DEF Inv, SleepInv
<1>17. NoLostExit'
  <2>1. ASSUME NEW r \in Slots, state'[r] = "SLEEPING", pc'[r] = "wait", NEW k \in Ready(r)'
        PROVE  \E q \in Slots : pid'[q] = pid'[k] /\ Live(q)' /\ pc'[q] = "last_exit"
    <3>1. k \in Slots /\ parent'[k] = r /\ state'[k] = "ZOMBIE" /\ ~isthread[k] /\ threadnum'[k] = 0
      BY Zenon, <1>1, <2>1 DEF Ready, Kids
    <3>2. state[r] = "SLEEPING" /\ pc[r] = "wait" /\ chan[r] = r /\ r \notin ExitWakes(p)
      BY Zenon, <1>1, <1>15, <2>1 DEF Inv, SleepInv
    <3>3. k \notin Abandoned(p)
      <4>1. SUFFICES ASSUME k \in Abandoned(p) PROVE FALSE
        BY Zenon
      <4>2. r = InitProc /\ k \notin Members(p)
        BY Zenon, <1>2, <3>1, <4>1 DEF Abandoned
      <4>3. state[k] = "ZOMBIE"
        BY Zenon, <1>3, <3>1, <4>2
      <4>4. QED
        BY <3>2, <4>1, <4>2, <4>3, Zenon DEF ExitWakes
    <3>4. parent[k] = r
      BY Zenon, <1>2, <3>1, <3>3
    <3>5. ~ \E q \in Members(p) : MainOf(q) = k /\ Scan(p)[q + 1][k] = 0
      <4>1. SUFFICES ASSUME NEW q \in Members(p), MainOf(q) = k, Scan(p)[q + 1][k] = 0 PROVE FALSE
        BY Zenon
      <4>2. MainOf(q) # None
        BY Zenon, <3>1, <4>1, NoneNoSlot
      <4>3. QED
        BY <3>2, <3>4, <4>1, <4>2, Zenon DEF ExitWakes
    <3>6. threadnum[k] = 0 /\ \A q \in Members(p) : MainOf(q) # k
      BY Zenon, <1>1, <3>1, <3>5 DEF ScanRuns
    <3>7. k \notin Members(p)
      BY Zenon, <3>1, <3>6 DEF MainOf
    <3>8. state[k] = "ZOMBIE"
      BY Zenon, <1>3, <3>1, <3>7
    <3>9. k \in Ready(r)
      BY Zenon, <3>1, <3>4, <3>6, <3>8 DEF Ready, Kids
    <3>10. PICK q \in Slots : pid[q] = pid[k] /\ Live(q) /\ pc[q] = "last_exit"
      BY Zenon, <3>2, <3>9 DEF Inv, NoLostExit
    <3>11. pid[q] # pid[p]
      <4>1. SUFFICES ASSUME pid[q] = pid[p] PROVE FALSE
        OBVIOUS
      <4>2. \A x \in Slots : ~Joins(x, k)
        BY <3>8 DEF Inv, CreateInv, NewSlot, Joins, Creates
      <4>3. k = MainOf(p)
        BY Zenon, <1>0, <3>1, <3>10, <4>1, <4>2 DEF GroupOf
      <4>4. p \in Members(p)
        BY Zenon, <1>0, <1>4
      <4>5. QED
        BY Zenon, <3>6, <4>3, <4>4
    <3>12. QED
      BY Zenon, <1>1, <1>5, <3>10, <3>11
  <2>2. QED
    BY <2>1, Zenon DEF NoLostExit
<1>18. QED
  BY Zenon, <1>10, <1>11, <1>12, <1>14, <1>16, <1>17 DEF Inv

(* The types.                                                              *)
LEMMA TypeKeeps ==
  ASSUME \A p \in Slots : ScanRuns(p), TypeOK, Inv, [Next]_vars
  PROVE  TypeOK'
<1> InitProc \in Slots
  BY TableAssumption DEF Slots, InitProc
<1>1. CASE UNCHANGED vars
  BY Zenon, <1>1 DEF TypeOK, vars, fields
<1>2. ASSUME NEW p \in Slots, QuietStep(p) PROVE TypeOK'
  <2> USE DEF TypeOK, fields, At, Goto, SleepOn, Labels, Idle, States, Waiting, Calls
  <2>1. CASE Dispatch(p) BY Zenon, <2>1 DEF Dispatch
  <2>2. CASE Yield(p) BY Zenon, <2>2 DEF Yield
  <2>3. CASE CallExit(p) BY Zenon, <2>3 DEF CallExit
  <2>4. CASE WaitFails(p) BY Zenon, <2>4 DEF WaitFails
  <2>5. CASE WaitSleep(p) BY Zenon, <2>5 DEF WaitSleep
  <2>6. CASE JoinReturns(p) BY Zenon, <2>6 DEF JoinReturns
  <2>7. CASE \E q \in Slots : ThreadJoin(p, q) BY <2>7 DEF ThreadJoin
  <2>8. CASE \E q \in Slots : Kill(p, q) BY <2>8 DEF Kill
  <2>9. QED
    BY Zenon, <1>2, <2>1, <2>2, <2>3, <2>4, <2>5, <2>6, <2>7, <2>8 DEF QuietStep
<1>3. ASSUME NEW p \in Slots, NEW q \in Slots, Fork(p, q) \/ ThreadCreate(p, q) PROVE TypeOK'
  BY <1>3 DEF TypeOK, Fork, ThreadCreate, AllocProc, Calls, At, Goto, Labels, Fresh, States
<1>4. ASSUME NEW p \in Slots, cur = p, pc[p] \in Fresh \union Joining,
             NEW c \in Slots, np[p] = c,
             \/ AllocFails(p) \/ ForkParent(p) \/ ForkRun(p)
             \/ ThreadPid(p) \/ ThreadParent(p) \/ ThreadCount(p) \/ ThreadFlag(p) \/ ThreadRun(p)
      PROVE  TypeOK'
  <2>0. MainOf(p) \in Slots \union {None}
    BY Zenon DEF MainOf, TypeOK
  <2> USE DEF TypeOK, fields, At, Goto, Start, Labels, Idle, Fresh, Joining, States
  <2>1. CASE AllocFails(p) BY Zenon, <1>4, <2>1 DEF AllocFails
  <2>2. CASE ForkParent(p) BY Zenon, <1>4, <2>0, <2>2 DEF ForkParent
  <2>3. CASE ForkRun(p) BY Zenon, <1>4, <2>3 DEF ForkRun
  <2>4. CASE ThreadPid(p) BY Zenon, <1>4, <2>4 DEF ThreadPid
  <2>5. CASE ThreadParent(p) BY Zenon, <1>4, <2>0, <2>5 DEF ThreadParent
  <2>6. CASE ThreadCount(p)
    <3>1. PICK m : m = parent[np[p]]
      BY Zenon
    <3>2. threadnum' = [q \in Slots |-> IF q = m THEN threadnum[q] + 1 ELSE threadnum[q]]
      BY Zenon, <2>6, <3>1 DEF ThreadCount
    <3>3. threadnum' \in [Slots -> Int]
      BY <3>2
    <3>4. QED
      BY Zenon, <1>4, <2>6, <3>3 DEF ThreadCount
  <2>7. CASE ThreadFlag(p) BY Zenon, <1>4, <2>7 DEF ThreadFlag
  <2>8. CASE ThreadRun(p) BY Zenon, <1>4, <2>8 DEF ThreadRun
  <2>9. QED
    BY Zenon, <1>4, <2>1, <2>2, <2>3, <2>4, <2>5, <2>6, <2>7, <2>8
<1>5. ASSUME NEW p \in Slots, Exit(p) PROVE TypeOK'
  <2>1. threadnum' \in [Slots -> Int]
    BY Zenon, <1>5 DEF Exit, ScanRuns
  <2>2. state' \in [Slots -> States]
    BY Zenon, <1>5 DEF Exit, Wake, States, TypeOK
  <2>3. parent' \in [Slots -> Slots \union {None}]
    BY Zenon, <1>5 DEF Exit, TypeOK
  <2>4. QED
    BY Zenon, <1>5, <2>1, <2>2, <2>3 DEF Exit, TypeOK
<1>6. ASSUME NEW p \in Slots, WaitReap(p) PROVE TypeOK'
  <2>1. state' \in [Slots -> States] /\ pid' \in [Slots -> Nat] /\ parent' \in [Slots -> Slots \union {None}]
    BY <1>6 DEF WaitReap, States, TypeOK
  <2>2. QED
    BY Zenon, <1>6, <2>1 DEF WaitReap, Goto, Labels, Idle, TypeOK
<1>7. ASSUME NEW p \in Slots, LastThreadExit(p) \/ ThreadExit(p) PROVE TypeOK'
  <2>0. threadnum' \in [Slots -> Int]
    BY <1>7 DEF LastThreadExit, ThreadExit, TypeOK
  <2>1. CASE LastThreadExit(p)
    BY Zenon, <2>0, <2>1 DEF LastThreadExit, Goto, Labels, TypeOK
  <2>2. CASE ThreadExit(p)
    <3>1. state' \in [Slots -> States]
      BY Zenon, <2>2 DEF ThreadExit, Wake, States, TypeOK
    <3>2. QED
      BY Zenon, <2>0, <2>2, <3>1 DEF ThreadExit, TypeOK
  <2>3. QED
    BY Zenon, <1>7, <2>1, <2>2
<1>8. ASSUME NEW p \in Slots,
             \/ AllocFails(p) \/ ForkParent(p) \/ ForkRun(p)
             \/ ThreadPid(p) \/ ThreadParent(p) \/ ThreadCount(p) \/ ThreadFlag(p) \/ ThreadRun(p)
      PROVE  TypeOK'
  <2>1. cur = p /\ pc[p] \in Fresh \union Joining
    BY Zenon, <1>8 DEF AllocFails, ForkParent, ForkRun, ThreadPid, ThreadParent, ThreadCount, ThreadFlag,
                ThreadRun, At, Fresh, Joining
  <2>2. PICK c \in Slots : np[p] = c
    BY Zenon, <2>1, Creator
  <2>3. QED
    BY Zenon, <1>4, <1>8, <2>1, <2>2
<1>9. CASE Next
  <2>1. PICK p \in Slots :
          \/ QuietStep(p) \/ \E q \in Slots : Fork(p, q) \/ ThreadCreate(p, q)
          \/ AllocFails(p) \/ ForkParent(p) \/ ForkRun(p)
          \/ ThreadPid(p) \/ ThreadParent(p) \/ ThreadCount(p) \/ ThreadFlag(p) \/ ThreadRun(p)
          \/ Exit(p) \/ LastThreadExit(p) \/ ThreadExit(p) \/ WaitReap(p)
    BY <1>9, Zenon DEF Next, QuietStep
  <2>2. QED
    BY <1>2, <1>3, <1>5, <1>6, <1>7, <1>8, <2>1, Zenon
<1>10. QED
  BY Zenon, <1>1, <1>9

(* Every step keeps it.                                                    *)
LEMMA NextInv ==
  ASSUME Cardinals, \A p \in Slots : ScanRuns(p), TypeOK, Inv, [Next]_vars
  PROVE  Inv'
<1>1. CASE UNCHANGED vars
  <2>1. CpuInv' /\ PidInv'
    BY Zenon, <1>1 DEF vars, fields, Inv, CpuInv, PidInv, Live
  <2>2. CreateInv'
    BY <1>1 DEF vars, fields, Inv, CreateInv, NewSlot, Creates, Live, MainOf
  <2>3. GroupInv'
    BY <1>1 DEF vars, fields, Inv, GroupInv, GroupOf, Used, Joins, Live, MainOf
  <2>4. CountInv'
    BY <1>1 DEF vars, fields, Inv, CountInv, CountOf, Counted, DoesCount, Counts, Live, MainOf
  <2>5. SleepInv' /\ NoLostExit'
    BY <1>1 DEF vars, fields, Inv, SleepInv, NoLostExit, Ready, Kids, Live
  <2>6. QED
    BY <2>1, <2>2, <2>3, <2>4, <2>5 DEF Inv
<1>2. ASSUME NEW p \in Slots, QuietStep(p) PROVE Inv'
  <2>1. PidInv' /\ CreateInv' /\ GroupInv' /\ CountInv'
    BY Zenon, <1>2, QuietSteps, QuietKeeps DEF Inv
  <2>2. CpuInv' /\ SleepInv' /\ NoLostExit'
    BY Zenon, <1>2, QuietSleep DEF Inv
  <2>3. QED
    BY Zenon, <2>1, <2>2 DEF Inv
<1>3. ASSUME NEW p \in Slots, NEW q \in Slots, Fork(p, q) \/ ThreadCreate(p, q) PROVE Inv'
  <2>1. At(p, "user") /\ \E label \in {"fork", "tc_pid"} : AllocProc(p, q, label)
    BY Zenon, <1>3 DEF Fork, ThreadCreate, Calls
  <2>2. QED
    BY Zenon, <2>1, AllocKeeps
<1>4. CASE Next
  <2>1. PICK p \in Slots :
          \/ QuietStep(p) \/ \E q \in Slots : Fork(p, q) \/ ThreadCreate(p, q)
          \/ AllocFails(p) \/ ForkParent(p) \/ ForkRun(p)
          \/ ThreadPid(p) \/ ThreadParent(p) \/ ThreadCount(p) \/ ThreadFlag(p) \/ ThreadRun(p)
          \/ Exit(p) \/ LastThreadExit(p) \/ ThreadExit(p) \/ WaitReap(p)
    BY <1>4, Zenon DEF Next, QuietStep
  <2>2. QED
    BY Zenon, <1>2, <1>3, <2>1, AllocFailsKeeps, ForkParentKeeps, ForkRunKeeps, ThreadPidKeeps,
       ThreadParentKeeps, ThreadCountKeeps, ThreadFlagKeeps, ThreadRunKeeps, ExitKeeps,
       LastThreadExitKeeps, ThreadExitKeeps, WaitReapKeeps, Zenon
<1>5. QED
  BY Zenon, <1>1, <1>4

-----------------------------------------------------------------------------
(* Counting slots, and the loop of exit().                                 *)

INSTANCE FiniteSetTheorems

(* The facts about the number of slots in a set.                           *)
LEMMA SlotsCounted == Cardinals
<1>1. IsFiniteSet(Slots)
  BY TableAssumption, FS_Interval DEF Slots
<1>2. ASSUME NEW S \in SUBSET Slots
      PROVE  IsFiniteSet(S) /\ Cardinality(S) \in Nat /\ (Cardinality(S) = 0 => S = {})
  BY Zenon, <1>1, <1>2, FS_Subset, FS_CardinalityType, FS_EmptySet
<1>3. ASSUME NEW S \in SUBSET Slots, NEW x \in Slots
      PROVE  /\ x \notin S => Cardinality(S \union {x}) = Cardinality(S) + 1
             /\ x \in S => Cardinality(S \ {x}) = Cardinality(S) - 1
  BY Zenon, <1>2, <1>3, FS_AddElement, FS_RemoveElement
<1>4. \A x \in Slots : Cardinality({x}) = 1
  BY Zenon, FS_Singleton
<1>5. QED
  BY Zenon, <1>2, <1>3, <1>4 DEF Cardinals

Less == {s \in Nat \X Nat : s[1] < s[2]}

(* A non-empty set of natural numbers has a smallest element.              *)
LEMMA Smallest ==
  ASSUME NEW T \in SUBSET Nat, T # {}
  PROVE  \E n \in T : \A i \in T : n <= i
<1>1. IsWellFoundedOn(Less, Nat)
  BY NatLessThanWellFounded, Zenon DEF OpToRel, Less
<1>2. PICK n \in T : \A i \in T : ~(<<i, n>> \in Less)
  BY <1>1, WFMin, Zenon
<1>3. ASSUME NEW i \in T PROVE n <= i
  <2>1. i \in Nat /\ n \in Nat /\ ~(i < n)
    BY Zenon, <1>2 DEF Less
  <2>2. QED
    BY <2>1
<1>4. QED
  BY <1>3

(* A visit of the loop changes no count but that of the slot's process.    *)
LEMMA VisitType ==
  ASSUME TypeOK, NEW p \in Slots, NEW q \in Slots, NEW t \in [Slots -> Int]
  PROVE  /\ Visit(p, q, t) \in [Slots -> Int]
         /\ \A k \in Slots : ~(q \in Members(p) /\ MainOf(q) = k) => Visit(p, q, t)[k] = t[k]
         /\ \A k \in Slots : isthread[q] /\ t[k] = 0 => Visit(p, q, t)[k] = 0
<1>1. MainOf(q) # None => MainOf(q) \in Slots
  BY DEF TypeOK, MainOf
<1>2. QED
  BY <1>1 DEF Visit

(* The loop's function exists, and is what the visits make of threadnum.   *)
LEMMA ScanDef ==
  ASSUME TypeOK, NEW p \in Slots
  PROVE  /\ Scan(p) \in [0 .. NProc -> [Slots -> Int]]
         /\ Scan(p)[0] = threadnum
         /\ \A i \in 1 .. NProc : Scan(p)[i] = Visit(p, i - 1, Scan(p)[i-1])
<1> DEFINE Upto(n, g) == /\ g \in [0 .. n -> [Slots -> Int]] /\ g[0] = threadnum
                         /\ \A i \in 1 .. n : g[i] = Visit(p, i - 1, g[i-1])
           T == {n \in Nat : n <= NProc /\ ~ \E g : Upto(n, g)}
<1>0. NProc \in Nat /\ threadnum \in [Slots -> Int]
  BY TableAssumption DEF TypeOK
<1>1. T = {}
  <2>1. SUFFICES ASSUME T # {} PROVE FALSE
    OBVIOUS
  <2>2. PICK n \in T : \A i \in T : n <= i
    BY Zenon, <2>1, Smallest
  <2>3. n # 0
    <3>1. Upto(0, [i \in 0 .. 0 |-> threadnum])
      BY <1>0
    <3>2. QED
      BY Zenon, <3>1
  <2>4. PICK g : Upto(n - 1, g)
    <3> HIDE DEF Upto
    <3>1. n \in Nat /\ n <= NProc
      OBVIOUS
    <3>2. n - 1 \in Nat /\ n - 1 <= NProc /\ ~(n <= n - 1)
      BY <1>0, <2>3, <3>1
    <3>3. n - 1 \notin T
      <4> HIDE DEF T
      <4>1. QED
        BY <2>2, <3>2, Zenon
    <3>4. QED
      BY <3>2, <3>3, Zenon
  <2>5. n - 1 \in Slots /\ g[n-1] \in [Slots -> Int]
    BY <1>0, <2>3, <2>4 DEF Slots
  <2>6. Visit(p, n - 1, g[n-1]) \in [Slots -> Int]
    BY <2>5, VisitType
  <2> DEFINE h == [i \in 0 .. n |-> IF i = n THEN Visit(p, n - 1, g[n-1]) ELSE g[i]]
  <2>7. h \in [0 .. n -> [Slots -> Int]] /\ h[0] = threadnum
    BY <2>3, <2>4, <2>6
  <2>8. ASSUME NEW i \in 1 .. n PROVE h[i] = Visit(p, i - 1, h[i-1])
    <3>1. h[i-1] = g[i-1]
      BY <2>3
    <3>2. CASE i = n
      BY <3>1, <3>2, <2>3
    <3>3. CASE i # n
      <4>1. i \in 1 .. n-1 /\ h[i] = g[i]
        BY <3>3, <2>3
      <4>2. g[i] = Visit(p, i - 1, g[i-1])
        BY Zenon, <4>1, <2>4
      <4>3. QED
        BY Zenon, <4>1, <4>2, <3>1
    <3>4. QED
      BY Zenon, <3>2, <3>3
  <2>9. QED
    BY Zenon, <2>7, <2>8
<1>2. PICK g : Upto(NProc, g)
  <2> HIDE DEF Upto
  <2>1. NProc \notin T
    <3> HIDE DEF T
    <3>1. QED
      BY <1>1, Zenon
  <2>2. NProc \in Nat /\ NProc <= NProc
    BY <1>0
  <2>3. QED
    BY <2>1, <2>2, Zenon
<1>3. g = [i \in 0 .. NProc |-> IF i = 0 THEN threadnum ELSE Visit(p, i - 1, g[i-1])]
  BY <1>0, <1>2
<1>4. Scan(p) = [i \in 0 .. NProc |-> IF i = 0 THEN threadnum ELSE Visit(p, i - 1, Scan(p)[i-1])]
  BY <1>3, Zenon DEF Scan
<1>5. Scan(p)[0] = threadnum /\ \A i \in 1 .. NProc : Scan(p)[i] = Visit(p, i - 1, Scan(p)[i-1])
  BY <1>0, <1>4
<1>6. \A i \in 0 .. NProc : Scan(p)[i] \in [Slots -> Int]
  <2> DEFINE B == {i \in Nat : i <= NProc /\ Scan(p)[i] \notin [Slots -> Int]}
  <2>1. SUFFICES ASSUME B # {} PROVE FALSE
    BY <1>0
  <2>2. PICK n \in B : \A i \in B : n <= i
    BY Zenon, <2>1, Smallest
  <2>3. n # 0
    BY Zenon, <1>0, <1>5, <2>2
  <2>4. Scan(p)[n-1] \in [Slots -> Int] /\ n - 1 \in Slots
    BY <1>0, <2>2, <2>3 DEF Slots
  <2>5. QED
    BY <1>5, <2>2, <2>3, <2>4, VisitType
<1>7. QED
  BY Zenon, <1>4, <1>5, <1>6

(* Visits to slots of other processes leave a count alone.                 *)
LEMMA ScanSame ==
  ASSUME TypeOK, NEW p \in Slots, NEW k \in Slots, NEW a \in 0 .. NProc,
         \A r \in Members(p) : r >= a => MainOf(r) # k
  PROVE  \A i \in a .. NProc : Scan(p)[i][k] = Scan(p)[a][k]
<1> DEFINE B == {i \in Nat : i >= a /\ i <= NProc /\ Scan(p)[i][k] # Scan(p)[a][k]}
<1>0. NProc \in Nat
  BY TableAssumption
<1>1. SUFFICES ASSUME B # {} PROVE FALSE
  BY <1>0
<1>2. PICK n \in B : \A i \in B : n <= i
  BY Zenon, <1>1, Smallest
<1>3. n > a /\ n - 1 \in Slots /\ Scan(p)[n-1][k] = Scan(p)[a][k]
  BY <1>0, <1>2 DEF Slots
<1>4. Scan(p)[n] = Visit(p, n - 1, Scan(p)[n-1]) /\ Scan(p)[n-1] \in [Slots -> Int]
  <2>1. n \in 1 .. NProc /\ n - 1 \in 0 .. NProc
    BY <1>0, <1>2, <1>3
  <2>2. QED
    BY <2>1, ScanDef, Zenon
<1>5. ~(n - 1 \in Members(p) /\ MainOf(n - 1) = k)
  BY <1>3
<1>6. Scan(p)[n][k] = Scan(p)[n-1][k]
  BY <1>3, <1>4, <1>5, VisitType
<1>7. QED
  BY Zenon, <1>2, <1>3, <1>6

(* If the loop leaves the count of k at 0, it has seen it become 0 when it *)
(* visited a thread of the process, or there was no such thread.           *)
LEMMA ScanZero ==
  ASSUME TypeOK, NEW p \in Slots, NEW k \in Slots, Scan(p)[NProc][k] = 0
  PROVE  \/ threadnum[k] = 0 /\ \A r \in Members(p) : MainOf(r) # k
         \/ \E r \in Members(p) : MainOf(r) = k /\ Scan(p)[r + 1][k] = 0
<1>0. NProc \in Nat /\ NProc > 0 /\ Members(p) \subseteq Slots
  BY TableAssumption DEF Members
<1>1. CASE \A r \in Members(p) : MainOf(r) # k
  <2>1. Scan(p)[NProc][k] = Scan(p)[0][k]
    BY <1>0, <1>1, ScanSame
  <2>2. QED
    BY <1>1, <2>1, ScanDef
<1>2. CASE \E r \in Members(p) : MainOf(r) = k
  <2> DEFINE T == {n \in Nat : n <= NProc /\ NProc - n \in Members(p) /\ MainOf(NProc - n) = k}
  <2>1. T # {}
    <3>1. PICK r \in Members(p) : MainOf(r) = k
      BY <1>2
    <3>2. r \in Int /\ 0 <= r /\ r < NProc /\ NProc - (NProc - r) = r
      BY <1>0 DEF Slots
    <3>3. NProc - r \in T
      BY <1>0, <3>1, <3>2
    <3>4. QED
      BY <3>3
  <2>2. PICK n \in T : \A i \in T : n <= i
    BY Zenon, <2>1, Smallest
  <2> DEFINE r == NProc - n
  <2>3. r \in Members(p) /\ MainOf(r) = k /\ r \in Slots /\ r + 1 \in 0 .. NProc
    BY <1>0, <2>2 DEF Slots
  <2>4. ASSUME NEW s \in Members(p), s >= r + 1 PROVE MainOf(s) # k
    <3>1. s \in Int /\ 0 <= s /\ s < NProc /\ NProc - (NProc - s) = s
      BY <1>0 DEF Slots
    <3>2. NProc - s < n /\ NProc - s \in Nat /\ NProc - s <= NProc
      BY <1>0, <2>2, <2>4, <3>1
    <3>3. NProc - s \notin T
      BY <2>2, <3>2
    <3>4. QED
      BY <3>1, <3>2, <3>3
  <2>5. Scan(p)[NProc][k] = Scan(p)[r + 1][k]
    BY <1>0, <2>3, <2>4, ScanSame
  <2>6. QED
    BY <2>3, <2>5
<1>3. QED
  BY <1>1, <1>2

(* The facts about the loop.                                               *)
LEMMA LoopRuns ==
  ASSUME TypeOK, NEW p \in Slots
  PROVE  ScanRuns(p)
<1>1. 0 \in 0 .. NProc /\ NProc \in 0 .. NProc
  BY TableAssumption
<1>2. Scan(p)[NProc] \in [Slots -> Int] /\ Scan(p)[0] = threadnum
  BY <1>1, ScanDef
<1>3. ASSUME NEW k \in Slots, \A r \in Members(p) : MainOf(r) # k
      PROVE  Scan(p)[NProc][k] = threadnum[k]
  <2>1. Scan(p)[NProc][k] = Scan(p)[0][k]
    BY <1>1, <1>3, ScanSame
  <2>2. QED
    BY <1>2, <2>1
<1>4. \A k \in Slots : Scan(p)[NProc][k] = 0 =>
        \/ threadnum[k] = 0 /\ \A r \in Members(p) : MainOf(r) # k
        \/ \E r \in Members(p) : MainOf(r) = k /\ Scan(p)[r + 1][k] = 0
  BY Zenon, ScanZero
<1>5. QED
  BY Zenon, <1>2, <1>3, <1>4 DEF ScanRuns

-----------------------------------------------------------------------------
(* The inductive invariant holds at boot.                                  *)
LEMMA InitInv == Init => TypeOK /\ Inv
<1> SUFFICES ASSUME Init PROVE TypeOK /\ Inv
  OBVIOUS
<1>0. InitProc \in Slots /\ None \notin Slots
  BY TableAssumption DEF Slots, InitProc, None
<1>1. TypeOK
  BY <1>0 DEF Init, TypeOK, States, Labels, Idle
<1>2. \A q \in Slots : /\ Live(q) <=> q = InitProc
                       /\ pc[q] = "user" /\ MainOf(q) = q
                       /\ pid[q] = IF q = InitProc THEN 1 ELSE 0
  BY DEF Init, Live, MainOf
<1>3. CpuInv /\ PidInv /\ CreateInv /\ SleepInv /\ NoLostExit
  <2>1. \A q \in Slots : state[q] \in {"RUNNABLE", "UNUSED"}
    BY Zenon DEF Init
  <2>2. CpuInv
    BY Zenon, <1>0, <2>1 DEF Init, CpuInv
  <2>3. PidInv
    BY <1>2 DEF Init, PidInv
  <2>4. CreateInv
    BY Zenon, <1>2 DEF CreateInv, Creates, Fresh, Joining
  <2>5. SleepInv /\ NoLostExit
    BY Zenon, <2>1 DEF SleepInv, NoLostExit
  <2>6. QED
    BY <2>2, <2>3, <2>4, <2>5
<1>4. GroupInv
  BY <1>0, <1>2 DEF Init, GroupInv, GroupOf, Used
<1>5. CountInv
  <2>1. Counted(1) = {InitProc}
    BY Zenon, <1>0, <1>2 DEF Counted, DoesCount, Counts
  <2>2. Cardinality({InitProc}) = 1
    BY Zenon, FS_Singleton
  <2>3. threadnum[InitProc] = 1
    BY Zenon, <1>0 DEF Init
  <2>4. QED
    BY Zenon, <1>2, <2>1, <2>2, <2>3 DEF CountInv, CountOf
<1>6. QED
  BY <1>1, <1>3, <1>4, <1>5 DEF Inv

(* The inductive invariant is one.                                         *)
THEOREM TableCorrect == Spec => [](TypeOK /\ Inv)
<1>1. Init => TypeOK /\ Inv
  BY InitInv
<1>2. TypeOK /\ Inv /\ [Next]_vars => (TypeOK /\ Inv)'
  BY TypeKeeps, NextInv, SlotsCounted, LoopRuns
<1>3. QED
  BY <1>1, <1>2, PTL DEF Spec

(* No thread sleeps in wait() or thread_join() through the exit it waits   *)
(* for: exit() and thread_exit() wake whoever must hear of it, in every    *)
(* order of their steps and whatever the programs call.                    *)
THEOREM ExitsAreHeard == Spec => []ExitsHeard
<1>1. Inv => ExitsHeard
  BY Zenon DEF Inv, SleepInv, ExitsHeard, JoinWakes
<1>2. QED
  BY <1>1, TableCorrect, PTL

==============================================================================
