------------------------- MODULE BufferCacheProofs ---------------------------
(***************************************************************************)
(* Proofs about BufferCache, for any number of processes, buffers and      *)
(* sectors: a buffer has one holder and a sector one buffer; nobody sleeps *)
(* for nothing; contents are never lost; and with EnoughBuffers bget finds *)
(* a buffer.                                                               *)
(***************************************************************************)
EXTENDS BufferCache, TLAPS

IoLabels == {"iderw", "iosleep", "iocheck"}
Labels == {"run", "bget", "bsleep"} \union IoLabels

BufTypes ==
  /\ sector \in [Bufs -> Sectors \union {None}]
  /\ busy \in [Bufs -> BOOLEAN] /\ valid \in [Bufs -> BOOLEAN] /\ dirty \in [Bufs -> BOOLEAN]
  /\ lru \in Seq(Bufs)

ProcTypes ==
  /\ pc \in [Procs -> Labels]
  /\ want \in [Procs -> Sectors \union {None}]
  /\ cur \in [Procs -> Bufs \union {None}]
  /\ hold \in [Procs -> SUBSET Bufs]
  /\ \A p \in Procs : pc[p] \in {"bget", "bsleep"} => want[p] \in Sectors
  /\ \A p \in Procs : pc[p] \in IoLabels \union {"bsleep"} => cur[p] \in Bufs

User(p, b) == b \in hold[p] \/ InIo(p, b)

OneBuffer == \A b, c \in Bufs : sector[b] = sector[c] /\ sector[b] # None => b = c

Busy ==
  /\ \A b \in Bufs : busy[b] <=> \E p \in Procs : User(p, b)
  /\ \A b \in Bufs : \A p, q \in Procs : User(p, b) /\ User(q, b) => p = q
  /\ \A b \in Bufs : busy[b] => sector[b] \in Sectors

HolderInv == CacheAssumption /\ BufTypes /\ ProcTypes /\ OneBuffer /\ Busy

-----------------------------------------------------------------------------
(* binit and ideinit establish the invariant.                              *)
LEMMA HolderInit == CacheAssumption /\ Init => HolderInv
<1>. SUFFICES ASSUME CacheAssumption, Init PROVE HolderInv
  OBVIOUS
<1>1. BufTypes
  <2>1. NBUF \in Nat /\ lru = [i \in 1 .. NBUF |-> NBUF + 1 - i]
    BY DEF CacheAssumption, Init, Bufs
  <2>2. lru \in [1 .. NBUF -> 1 .. NBUF]
    BY <2>1
  <2>3. lru \in Seq(Bufs)
    BY <2>1, <2>2 DEF Bufs
  <2>. QED  BY <2>3 DEF Init, BufTypes
<1>2. ProcTypes
  BY DEF Init, ProcTypes, Labels, IoLabels
<1>3. OneBuffer
  BY DEF Init, OneBuffer
<1>4. Busy
  BY DEF Init, Busy, User, InIo
<1>. QED  BY Zenon, <1>1, <1>2, <1>3, <1>4 DEF HolderInv

(* A step that leaves sector, busy and the users of all buffers alone      *)
(* keeps Busy and OneBuffer.                                               *)
LEMMA HolderQuiet ==
  ASSUME HolderInv, UNCHANGED <<sector, busy>>,
         \A p \in Procs, b \in Bufs : User(p, b)' <=> User(p, b)
  PROVE  OneBuffer' /\ Busy'
BY DEF HolderInv, OneBuffer, Busy

(* The three ways through bget.                                            *)
LEMMA HolderHit ==
  ASSUME HolderInv, NEW p \in Procs, BgetHit(p)
  PROVE  HolderInv'
<1>. PICK b \in Cached(want[p]) :
       /\ ~busy[b] /\ busy' = [busy EXCEPT ![b] = TRUE] /\ Got(p, b)
  BY Zenon DEF BgetHit
<1>. b \in Bufs /\ sector[b] = want[p] /\ pc[p] = "bget"
  BY DEF Cached, BgetHit
<1>. UNCHANGED <<sector, valid, dirty, data, lru>>
  BY DEF BgetHit
<1>1. BufTypes'
  BY DEF HolderInv, BufTypes
<1>2. ProcTypes'
  BY DEF HolderInv, ProcTypes, Got, Goto, Labels, IoLabels
<1>3. OneBuffer'
  BY DEF HolderInv, OneBuffer
<1>4. User(p, b)'
  BY DEF HolderInv, ProcTypes, User, InIo, Got, Goto
<1>5. \A q \in Procs, c \in Bufs : q # p \/ c # b => (User(q, c)' <=> User(q, c))
  BY DEF HolderInv, ProcTypes, User, InIo, Got, Goto
<1>6. \A q \in Procs : ~User(q, b)
  BY DEF HolderInv, Busy
<1>7. Busy'
  <2>1. \A c \in Bufs : c # b => busy'[c] = busy[c]
    BY DEF HolderInv, BufTypes
  <2>2. busy'[b]
    BY DEF HolderInv, BufTypes
  <2>3. want[p] \in Sectors
    BY DEF HolderInv, ProcTypes
  <2>. QED  BY <1>4, <1>5, <1>6, <2>1, <2>2, <2>3 DEF HolderInv, Busy
<1>. QED  BY <1>1, <1>2, <1>3, <1>7 DEF HolderInv, CacheAssumption

(* bget gives the process a buffer that nobody uses.                       *)
LEMMA HolderRecycle ==
  ASSUME HolderInv, NEW p \in Procs, BgetRecycle(p)
  PROVE  HolderInv'
<1>. pc[p] = "bget" /\ Cached(want[p]) = {}
  BY DEF BgetRecycle
<1>0. PICK b \in Bufs :
        /\ ~busy[b]
        /\ sector' = [sector EXCEPT ![b] = want[p]] /\ busy' = [busy EXCEPT ![b] = TRUE]
        /\ valid' = [valid EXCEPT ![b] = FALSE] /\ dirty' = [dirty EXCEPT ![b] = FALSE]
        /\ cur' = [cur EXCEPT ![p] = b]
  <2>. PICK i \in Recyclable :
         /\ sector' = [sector EXCEPT ![lru[i]] = want[p]]
         /\ busy' = [busy EXCEPT ![lru[i]] = TRUE]
         /\ valid' = [valid EXCEPT ![lru[i]] = FALSE]
         /\ dirty' = [dirty EXCEPT ![lru[i]] = FALSE]
         /\ cur' = [cur EXCEPT ![p] = lru[i]]
    BY Zenon DEF BgetRecycle
  <2>1. lru[i] \in Bufs /\ ~busy[lru[i]]
    BY DEF HolderInv, BufTypes, Recyclable
  <2>. QED  BY Zenon, <2>1
<1>. UNCHANGED <<lru, hold>> /\ pc' = [pc EXCEPT ![p] = "iderw"] /\ want' = [want EXCEPT ![p] = None]
  BY DEF BgetRecycle, Goto, client
<1>w. want[p] \in Sectors /\ want[p] # None
  BY DEF HolderInv, ProcTypes, CacheAssumption
<1>1. BufTypes'
  BY <1>0, <1>w DEF HolderInv, BufTypes
<1>2. ProcTypes'
  BY <1>0 DEF HolderInv, ProcTypes, Labels, IoLabels
<1>3. OneBuffer'
  BY <1>0, <1>w DEF HolderInv, BufTypes, OneBuffer, Cached
<1>4. User(p, b)'
  BY <1>0 DEF HolderInv, ProcTypes, User, InIo
<1>5. \A q \in Procs, c \in Bufs : q # p \/ c # b => (User(q, c)' <=> User(q, c))
  BY <1>0 DEF HolderInv, ProcTypes, User, InIo
<1>6. \A q \in Procs : ~User(q, b)
  BY <1>0 DEF HolderInv, Busy
<1>7. Busy'
  <2>1. \A c \in Bufs : c # b => busy'[c] = busy[c] /\ sector'[c] = sector[c]
    BY <1>0 DEF HolderInv, BufTypes
  <2>2. busy'[b] /\ sector'[b] \in Sectors
    BY <1>0, <1>w DEF HolderInv, BufTypes
  <2>. QED  BY <1>0, <1>4, <1>5, <1>6, <2>1, <2>2 DEF HolderInv, Busy
<1>. QED  BY <1>1, <1>2, <1>3, <1>7 DEF HolderInv, CacheAssumption

(* brelse gives the buffer back: its only user was the caller.             *)
LEMMA HolderRelease ==
  ASSUME HolderInv, NEW p \in Procs, NEW b \in Bufs, Brelse(p, b)
  PROVE  HolderInv'
<1>. /\ pc[p] = "run" /\ b \in hold[p]
     /\ busy' = [busy EXCEPT ![b] = FALSE] /\ hold' = [hold EXCEPT ![p] = @ \ {b}]
     /\ UNCHANGED <<sector, valid, dirty, data, want, cur>> /\ Wakeup(b)
  BY DEF Brelse
<1>0. lru' \in Seq(Bufs)
  <2>. PICK i \in 1 .. Len(lru) :
         lru' = <<b>> \o SubSeq(lru, 1, i - 1) \o SubSeq(lru, i + 1, Len(lru))
    BY DEF Brelse, ToFront
  <2>. lru \in Seq(Bufs)
    BY DEF HolderInv, BufTypes
  <2>1. SubSeq(lru, 1, i - 1) \in Seq(Bufs) /\ SubSeq(lru, i + 1, Len(lru)) \in Seq(Bufs)
    OBVIOUS
  <2>. QED  BY <2>1
<1>1. BufTypes'
  BY <1>0 DEF HolderInv, BufTypes
<1>2. ProcTypes'
  BY DEF HolderInv, ProcTypes, Wakeup, Labels, IoLabels
<1>3. OneBuffer'
  BY DEF HolderInv, OneBuffer
<1>4. ~User(p, b)'
  BY DEF HolderInv, ProcTypes, User, InIo, Wakeup
<1>5. \A q \in Procs, c \in Bufs : q # p \/ c # b => (User(q, c)' <=> User(q, c))
  BY DEF HolderInv, ProcTypes, User, InIo, Wakeup, Labels, IoLabels
<1>6. User(p, b)
  BY DEF User
<1>7. Busy'
  <2>1. \A c \in Bufs : c # b => busy'[c] = busy[c]
    BY DEF HolderInv, BufTypes
  <2>2. ~busy'[b]
    BY DEF HolderInv, BufTypes
  <2>. QED  BY <1>4, <1>5, <1>6, <2>1, <2>2 DEF HolderInv, Busy
<1>. QED  BY <1>1, <1>2, <1>3, <1>7 DEF HolderInv, CacheAssumption

(* The other steps neither mark a buffer nor change who uses it.           *)
LEMMA HolderSteps ==
  ASSUME HolderInv, NEW p \in Procs,
         \/ \E s \in Sectors : Bread(p, s)
         \/ BgetSleep(p) \/ Iderw(p) \/ IoDone(p) \/ IoAgain(p) \/ Kill(p)
         \/ Begin(p) \/ End(p)
         \/ \E b \in Bufs : Modify(p, b) \/ LogWrite(p, b) \/ Bwrite(p, b)
  PROVE  HolderInv'
<1>. USE DEF flags, device, client, Goto
<1>0. UNCHANGED <<sector, busy, lru>>
  BY Zenon DEF Bread, BgetSleep, Iderw, IoDone, IoAgain, Kill, Begin, End, Modify, LogWrite, Bwrite
<1>1. BufTypes'
  BY Zenon, <1>0 DEF HolderInv, BufTypes, Bread, BgetSleep, Iderw, IoDone, IoAgain, Kill,
       Begin, End, Modify, LogWrite, Bwrite
<1>2. ProcTypes' /\ \A q \in Procs, b \in Bufs : User(q, b)' <=> User(q, b)
  <2>. USE DEF HolderInv, ProcTypes, Labels, IoLabels, User, InIo
  <2>1. CASE \E s \in Sectors : Bread(p, s)  BY SMTT(30), <2>1 DEF Bread
  <2>2. CASE BgetSleep(p)  BY Zenon, <2>2 DEF BgetSleep, Cached
  <2>3. CASE Iderw(p)      BY <2>3 DEF Iderw
  <2>4. CASE IoDone(p)     BY Zenon, <2>4 DEF IoDone
  <2>5. CASE IoAgain(p)    BY Zenon, <2>5 DEF IoAgain
  <2>6. CASE Kill(p)       BY <2>6 DEF Kill
  <2>7. CASE Begin(p) \/ End(p)  BY Zenon, <2>7 DEF Begin, End
  <2>8. CASE \E b \in Bufs : Modify(p, b) \/ LogWrite(p, b)  BY Zenon, <2>8 DEF Modify, LogWrite
  <2>9. CASE \E b \in Bufs : Bwrite(p, b)  BY <2>9 DEF Bwrite
  <2>. QED  BY Zenon, <2>1, <2>2, <2>3, <2>4, <2>5, <2>6, <2>7, <2>8, <2>9
<1>3. OneBuffer' /\ Busy'
  BY <1>0, <1>2, HolderQuiet
<1>. QED  BY <1>1, <1>2, <1>3 DEF HolderInv, CacheAssumption

(* The disk and its interrupt change valid and dirty, and wake.            *)
LEMMA HolderDisk ==
  ASSUME HolderInv, DiskDone \/ \E failed \in BOOLEAN : IdeIntr(failed)
  PROVE  HolderInv'
<1>1. UNCHANGED <<sector, busy, lru, want, cur, hold>>
  BY DEF DiskDone, IdeIntr, flags, client
<1>2. UNCHANGED pc \/ \E b : Wakeup(b)
  BY Zenon DEF DiskDone, IdeIntr
<1>3. BufTypes'
  BY Zenon, <1>1 DEF HolderInv, BufTypes, DiskDone, IdeIntr, flags
<1>4. ProcTypes'
  BY <1>1, <1>2 DEF HolderInv, ProcTypes, Wakeup, Labels, IoLabels
<1>5. \A q \in Procs, c \in Bufs : User(q, c)' <=> User(q, c)
  BY <1>1, <1>2 DEF HolderInv, ProcTypes, User, InIo, Wakeup
<1>6. OneBuffer' /\ Busy'
  BY <1>1, <1>5, HolderQuiet
<1>. QED  BY <1>3, <1>4, <1>6 DEF HolderInv, CacheAssumption

(* Every step keeps the invariant.                                         *)
LEMMA HolderNext == HolderInv /\ [Next]_vars => HolderInv'
<1>. SUFFICES ASSUME HolderInv, [Next]_vars PROVE HolderInv'
  OBVIOUS
<1>1. CASE UNCHANGED vars
  <2>1. UNCHANGED <<sector, busy, valid, dirty, lru, pc, want, cur, hold>>
    BY <1>1 DEF vars, flags, client
  <2>. QED  BY <2>1 DEF HolderInv, CacheAssumption, BufTypes, ProcTypes, OneBuffer, Busy, User, InIo
<1>2. CASE Next
  BY Zenon, <1>2, HolderHit, HolderRecycle, HolderRelease, HolderSteps, HolderDisk DEF Next
<1>. QED  BY <1>1, <1>2

(* A buffer that is in use has one user, and one that is not has none.     *)
LEMMA HolderUsers == HolderInv => OneHolder
<1>. SUFFICES ASSUME HolderInv, NEW b \in Bufs
              PROVE  LET users == {p \in Procs : b \in hold[p] \/ InIo(p, b)}
                     IN IF busy[b] THEN \E p \in Procs : users = {p} ELSE users = {}
  BY Zenon DEF HolderInv, OneBuffer, OneHolder
<1>1. CASE busy[b]
  BY <1>1 DEF HolderInv, Busy, User
<1>2. CASE ~busy[b]
  BY <1>2 DEF HolderInv, Busy, User
<1>. QED  BY Zenon, <1>1, <1>2

(* The invariant holds in every state that the cache reaches.              *)
THEOREM HolderInvariant == CacheAssumption /\ Spec => []HolderInv
BY HolderInit, HolderNext, PTL DEF Spec

(* "Only one process at a time can use a buffer" (bio.c), and a sector is  *)
(* in one buffer at most, whatever is recycled while processes sleep.      *)
THEOREM HolderCorrect == CacheAssumption /\ Spec => []OneHolder
BY HolderInvariant, HolderUsers, PTL

-----------------------------------------------------------------------------
Contents == {"fresh", "stale", "junk"}

(* iderw has something to do for b.                                        *)
Pending(b) == ~valid[b] \/ dirty[b]
Queued(b) == \E i \in 1 .. Len(queue) : queue[i] = b

DataTypes == data \in [Bufs -> Contents] /\ disk \in [Sectors -> Contents]
QueueTypes == queue \in Seq(Bufs) /\ irq \in BOOLEAN

(* The requests are those of processes in iderw, each once.                *)
Requests ==
  /\ \A i, j \in 1 .. Len(queue) : queue[i] = queue[j] => i = j
  /\ \A b \in Bufs : Queued(b) =>
       Pending(b) /\ \E p \in Procs : cur[p] = b /\ pc[p] \in {"iosleep", "iocheck"}

Sleepers ==
  \A p \in Procs, b \in Bufs : cur[p] = b =>
    /\ pc[p] = "bsleep" => busy[b]
    /\ pc[p] = "iderw" => Pending(b)
    /\ pc[p] = "iosleep" => Queued(b)
    /\ pc[p] = "iocheck" /\ Pending(b) => Queued(b)

Started ==
  /\ active = IF queue = <<>> THEN None ELSE Command(Head(queue))
  /\ irq => queue # <<>>

RequestInv == DataTypes /\ QueueTypes /\ Requests /\ Sleepers /\ Started

-----------------------------------------------------------------------------
(* binit and ideinit establish the invariant.                              *)
LEMMA RequestInit == Init => RequestInv
<1>. SUFFICES ASSUME Init PROVE RequestInv
  OBVIOUS
<1>1. queue = <<>> /\ Len(queue) = 0 /\ queue \in Seq(Bufs)
  BY DEF Init
<1>2. \A b : ~Queued(b)
  BY <1>1 DEF Queued
<1>3. Requests
  BY <1>1, <1>2 DEF Requests
<1>4. DataTypes
  BY DEF Init, DataTypes, Contents
<1>. QED  BY Zenon, <1>1, <1>3, <1>4 DEF Init, RequestInv, QueueTypes, Sleepers, Started

(* A process that is not in iderw with a buffer that it uses: the buffer   *)
(* is not in the queue.                                                    *)
LEMMA NotQueued ==
  ASSUME HolderInv, RequestInv, NEW p \in Procs, NEW b \in Bufs, User(p, b),
         pc[p] \notin {"iosleep", "iocheck"} \/ cur[p] # b
  PROVE  ~Queued(b)
BY SMTT(30) DEF HolderInv, Busy, RequestInv, Requests, User, InIo

(* Neither is one that nobody uses.                                        *)
LEMMA IdleNotQueued ==
  ASSUME HolderInv, RequestInv, NEW b \in Bufs, ~busy[b]
  PROVE  ~Queued(b) /\ \A p \in Procs : pc[p] \in IoLabels => cur[p] # b
BY DEF HolderInv, Busy, RequestInv, Requests, User, InIo, IoLabels

(* iderw.                                                                  *)
LEMMA RequestIderw ==
  ASSUME HolderInv, RequestInv, NEW p \in Procs, Iderw(p)
  PROVE  RequestInv'
<1>. DEFINE b == cur[p]
<1>. /\ pc[p] = "iderw" /\ pc' = [pc EXCEPT ![p] = "iosleep"]
     /\ queue' = Append(queue, b)
     /\ active' = IF queue = <<>> THEN Command(b) ELSE active
     /\ UNCHANGED <<sector, busy, valid, dirty, data, disk, cur, irq>>
  BY DEF Iderw, Goto, flags
<1>1. b \in Bufs /\ User(p, b)
  BY Zenon DEF HolderInv, ProcTypes, User, InIo, IoLabels
<1>2. ~Queued(b) /\ Pending(b)
  BY Zenon, <1>1, NotQueued DEF RequestInv, Sleepers
<1>3. queue \in Seq(Bufs) /\ Len(queue) \in Nat
  BY DEF RequestInv, QueueTypes
<1>4. Len(queue') = Len(queue) + 1 /\ queue'[Len(queue) + 1] = b
      /\ \A i \in 1 .. Len(queue) : queue'[i] = queue[i]
  BY <1>1, <1>3
<1>5. \A c : Queued(c)' <=> Queued(c) \/ c = b
  BY <1>3, <1>4 DEF Queued
<1>6. QueueTypes'
  BY <1>1 DEF RequestInv, QueueTypes
<1>7. Requests'
  <2>1. \A i, j \in 1 .. Len(queue') : queue'[i] = queue'[j] => i = j
    BY <1>2, <1>3, <1>4 DEF RequestInv, Requests, Queued
  <2>2. \A c \in Bufs : Queued(c)' =>
          Pending(c)' /\ \E q \in Procs : cur'[q] = c /\ pc'[q] \in {"iosleep", "iocheck"}
    BY Zenon, <1>2, <1>5 DEF RequestInv, Requests, Pending, HolderInv, ProcTypes
  <2>. QED  BY Zenon, <2>1, <2>2 DEF Requests
<1>8. Sleepers'
  BY Zenon, <1>5 DEF RequestInv, Sleepers, Pending, HolderInv, ProcTypes
<1>9. Started'
  BY SMTT(30), <1>1, <1>3 DEF RequestInv, Started, Command
<1>10. DataTypes'
  BY DEF RequestInv, DataTypes
<1>. QED  BY <1>6, <1>7, <1>8, <1>9, <1>10 DEF RequestInv

(* ideintr: the first request is done, and who waits for it is woken.      *)
LEMMA RequestIntr ==
  ASSUME HolderInv, RequestInv, NEW failed \in BOOLEAN, IdeIntr(failed)
  PROVE  RequestInv'
<1>0. PICK b \in Bufs : b = Head(queue)
  BY DEF IdeIntr, RequestInv, QueueTypes
<1>. /\ queue # <<>> /\ queue' = Tail(queue) /\ irq' = FALSE
     /\ valid' = [valid EXCEPT ![b] = TRUE] /\ dirty' = [dirty EXCEPT ![b] = FALSE]
     /\ data' = IF dirty[b] \/ failed THEN data ELSE [data EXCEPT ![b] = disk[active.sector]]
     /\ Wakeup(b) /\ UNCHANGED <<sector, busy, cur>>
     /\ active' = IF Tail(queue) = <<>> THEN None ELSE Command(Head(Tail(queue)))
  BY Zenon, <1>0 DEF IdeIntr
<1>3. queue \in Seq(Bufs) /\ Len(queue) \in Nat \ {0} /\ queue[1] = b
  BY <1>0 DEF RequestInv, QueueTypes
<1>4. /\ queue' \in Seq(Bufs) /\ Len(queue') = Len(queue) - 1
      /\ \A i \in 1 .. Len(queue') : queue'[i] = queue[i+1]
  BY <1>3
<1>5. \A c : Queued(c)' <=> Queued(c) /\ c # b
  <2>1. ASSUME NEW i \in 1 .. Len(queue')
        PROVE  queue'[i] # b /\ \E j \in 1 .. Len(queue) : queue[j] = queue'[i]
    BY <1>3, <1>4 DEF RequestInv, Requests
  <2>2. ASSUME NEW i \in 1 .. Len(queue), queue[i] # b
        PROVE  \E j \in 1 .. Len(queue') : queue'[j] = queue[i]
    <3>1. i # 1 /\ i - 1 \in 1 .. Len(queue') /\ (i - 1) + 1 = i
      BY <1>3, <1>4, <2>2
    <3>2. queue'[i - 1] = queue[i]
      BY <1>4, <3>1
    <3>. QED  BY Zenon, <3>1, <3>2
  <2>3. ASSUME NEW c, Queued(c)' PROVE Queued(c) /\ c # b
    BY Zenon, <2>1, <2>3 DEF Queued
  <2>4. ASSUME NEW c, Queued(c), c # b PROVE Queued(c)'
    BY Zenon, <2>2, <2>4 DEF Queued
  <2>. QED  BY Zenon, <2>3, <2>4
<1>6. Queued(b)
  BY <1>3 DEF Queued
<1>7. \A q \in Procs : pc[q] = "iderw" => cur[q] # b
  BY Zenon, <1>6, NotQueued DEF User, InIo
<1>8. \A c \in Bufs : c # b => (Pending(c)' <=> Pending(c)) /\ Command(c)' = Command(c)
  BY Zenon DEF Pending, Command, HolderInv, BufTypes, RequestInv, DataTypes
<1>9. ~Pending(b)'
  BY Zenon DEF Pending, HolderInv, BufTypes
<1>10. \A q \in Procs : pc'[q] = (CASE cur[q] = b /\ pc[q] = "bsleep" -> "bget"
             [] cur[q] = b /\ pc[q] = "iosleep" -> "iocheck"
             [] OTHER -> pc[q])
  BY DEF Wakeup
<1>11. QueueTypes'
  BY Zenon, <1>4 DEF QueueTypes
<1>12. Requests'
  <2>1. \A i, j \in 1 .. Len(queue') : queue'[i] = queue'[j] => i = j
    BY SMTT(30), <1>3, <1>4 DEF RequestInv, Requests
  <2>2. \A c \in Bufs : Queued(c)' =>
          Pending(c)' /\ \E q \in Procs : cur'[q] = c /\ pc'[q] \in {"iosleep", "iocheck"}
    BY <1>5, <1>8, <1>10 DEF RequestInv, Requests
  <2>. QED  BY Zenon, <2>1, <2>2 DEF Requests
<1>13. Sleepers'
  BY Zenon, <1>5, <1>7, <1>8, <1>9, <1>10 DEF RequestInv, Sleepers
<1>14. Started'
  <2>1. CASE queue' = <<>>
    BY <2>1 DEF Started
  <2>2. CASE queue' # <<>>
    <3>1. Head(queue') = queue[2] /\ queue[2] \in Bufs /\ queue[2] # b
      BY SMTT(30), <1>3, <1>4, <2>2 DEF RequestInv, Requests
    <3>. QED  BY ZenonT(30), <1>8, <2>2, <3>1 DEF Started, Command
  <2>. QED  BY Zenon, <2>1, <2>2
<1>15. DataTypes'
  <2>1. busy[b]
    BY Zenon, <1>6, IdleNotQueued
  <2>2. active.sector \in Sectors
    BY Zenon, <1>0, <2>1 DEF RequestInv, Started, Command, HolderInv, Busy
  <2>. QED  BY Zenon, <2>2 DEF RequestInv, DataTypes, IdeIntr
<1>. QED  BY Zenon, <1>11, <1>12, <1>13, <1>14, <1>15 DEF RequestInv

(* A step that leaves the queue alone, and that of the queued buffers.     *)
LEMMA RequestSame ==
  ASSUME RequestInv, UNCHANGED <<queue, active, irq>>,
         \A b \in Bufs : Queued(b) => (Pending(b)' <=> Pending(b)) /\ Command(b)' = Command(b),
         \A p \in Procs, b \in Bufs :
           Queued(b) /\ cur[p] = b /\ pc[p] \in {"iosleep", "iocheck"} =>
             cur'[p] = b /\ pc'[p] \in {"iosleep", "iocheck"}
  PROVE  QueueTypes' /\ Requests' /\ Started' /\ \A b : Queued(b)' <=> Queued(b)
<1>1. \A b : Queued(b)' <=> Queued(b)
  BY DEF Queued
<1>2. QueueTypes'
  BY Zenon DEF RequestInv, QueueTypes
<1>3. Requests'
  BY <1>1 DEF RequestInv, Requests
<1>4. Started'
  <2>1. queue # <<>> => Head(queue) \in Bufs /\ Queued(Head(queue))
    BY DEF RequestInv, QueueTypes, Queued
  <2>2. queue # <<>> => Command(Head(queue))' = Command(Head(queue))
    BY Zenon, <2>1 DEF Command
  <2>. QED  BY Zenon, <2>2 DEF RequestInv, Started
<1>. QED  BY Zenon, <1>1, <1>2, <1>3, <1>4

(* bget.                                                                   *)
LEMMA RequestBget ==
  ASSUME HolderInv, RequestInv, NEW p \in Procs, BgetHit(p) \/ BgetSleep(p) \/ BgetRecycle(p)
  PROVE  RequestInv'
<1>. USE DEF flags, device, client, Goto
<1>. UNCHANGED <<queue, active, irq>> /\ pc[p] = "bget"
  BY Zenon DEF BgetHit, BgetSleep, BgetRecycle
<1>0. \A q \in Procs : q # p => cur'[q] = cur[q] /\ pc'[q] = pc[q]
  BY Zenon DEF BgetHit, BgetSleep, BgetRecycle, Got, HolderInv, ProcTypes
<1>1. \A b \in Bufs : busy[b] => busy'[b] /\ (Pending(b)' <=> Pending(b)) /\ Command(b)' = Command(b)
  <2>1. CASE BgetHit(p)
    BY Zenon, <2>1 DEF BgetHit, Pending, Command, HolderInv, BufTypes
  <2>2. CASE BgetSleep(p)
    BY Zenon, <2>2 DEF BgetSleep, Pending, Command
  <2>3. CASE BgetRecycle(p)
    <3>. PICK i \in Recyclable :
           /\ sector' = [sector EXCEPT ![lru[i]] = want[p]]
           /\ busy' = [busy EXCEPT ![lru[i]] = TRUE]
           /\ valid' = [valid EXCEPT ![lru[i]] = FALSE]
           /\ dirty' = [dirty EXCEPT ![lru[i]] = FALSE]
           /\ data' = [data EXCEPT ![lru[i]] = "junk"]
      BY Zenon, <2>3 DEF BgetRecycle
    <3>1. lru[i] \in Bufs /\ ~busy[lru[i]]
      BY DEF HolderInv, BufTypes, Recyclable
    <3>2. \A b \in Bufs : busy[b] =>
            /\ sector'[b] = sector[b] /\ busy'[b] = busy[b] /\ valid'[b] = valid[b]
            /\ dirty'[b] = dirty[b] /\ data'[b] = data[b]
      BY Zenon, <3>1 DEF HolderInv, BufTypes, RequestInv, DataTypes
    <3>. QED  BY Zenon, <3>2 DEF Pending, Command
  <2>. QED  BY Zenon, <2>1, <2>2, <2>3
<1>2. \A b \in Bufs : Queued(b) => busy[b]
  BY Zenon, IdleNotQueued
<1>3. QueueTypes' /\ Requests' /\ Started' /\ \A b : Queued(b)' <=> Queued(b)
  BY Zenon, <1>0, <1>1, <1>2, RequestSame
<1>4. \A q \in Procs, b \in Bufs : cur[q] = b /\ pc[q] \in IoLabels => busy[b]
  BY Zenon, IdleNotQueued
<1>5. \A b \in Bufs : cur'[p] = b =>
        /\ pc'[p] = "bsleep" => busy'[b]
        /\ pc'[p] = "iderw" => Pending(b)'
        /\ pc'[p] \notin {"iosleep", "iocheck"}
  <2>1. CASE BgetHit(p)
    BY <2>1 DEF BgetHit, Got, Cached, Pending, HolderInv, BufTypes, ProcTypes
  <2>2. CASE BgetSleep(p)
    BY Zenon, <2>2 DEF BgetSleep, HolderInv, ProcTypes
  <2>3. CASE BgetRecycle(p)
    BY SMTT(30), <2>3 DEF BgetRecycle, Recyclable, Pending, HolderInv, BufTypes, ProcTypes
  <2>. QED  BY Zenon, <2>1, <2>2, <2>3
<1>6. Sleepers'
  BY Zenon, <1>0, <1>1, <1>3, <1>4, <1>5 DEF RequestInv, Sleepers, IoLabels
<1>7. DataTypes'
  BY DEF BgetHit, BgetSleep, BgetRecycle, RequestInv, DataTypes, Contents
<1>. QED  BY Zenon, <1>3, <1>6, <1>7 DEF RequestInv

(* The steps of a process that has what it needs.                          *)
LEMMA RequestHolder ==
  ASSUME HolderInv, RequestInv, NEW p \in Procs, NEW b \in Bufs,
         Modify(p, b) \/ LogWrite(p, b) \/ Bwrite(p, b) \/ Brelse(p, b)
  PROVE  RequestInv'
<1>. USE DEF flags, device, client, Goto
<1>. UNCHANGED <<queue, active, irq>> /\ pc[p] = "run" /\ b \in hold[p]
  BY Zenon DEF Modify, LogWrite, Bwrite, Brelse
<1>0. ~Queued(b) /\ \A q \in Procs : pc[q] \in IoLabels => cur[q] # b
  BY NotQueued DEF User, InIo, IoLabels, HolderInv, Busy
<1>1. \A c \in Bufs : c # b =>
        busy'[c] = busy[c] /\ (Pending(c)' <=> Pending(c)) /\ Command(c)' = Command(c)
  BY Zenon DEF Modify, LogWrite, Bwrite, Brelse, Pending, Command, HolderInv, BufTypes, RequestInv, DataTypes
<1>2. \A q \in Procs : q # p =>
        /\ cur'[q] = cur[q]
        /\ pc[q] # "bsleep" => pc'[q] = pc[q]
        /\ pc[q] = "bsleep" => pc'[q] \in {"bsleep", "bget"}
  BY <1>0 DEF Modify, LogWrite, Bwrite, Brelse, Wakeup, HolderInv, ProcTypes, IoLabels
<1>3. QueueTypes' /\ Requests' /\ Started' /\ \A c : Queued(c)' <=> Queued(c)
  BY Zenon, <1>0, <1>1, <1>2, RequestSame
<1>4. \A c \in Bufs : cur'[p] = c /\ pc'[p] # "run" => pc'[p] = "iderw" /\ Pending(c)'
  BY DEF Modify, LogWrite, Bwrite, Brelse, Wakeup, Pending, HolderInv, BufTypes, ProcTypes
<1>5. \A q \in Procs : q # p /\ pc'[q] = "bsleep" /\ cur[q] = b => busy'[b]
  <2>1. busy[b]
    BY Zenon DEF HolderInv, Busy, User
  <2>2. CASE Brelse(p, b)
    BY <2>2 DEF Brelse, Wakeup
  <2>3. CASE Modify(p, b) \/ LogWrite(p, b) \/ Bwrite(p, b)
    BY Zenon, <2>1, <2>3 DEF Modify, LogWrite, Bwrite
  <2>. QED  BY <2>2, <2>3
<1>6. Sleepers'
  BY SMTT(30), <1>0, <1>1, <1>2, <1>3, <1>4, <1>5 DEF RequestInv, Sleepers, IoLabels
<1>7. DataTypes'
  BY Zenon DEF Modify, LogWrite, Bwrite, Brelse, RequestInv, DataTypes, Contents
<1>. QED  BY Zenon, <1>3, <1>6, <1>7 DEF RequestInv

(* The steps that touch no buffer.                                         *)
LEMMA RequestOther ==
  ASSUME HolderInv, RequestInv, NEW p \in Procs,
         \/ \E s \in Sectors : Bread(p, s)
         \/ IoDone(p) \/ IoAgain(p) \/ Kill(p) \/ Begin(p) \/ End(p)
  PROVE  RequestInv'
<1>. USE DEF flags, device, client, Goto
<1>. UNCHANGED <<sector, busy, valid, dirty, data, disk, queue, active, irq>>
  BY DEF Bread, IoDone, IoAgain, Kill, Begin, End
<1>0. \A q \in Procs : q # p => cur'[q] = cur[q] /\ pc'[q] = pc[q]
  BY Zenon DEF Bread, IoDone, IoAgain, Kill, Begin, End, HolderInv, ProcTypes
<1>1. \A b \in Bufs : (Pending(b)' <=> Pending(b)) /\ Command(b)' = Command(b)
  BY Zenon DEF Pending, Command
<1>2. \A b \in Bufs : Queued(b) /\ cur[p] = b /\ pc[p] \in {"iosleep", "iocheck"} =>
        cur'[p] = b /\ pc'[p] \in {"iosleep", "iocheck"}
  BY SMTT(30) DEF Bread, IoDone, IoAgain, Kill, Begin, End, HolderInv, ProcTypes,
         RequestInv, Requests, Pending
<1>3. QueueTypes' /\ Requests' /\ Started' /\ \A b : Queued(b)' <=> Queued(b)
  BY Zenon, <1>0, <1>1, <1>2, RequestSame
<1>4. \A b \in Bufs : cur'[p] = b =>
        /\ pc'[p] # "bsleep"
        /\ pc'[p] = "iderw" => Pending(b)
        /\ pc'[p] \in {"iosleep", "iocheck"} /\ Pending(b) => Queued(b)
        /\ pc'[p] = "iosleep" => Queued(b)
  BY Zenon DEF Bread, IoDone, IoAgain, Kill, Begin, End, HolderInv, ProcTypes,
         RequestInv, Sleepers, Pending
<1>5. Sleepers'
  BY Zenon, <1>0, <1>1, <1>3, <1>4 DEF RequestInv, Sleepers
<1>6. DataTypes'
  BY DEF RequestInv, DataTypes
<1>. QED  BY Zenon, <1>3, <1>5, <1>6 DEF RequestInv

(* The disk carries out its command.                                       *)
LEMMA RequestDisk ==
  ASSUME HolderInv, RequestInv, DiskDone
  PROVE  RequestInv'
<1>. USE DEF flags, device, client
<1>. /\ UNCHANGED <<sector, busy, valid, dirty, data, queue, active, cur, pc>>
     /\ active # None /\ irq' = TRUE
  BY Zenon DEF DiskDone
<1>1. queue # <<>> /\ active = Command(Head(queue)) /\ Head(queue) \in Bufs
  BY DEF RequestInv, QueueTypes, Started
<1>2. Requests' /\ Sleepers'
  <2>1. \A b : (Queued(b)' <=> Queued(b)) /\ (Pending(b)' <=> Pending(b))
    BY Zenon DEF Queued, Pending
  <2>2. Requests'
    BY Zenon, <2>1 DEF RequestInv, Requests, Bufs
  <2>3. Sleepers'
    BY Zenon, <2>1 DEF RequestInv, Sleepers, Bufs
  <2>. QED  BY <2>2, <2>3
<1>3. QueueTypes' /\ Started'
  BY Zenon, <1>1 DEF RequestInv, QueueTypes, Started, Command
<1>4. DataTypes'
  BY Zenon, <1>1 DEF DiskDone, RequestInv, DataTypes, Command
<1>. QED  BY Zenon, <1>2, <1>3, <1>4 DEF RequestInv

(* Every step keeps the invariant.                                         *)
LEMMA RequestNext == HolderInv /\ RequestInv /\ [Next]_vars => RequestInv'
<1>. SUFFICES ASSUME HolderInv, RequestInv, [Next]_vars PROVE RequestInv'
  OBVIOUS
<1>1. CASE UNCHANGED vars
  <2>1. UNCHANGED <<sector, busy, valid, dirty, data, queue, active, irq, disk, cur, pc>>
    BY Zenon, <1>1 DEF vars, flags, device, client
  <2>2. DataTypes' /\ QueueTypes'
    BY Zenon, <2>1 DEF RequestInv, DataTypes, QueueTypes
  <2>3. Requests'
    BY Zenon, <2>1 DEF RequestInv, Requests, Queued, Pending
  <2>4. Sleepers'
    BY Zenon, <2>1 DEF RequestInv, Sleepers, Queued, Pending
  <2>5. Started'
    BY Zenon, <2>1 DEF RequestInv, Started, Command
  <2>. QED
    BY Zenon, <2>2, <2>3, <2>4, <2>5 DEF RequestInv
<1>2. CASE Next
  BY Zenon, <1>2, RequestIderw, RequestIntr, RequestBget, RequestHolder, RequestOther, RequestDisk DEF Next
<1>. QED  BY <1>1, <1>2

(* The invariant holds in every state that the cache reaches.              *)
THEOREM RequestInvariant == CacheAssumption /\ Spec => []RequestInv
BY RequestInit, RequestNext, HolderInvariant, PTL DEF Spec

(* Nobody sleeps for nothing in bget or iderw, and the disk works on the   *)
(* first request: no wakeup of brelse or ideintr is lost.                  *)
THEOREM SleepersCorrect == CacheAssumption /\ Spec => []SleepersServed
<1>1. HolderInv /\ RequestInv => SleepersServed
  <2>. SUFFICES ASSUME HolderInv, RequestInv PROVE SleepersServed
    OBVIOUS
  <2>1. \A p \in Procs : /\ pc[p] = "bsleep" => busy[cur[p]]
                         /\ pc[p] = "iosleep" => \E i \in 1 .. Len(queue) : queue[i] = cur[p]
    BY Zenon DEF RequestInv, Sleepers, Queued, HolderInv, ProcTypes, IoLabels
  <2>2. active = IF queue = <<>> THEN None ELSE Command(Head(queue))
    BY Zenon DEF RequestInv, Started
  <2>. QED  BY Zenon, <2>1, <2>2 DEF SleepersServed
<1>. QED  BY <1>1, HolderInvariant, RequestInvariant, PTL

-----------------------------------------------------------------------------
(* What is in use is valid, what is to be written is valid, what is being  *)
(* changed is in use, and what the disk has written is no longer stale.    *)
CoherentInv ==
  /\ CacheCoherent
  /\ \A b \in Bufs : data[b] # "stale"
  /\ \A p \in Procs, b \in Bufs : b \in hold[p] => valid[b]
  /\ \A b \in Bufs : dirty[b] => valid[b]
  /\ \A b \in changed : b \in Bufs /\ \E p \in Procs : b \in hold[p]
  /\ \A b \in Bufs : irq /\ b = Head(queue) /\ dirty[b] => disk[sector[b]] # "stale"

(* The steps that change no buffer and no sector.                          *)
LEMMA CoherentQuiet ==
  ASSUME HolderInv, RequestInv, CoherentInv, NEW p \in Procs,
         \/ \E s \in Sectors : Bread(p, s)
         \/ BgetHit(p) \/ BgetSleep(p) \/ Iderw(p) \/ IoDone(p) \/ IoAgain(p) \/ Kill(p)
         \/ Begin(p) \/ End(p)
  PROVE  CoherentInv'
<1>1. /\ UNCHANGED <<sector, valid, dirty, data, disk, irq, changed>>
      /\ BgetHit(p) \/ IoDone(p) \/ hold' = hold
      /\ Iderw(p) \/ queue' = queue
  <2>1. CASE BgetHit(p) \/ BgetSleep(p)
    BY Zenon, <2>1 DEF BgetHit, BgetSleep, flags, device, client
  <2>2. CASE Iderw(p) \/ IoDone(p) \/ IoAgain(p)
    BY Zenon, <2>2 DEF Iderw, IoDone, IoAgain, flags, device, client
  <2>3. CASE Kill(p) \/ Begin(p) \/ End(p)
    BY Zenon, <2>3 DEF Kill, Begin, End, flags, device, client
  <2>4. CASE \E s \in Sectors : Bread(p, s)
    BY Zenon, <2>4 DEF Bread, flags, device, client
  <2>. QED  BY Zenon, <2>1, <2>2, <2>3, <2>4
<1>2. irq => Head(queue') = Head(queue)
  <2>1. CASE Iderw(p)
    <3>1. irq => queue # <<>> /\ queue \in Seq(Bufs)
      BY Zenon DEF RequestInv, QueueTypes, Started
    <3>2. cur[p] \in Bufs /\ queue' = Append(queue, cur[p])
      BY Zenon, <2>1 DEF Iderw, HolderInv, ProcTypes, IoLabels
    <3>. QED  BY <3>1, <3>2
  <2>. QED  BY Zenon, <1>1, <2>1
<1>3. \A q \in Procs, b \in Bufs :
        (b \in hold[q] => b \in hold'[q]) /\ (b \in hold'[q] => b \in hold[q] \/ valid[b])
  <2>0. hold \in [Procs -> SUBSET Bufs]
    BY Zenon DEF HolderInv, ProcTypes
  <2>1. CASE BgetHit(p)
    <3>. PICK b \in Bufs : Got(p, b)
      BY Zenon, <2>1 DEF BgetHit, Cached
    <3>1. hold' = hold \/ (valid[b] /\ hold' = [hold EXCEPT ![p] = @ \union {b}])
      BY Zenon DEF Got
    <3>. QED  BY Zenon, <2>0, <3>1
  <2>2. CASE IoDone(p)
    <3>1. valid[cur[p]] /\ hold' = [hold EXCEPT ![p] = @ \union {cur[p]}]
      BY <2>2 DEF IoDone
    <3>. QED  BY Zenon, <2>0, <3>1
  <2>. QED  BY Zenon, <1>1, <2>1, <2>2
<1>. QED  BY Zenon, <1>1, <1>2, <1>3 DEF CoherentInv, CacheCoherent

(* bget recycles a buffer that is neither in use nor to be written.        *)
LEMMA CoherentRecycle ==
  ASSUME HolderInv, RequestInv, CoherentInv, NEW p \in Procs, BgetRecycle(p)
  PROVE  CoherentInv'
<1>. UNCHANGED <<hold, disk, queue, irq, changed>>
  BY Zenon DEF BgetRecycle, device, client
<1>0. PICK b \in Bufs :
        /\ ~busy[b] /\ ~dirty[b]
        /\ sector' = [sector EXCEPT ![b] = want[p]]
        /\ valid' = [valid EXCEPT ![b] = FALSE] /\ dirty' = [dirty EXCEPT ![b] = FALSE]
        /\ data' = [data EXCEPT ![b] = "junk"]
  <2>. PICK i \in Recyclable :
         /\ sector' = [sector EXCEPT ![lru[i]] = want[p]]
         /\ valid' = [valid EXCEPT ![lru[i]] = FALSE]
         /\ dirty' = [dirty EXCEPT ![lru[i]] = FALSE]
         /\ data' = [data EXCEPT ![lru[i]] = "junk"]
    BY Zenon DEF BgetRecycle
  <2>1. lru[i] \in Bufs /\ ~busy[lru[i]] /\ ~dirty[lru[i]]
    BY DEF HolderInv, BufTypes, Recyclable
  <2>. QED  BY Zenon, <2>1
<1>1. \A c \in Bufs : c # b => /\ sector'[c] = sector[c] /\ valid'[c] = valid[c]
                               /\ dirty'[c] = dirty[c] /\ data'[c] = data[c]
  BY Zenon, <1>0 DEF HolderInv, BufTypes, RequestInv, DataTypes
<1>2. ~valid'[b] /\ ~dirty'[b] /\ data'[b] = "junk"
  BY Zenon, <1>0 DEF HolderInv, BufTypes, RequestInv, DataTypes
<1>3. b \notin changed /\ \A q \in Procs : b \notin hold[q]
  BY Zenon, <1>0 DEF CoherentInv, HolderInv, Busy, User
<1>. QED  BY <1>0, <1>1, <1>2, <1>3 DEF CoherentInv, CacheCoherent

(* A buffer that a process holds is valid and is not in the queue.         *)
LEMMA HeldBuffer ==
  ASSUME HolderInv, RequestInv, CoherentInv, NEW p \in Procs, NEW b \in Bufs,
         pc[p] = "run", b \in hold[p]
  PROVE  /\ valid[b] /\ busy[b] /\ sector[b] \in Sectors
         /\ irq => b # Head(queue)
<1>1. busy[b]
  BY Zenon DEF HolderInv, Busy, User
<1>2. sector[b] \in Sectors
  BY Zenon, <1>1 DEF HolderInv, Busy
<1>3. ~Queued(b)
  BY Zenon, NotQueued DEF User
<1>4. irq => queue # <<>> /\ queue \in Seq(Bufs)
  BY Zenon DEF RequestInv, QueueTypes, Started
<1>5. irq => b # Head(queue)
  BY <1>3, <1>4 DEF Queued
<1>. QED  BY Zenon, <1>1, <1>2, <1>5 DEF CoherentInv

(* The first buffer of the queue is that of the command of the disk, and   *)
(* no other buffer has its sector.                                         *)
LEMMA HeadRequest ==
  ASSUME HolderInv, RequestInv, active # None \/ irq
  PROVE  \E b \in Bufs :
           /\ b = Head(queue) /\ busy[b] /\ sector[b] \in Sectors /\ Pending(b)
           /\ active.sector = sector[b] /\ active.write = dirty[b] /\ active.data = data[b]
           /\ \A c \in Bufs : sector[c] = sector[b] => c = b
<1>1. queue # <<>> /\ queue \in Seq(Bufs) /\ active = Command(Head(queue))
  BY DEF RequestInv, QueueTypes, Started
<1>2. PICK b \in Bufs : b = Head(queue) /\ Queued(b)
  BY <1>1 DEF Queued
<1>3. Pending(b)
  BY Zenon, <1>2 DEF RequestInv, Requests
<1>4. busy[b]
  BY <1>2, IdleNotQueued
<1>5. sector[b] \in Sectors /\ \A c \in Bufs : sector[c] = sector[b] => c = b
  BY Zenon, <1>4 DEF HolderInv, Busy, OneBuffer, CacheAssumption
<1>. QED  BY Zenon, <1>1, <1>2, <1>3, <1>4, <1>5 DEF Command

(* The process in the transaction changes a block that it holds.           *)
LEMMA CoherentModify ==
  ASSUME HolderInv, RequestInv, CoherentInv, NEW p \in Procs, NEW b \in Bufs, Modify(p, b)
  PROVE  CoherentInv'
<1>1. /\ pc[p] = "run" /\ b \in hold[p]
      /\ UNCHANGED <<sector, valid, dirty, queue, irq, hold>> /\ changed' = changed \union {b}
      /\ data' = [data EXCEPT ![b] = "fresh"] /\ disk' = [disk EXCEPT ![sector[b]] = "stale"]
  BY Zenon DEF Modify, flags, client
<1>2. valid[b] /\ sector[b] \in Sectors /\ (irq => b # Head(queue))
  BY Zenon, <1>1, HeldBuffer
<1>3. /\ \A c \in Bufs : data'[c] = IF c = b THEN "fresh" ELSE data[c]
      /\ \A s \in Sectors : disk'[s] = IF s = sector[b] THEN "stale" ELSE disk[s]
  BY Zenon, <1>1 DEF RequestInv, DataTypes
<1>4. irq /\ Head(queue) \in Bufs =>
        sector[Head(queue)] \in Sectors /\ sector[Head(queue)] # sector[b]
  BY Zenon, <1>2, HeadRequest
<1>. QED  BY SMTT(30), <1>1, <1>2, <1>3, <1>4 DEF CoherentInv, CacheCoherent

(* It hands the block over to the log or to the disk.                      *)
LEMMA CoherentWrite ==
  ASSUME HolderInv, RequestInv, CoherentInv, NEW p \in Procs, NEW b \in Bufs,
         LogWrite(p, b) \/ Bwrite(p, b)
  PROVE  CoherentInv'
<1>1. /\ pc[p] = "run" /\ b \in hold[p]
      /\ UNCHANGED <<sector, valid, data, disk, queue, irq, hold>> /\ changed' = changed \ {b}
      /\ dirty' = [dirty EXCEPT ![b] = TRUE]
  BY Zenon DEF LogWrite, Bwrite, device, client
<1>2. valid[b] /\ (irq => b # Head(queue))
  BY Zenon, <1>1, HeldBuffer
<1>3. \A c \in Bufs : dirty'[c] <=> dirty[c] \/ c = b
  BY Zenon, <1>1 DEF HolderInv, BufTypes
<1>. QED  BY Zenon, <1>1, <1>2, <1>3 DEF CoherentInv, CacheCoherent

(* A process releases a buffer.                                            *)
LEMMA CoherentBrelse ==
  ASSUME HolderInv, RequestInv, CoherentInv, NEW p \in Procs, NEW b \in Bufs, Brelse(p, b)
  PROVE  CoherentInv'
<1>1. /\ UNCHANGED <<sector, valid, dirty, data, disk, queue, irq, changed>> /\ b \notin changed
      /\ hold' = [hold EXCEPT ![p] = @ \ {b}]
  BY Zenon DEF Brelse, device
<1>2. \A q \in Procs, c \in Bufs : /\ c \in hold'[q] => c \in hold[q]
                                   /\ c # b /\ c \in hold[q] => c \in hold'[q]
  BY Zenon, <1>1 DEF HolderInv, ProcTypes
<1>. QED  BY Zenon, <1>1, <1>2 DEF CoherentInv, CacheCoherent

(* The disk carries out its command.                                       *)
LEMMA CoherentDone ==
  ASSUME HolderInv, RequestInv, CoherentInv, DiskDone
  PROVE  CoherentInv'
<1>1. /\ UNCHANGED <<sector, valid, dirty, data, queue, hold, changed>> /\ active # None
      /\ disk' = IF active.write THEN [disk EXCEPT ![active.sector] = active.data] ELSE disk
  BY Zenon DEF DiskDone, flags, client
<1>2. PICK b \in Bufs :
        /\ b = Head(queue) /\ sector[b] \in Sectors
        /\ active.sector = sector[b] /\ active.write = dirty[b] /\ active.data = data[b]
  BY Zenon, <1>1, HeadRequest
<1>3. data[b] # "stale"
  BY Zenon DEF CoherentInv
<1>4. \A s \in Sectors : disk'[s] = IF dirty[b] /\ s = sector[b] THEN data[b] ELSE disk[s]
  BY Zenon, <1>1, <1>2 DEF RequestInv, DataTypes
<1>. QED  BY <1>1, <1>2, <1>3, <1>4 DEF CoherentInv, CacheCoherent

(* Its interrupt.                                                          *)
LEMMA CoherentIntr ==
  ASSUME HolderInv, RequestInv, CoherentInv, NEW failed \in BOOLEAN, IdeIntr(failed)
  PROVE  CoherentInv'
<1>1. PICK b \in Bufs :
        /\ b = Head(queue) /\ sector[b] \in Sectors /\ Pending(b) /\ active.sector = sector[b]
        /\ \A c \in Bufs : sector[c] = sector[b] => c = b
  BY Zenon, HeadRequest DEF IdeIntr
<1>2. /\ UNCHANGED <<sector, disk, hold, changed>> /\ ~irq' /\ irq
      /\ valid' = [valid EXCEPT ![b] = TRUE] /\ dirty' = [dirty EXCEPT ![b] = FALSE]
      /\ data' = data \/ (~dirty[b] /\ data' = [data EXCEPT ![b] = disk[sector[b]]])
  BY Zenon, <1>1 DEF IdeIntr, client
<1>3. /\ \A c \in Bufs : c # b => valid'[c] = valid[c] /\ dirty'[c] = dirty[c]
      /\ valid'[b] /\ ~dirty'[b]
  BY Zenon, <1>2 DEF HolderInv, BufTypes
<1>4. /\ \A c \in Bufs : c # b => data'[c] = data[c]
      /\ data'[b] = data[b] \/ (~dirty[b] /\ data'[b] = disk[sector[b]])
  BY Zenon, <1>2 DEF RequestInv, DataTypes
<1>5. disk[sector[b]] # "stale"
  BY Zenon, <1>1, <1>2 DEF CoherentInv, CacheCoherent, Pending
<1>6. data'[b] # "stale"
  BY Zenon, <1>4, <1>5 DEF CoherentInv
<1>. QED  BY SMTT(30), <1>1, <1>2, <1>3, <1>4, <1>5, <1>6 DEF CoherentInv, CacheCoherent

(* Every step keeps the invariant.                                         *)
LEMMA CoherentNext == HolderInv /\ RequestInv /\ CoherentInv /\ [Next]_vars => CoherentInv'
<1>. SUFFICES ASSUME HolderInv, RequestInv, CoherentInv, [Next]_vars PROVE CoherentInv'
  OBVIOUS
<1>1. CASE UNCHANGED vars
  BY Zenon, <1>1 DEF vars, flags, device, client, CoherentInv, CacheCoherent
<1>2. CASE Next
  BY Zenon, <1>2, CoherentQuiet, CoherentRecycle, CoherentModify, CoherentWrite, CoherentBrelse,
     CoherentDone, CoherentIntr DEF Next
<1>. QED  BY <1>1, <1>2

(* The last contents of a sector are never lost, in whatever order buffers *)
(* are recycled, logged and written.                                       *)
THEOREM CoherentCorrect == CacheAssumption /\ Spec => []CacheCoherent
<1>1. Init => CoherentInv
  BY DEF Init, CoherentInv, CacheCoherent
<1>2. CoherentInv => CacheCoherent
  BY DEF CoherentInv
<1>. QED  BY <1>1, <1>2, CoherentNext, HolderInvariant, RequestInvariant, PTL DEF Spec

-----------------------------------------------------------------------------
(* What a process uses, and how much it may.                               *)
Looking == {"bget", "bsleep"}
Mine(p) == {b \in Bufs : User(p, b)}
Room(p) == IF owner = p THEN MaxHold ELSE 1
RoomOf(p) ==
  /\ Cardinality(Mine(p)) <= Room(p)
  /\ pc[p] \in Looking => Cardinality(Mine(p)) < Room(p)

(* The buffers that log_write has pinned: a dirty one that a process is    *)
(* writing is counted as that process's.                                   *)
Pinned == {b \in Bufs : dirty[b] /\ \A p \in Procs : ~InIo(p, b)}

Listed == \A b \in Bufs : \E i \in 1 .. Len(lru) : lru[i] = b

RoomInv == Listed /\ (\A p \in Procs : RoomOf(p)) /\ Cardinality(Pinned) <= MaxDirty

(* What the proof needs to know of the number of buffers in a set.         *)
Cards ==
  /\ \A S \in SUBSET Bufs : Cardinality(S) \in Nat
  /\ \A S, T \in SUBSET Bufs : S \subseteq T => Cardinality(S) <= Cardinality(T)
  /\ \A S \in SUBSET Bufs, b \in Bufs : Cardinality(S \union {b}) <= Cardinality(S) + 1

(* A process that uses no more than before, and does not start to look for *)
(* a buffer, keeps within its room.                                        *)
LEMMA RoomLess ==
  ASSUME Cards, EnoughBuffers, NEW p \in Procs, RoomOf(p), Room(p)' = Room(p), Mine(p)' \subseteq Mine(p),
         pc'[p] \in Looking => pc[p] \in Looking
  PROVE  RoomOf(p)'
<1>1. Mine(p) \in SUBSET Bufs /\ Mine(p)' \in SUBSET Bufs
  BY Zenon DEF Mine, Bufs
<1>2. Cardinality(Mine(p)) \in Nat /\ Cardinality(Mine(p)') \in Nat
      /\ Cardinality(Mine(p)') <= Cardinality(Mine(p)) /\ Room(p) \in Nat
  BY Zenon, <1>1 DEF Cards, Room, EnoughBuffers
<1>3. Cardinality(Mine(p)') <= Room(p)
  BY <1>2 DEF RoomOf
<1>4. pc'[p] \in Looking => Cardinality(Mine(p)') < Room(p)
  BY <1>2 DEF RoomOf
<1>. QED  BY Zenon, <1>3, <1>4 DEF RoomOf

(* Nothing more is pinned.                                                 *)
LEMMA PinnedLess ==
  ASSUME Cards, EnoughBuffers, Cardinality(Pinned) <= MaxDirty, Pinned' \subseteq Pinned
  PROVE  Cardinality(Pinned)' <= MaxDirty
<1>1. Pinned \in SUBSET Bufs /\ Pinned' \in SUBSET Bufs
  BY Zenon DEF Pinned, Bufs
<1>2. Cardinality(Pinned) \in Nat /\ Cardinality(Pinned') \in Nat
      /\ Cardinality(Pinned') <= Cardinality(Pinned)
  BY Zenon, <1>1 DEF Cards
<1>. QED  BY <1>2 DEF EnoughBuffers

(* The steps that neither take nor give back a buffer.  A process may have *)
(* gone on from its sleep, and IdeIntr has cleaned the buffer.             *)
LEMMA RoomQuiet ==
  ASSUME Cards, EnoughBuffers, HolderInv, RoomInv, lru' = lru, owner' = owner, hold' = hold,
         \A b \in Bufs : dirty'[b] => dirty[b],
         \A p \in Procs, b \in Bufs : InIo(p, b)' <=> InIo(p, b),
         \A p \in Procs : pc'[p] \in Looking => pc[p] \in Looking
  PROVE  RoomInv'
<1>1. \A p \in Procs : Mine(p)' \subseteq Mine(p) /\ Room(p)' = Room(p)
  BY Zenon DEF Mine, User, Room, Bufs
<1>2. Pinned' \subseteq Pinned
  BY Zenon DEF Pinned, Bufs
<1>3. \A p \in Procs : RoomOf(p)'
  BY Zenon, <1>1, RoomLess DEF RoomInv
<1>4. Listed'
  BY Zenon DEF Listed, RoomInv, Bufs
<1>. QED  BY Zenon, <1>2, <1>3, <1>4, PinnedLess DEF RoomInv

(* bget takes a buffer for p, which had room for it.                       *)
LEMMA RoomTake ==
  ASSUME Cards, EnoughBuffers, HolderInv, RoomInv, NEW p \in Procs, NEW b \in Bufs,
         pc[p] \in Looking, pc'[p] \notin Looking, lru' = lru, owner' = owner,
         Mine(p)' \subseteq Mine(p) \union {b},
         \A q \in Procs : q # p => Mine(q)' = Mine(q) /\ pc'[q] = pc[q],
         Pinned' \subseteq Pinned
  PROVE  RoomInv'
<1>1. Mine(p) \in SUBSET Bufs /\ Mine(p)' \in SUBSET Bufs /\ Mine(p) \union {b} \in SUBSET Bufs
  BY Zenon DEF Mine, Bufs
<1>2. /\ Cardinality(Mine(p)) \in Nat /\ Cardinality(Mine(p)') \in Nat /\ Room(p) \in Nat
      /\ Cardinality(Mine(p) \union {b}) \in Nat
      /\ Cardinality(Mine(p) \union {b}) <= Cardinality(Mine(p)) + 1
      /\ Cardinality(Mine(p)') <= Cardinality(Mine(p) \union {b})
  BY Zenon, <1>1 DEF Cards, Room, EnoughBuffers
<1>3. Cardinality(Mine(p)) < Room(p)
  BY Zenon DEF RoomInv, RoomOf
<1>4. Cardinality(Mine(p)') <= Room(p)
  BY <1>2, <1>3
<1>5. \A q \in Procs : Room(q)' = Room(q)
  BY Zenon DEF Room
<1>6. \A q \in Procs : RoomOf(q)'
  BY Zenon, <1>4, <1>5, RoomLess DEF RoomInv, RoomOf
<1>7. Listed'
  BY Zenon DEF Listed, RoomInv, Bufs
<1>. QED  BY Zenon, <1>6, <1>7, PinnedLess DEF RoomInv

(* The two ways to get one.                                                *)
LEMMA RoomBget ==
  ASSUME Cards, EnoughBuffers, HolderInv, RoomInv, NEW p \in Procs, BgetHit(p) \/ BgetRecycle(p)
  PROVE  RoomInv'
<1>1. PICK b \in Bufs :
        /\ \A c \in Bufs : dirty'[c] => dirty[c]
        /\ \/ hold' = [hold EXCEPT ![p] = @ \union {b}] /\ pc' = [pc EXCEPT ![p] = "run"]
              /\ cur' = [cur EXCEPT ![p] = None]
           \/ hold' = hold /\ pc' = [pc EXCEPT ![p] = "iderw"] /\ cur' = [cur EXCEPT ![p] = b]
  <2>1. CASE BgetHit(p)
    BY Zenon, <2>1 DEF BgetHit, Cached, Got, Goto
  <2>2. CASE BgetRecycle(p)
    <3>1. PICK i \in 1 .. Len(lru) :
            /\ dirty' = [dirty EXCEPT ![lru[i]] = FALSE] /\ cur' = [cur EXCEPT ![p] = lru[i]]
      BY Zenon, <2>2 DEF BgetRecycle, Recyclable
    <3>2. lru[i] \in Bufs
      BY DEF HolderInv, BufTypes
    <3>3. \A c \in Bufs : dirty'[c] => dirty[c]
      BY Zenon, <3>1, <3>2 DEF HolderInv, BufTypes
    <3>4. hold' = hold /\ pc' = [pc EXCEPT ![p] = "iderw"]
      BY Zenon, <2>2 DEF BgetRecycle, client, Goto
    <3>. QED  BY Zenon, <3>1, <3>2, <3>3, <3>4
  <2>. QED  BY Zenon, <2>1, <2>2
<1>2. pc[p] = "bget" /\ lru' = lru /\ owner' = owner
  BY Zenon DEF BgetHit, BgetRecycle, client
<1>3. pc[p] \in Looking /\ pc'[p] \notin Looking
  BY Zenon, <1>1, <1>2 DEF Looking, HolderInv, ProcTypes
<1>4. \A q \in Procs : q # p => hold'[q] = hold[q] /\ cur'[q] = cur[q] /\ pc'[q] = pc[q]
  BY Zenon, <1>1 DEF HolderInv, ProcTypes
<1>5. \A q \in Procs : q # p => Mine(q)' = Mine(q) /\ pc'[q] = pc[q]
  BY Zenon, <1>4 DEF Mine, User, InIo, Bufs
<1>6. \A c \in Bufs : InIo(p, c)' \/ c \in hold'[p] => c \in hold[p] \/ c = b
  <2>1. \/ hold'[p] = hold[p] \union {b} /\ pc'[p] = "run"
        \/ hold'[p] = hold[p] /\ cur'[p] = b
    BY Zenon, <1>1 DEF HolderInv, ProcTypes
  <2>2. pc'[p] = "run" => \A c \in Bufs : ~InIo(p, c)'
    BY Zenon DEF InIo
  <2>3. cur'[p] = b => \A c \in Bufs : InIo(p, c)' => c = b
    BY Zenon DEF InIo
  <2>. QED  BY Zenon, <2>1, <2>2, <2>3
<1>7. Mine(p)' \subseteq Mine(p) \union {b}
  BY Zenon, <1>6 DEF Mine, User, Bufs
<1>8. \A c \in Bufs : ~InIo(p, c)
  BY Zenon, <1>2 DEF InIo
<1>9. Pinned' \subseteq Pinned
  BY Zenon, <1>1, <1>4, <1>8 DEF Pinned, InIo, Bufs
<1>. QED  BY Zenon, <1>2, <1>3, <1>5, <1>7, <1>9, RoomTake

(* bread: the process looks whether it has room.                           *)
LEMMA RoomBread ==
  ASSUME Cards, EnoughBuffers, HolderInv, RoomInv, NEW p \in Procs, NEW s \in Sectors, Bread(p, s)
  PROVE  RoomInv'
<1>1. /\ pc[p] = "run" /\ Cardinality(hold[p]) < Room(p) /\ pc' = [pc EXCEPT ![p] = "bget"]
      /\ UNCHANGED <<lru, owner, hold, cur, dirty>>
  BY Zenon DEF Bread, Room, flags, client, Goto
<1>2. /\ \A q \in Procs : q # p => pc'[q] = pc[q]
      /\ pc'[p] = "bget"
  BY Zenon, <1>1 DEF HolderInv, ProcTypes
<1>3. \A q \in Procs, b \in Bufs : InIo(q, b)' <=> InIo(q, b)
  BY Zenon, <1>1, <1>2 DEF InIo
<1>4. \A q \in Procs : Mine(q)' = Mine(q) /\ Room(q)' = Room(q)
  BY Zenon, <1>1, <1>3 DEF Mine, User, Room, Bufs
<1>5. Mine(p) = hold[p]
  BY Zenon, <1>1 DEF Mine, User, InIo, HolderInv, ProcTypes
<1>6. RoomOf(p)'
  BY Zenon, <1>1, <1>4, <1>5 DEF RoomOf, RoomInv
<1>7. \A q \in Procs : RoomOf(q)'
  BY Zenon, <1>2, <1>4, <1>6, RoomLess DEF RoomInv
<1>8. Pinned' \subseteq Pinned
  BY Zenon, <1>1, <1>3 DEF Pinned, Bufs
<1>9. Listed'
  BY Zenon, <1>1 DEF Listed, RoomInv, Bufs
<1>. QED  BY Zenon, <1>7, <1>8, <1>9, PinnedLess DEF RoomInv

(* The end of iderw, bwrite and log_write.                                 *)
LEMMA RoomWrite ==
  ASSUME Cards, EnoughBuffers, HolderInv, RoomInv, NEW p \in Procs,
         IoDone(p) \/ \E b \in Bufs : LogWrite(p, b) \/ Bwrite(p, b)
  PROVE  RoomInv'
<1>1. CASE IoDone(p)
  <2>1. /\ pc[p] = "iocheck" /\ ~dirty[cur[p]] /\ UNCHANGED <<lru, owner, dirty>>
        /\ hold' = [hold EXCEPT ![p] = @ \union {cur[p]}]
        /\ cur' = [cur EXCEPT ![p] = None] /\ pc' = [pc EXCEPT ![p] = "run"]
    BY Zenon, <1>1 DEF IoDone, Goto, flags
  <2>2. /\ \A q \in Procs : q # p => hold'[q] = hold[q] /\ cur'[q] = cur[q] /\ pc'[q] = pc[q]
        /\ hold'[p] = hold[p] \union {cur[p]} /\ pc'[p] = "run" /\ InIo(p, cur[p])
    BY Zenon, <2>1 DEF HolderInv, ProcTypes, InIo
  <2>3. \A q \in Procs : Mine(q)' \subseteq Mine(q) /\ Room(q)' = Room(q)
    BY Zenon, <2>1, <2>2 DEF Mine, User, Room, Bufs, InIo
  <2>4. \A q \in Procs : pc'[q] \in Looking => pc[q] \in Looking
    BY Zenon, <2>2 DEF Looking
  <2>5. \A q \in Procs, b \in Bufs : dirty[b] /\ InIo(q, b) => InIo(q, b)'
    BY Zenon, <2>1, <2>2 DEF InIo
  <2>6. Pinned' \subseteq Pinned
    BY Zenon, <2>1, <2>5 DEF Pinned, Bufs
  <2>7. \A q \in Procs : RoomOf(q)'
    BY Zenon, <2>3, <2>4, RoomLess DEF RoomInv
  <2>8. Listed'
    BY Zenon, <2>1 DEF Listed, RoomInv, Bufs
  <2>. QED  BY Zenon, <2>6, <2>7, <2>8, PinnedLess DEF RoomInv
<1>2. ASSUME NEW b \in Bufs, Bwrite(p, b) PROVE RoomInv'
  <2>1. /\ pc[p] = "run" /\ b \in hold[p] /\ UNCHANGED <<lru, owner, hold>>
        /\ dirty' = [dirty EXCEPT ![b] = TRUE]
        /\ cur' = [cur EXCEPT ![p] = b] /\ pc' = [pc EXCEPT ![p] = "iderw"]
    BY Zenon, <1>2 DEF Bwrite, Goto, client
  <2>2. /\ \A q \in Procs : q # p => cur'[q] = cur[q] /\ pc'[q] = pc[q]
        /\ cur'[p] = b /\ pc'[p] = "iderw" /\ InIo(p, b)'
    BY Zenon, <2>1 DEF HolderInv, ProcTypes, InIo
  <2>3. \A c \in Bufs : InIo(p, c)' => c \in hold[p]
    BY Zenon, <2>1, <2>2 DEF InIo
  <2>4. \A q \in Procs : Mine(q)' \subseteq Mine(q) /\ Room(q)' = Room(q)
    BY Zenon, <2>1, <2>2, <2>3 DEF Mine, User, Room, Bufs, InIo
  <2>5. \A q \in Procs : pc'[q] \in Looking => pc[q] \in Looking
    BY Zenon, <2>2 DEF Looking
  <2>6. \A c \in Bufs : dirty'[c] /\ c # b => dirty[c]
    BY Zenon, <2>1 DEF HolderInv, BufTypes
  <2>7. \A q \in Procs, c \in Bufs : InIo(q, c) => InIo(q, c)'
    BY Zenon, <2>1, <2>2 DEF InIo
  <2>8. Pinned' \subseteq Pinned
    BY Zenon, <2>2, <2>6, <2>7 DEF Pinned, Bufs
  <2>9. \A q \in Procs : RoomOf(q)'
    BY Zenon, <2>4, <2>5, RoomLess DEF RoomInv
  <2>10. Listed'
    BY Zenon, <2>1 DEF Listed, RoomInv, Bufs
  <2>. QED  BY Zenon, <2>8, <2>9, <2>10, PinnedLess DEF RoomInv
<1>3. ASSUME NEW b \in Bufs, LogWrite(p, b) PROVE RoomInv'
  <2>1. /\ UNCHANGED <<lru, owner, hold, cur, pc>> /\ dirty' = [dirty EXCEPT ![b] = TRUE]
        /\ Cardinality({c \in Bufs : dirty[c]} \union {b}) <= MaxDirty
    BY Zenon, <1>3 DEF LogWrite, client
  <2>2. \A q \in Procs : Mine(q)' \subseteq Mine(q) /\ Room(q)' = Room(q)
    BY Zenon, <2>1 DEF Mine, User, Room, Bufs, InIo
  <2>3. \A q \in Procs : RoomOf(q)'
    BY Zenon, <2>1, <2>2, RoomLess DEF RoomInv
  <2>4. \A c \in Bufs : dirty'[c] => dirty[c] \/ c = b
    BY Zenon, <2>1 DEF HolderInv, BufTypes
  <2>5. Pinned' \subseteq {c \in Bufs : dirty[c]} \union {b}
    BY Zenon, <2>4 DEF Pinned, Bufs
  <2>6. {c \in Bufs : dirty[c]} \union {b} \in SUBSET Bufs /\ Pinned' \in SUBSET Bufs
    BY Zenon, <2>5
  <2>7. /\ Cardinality(Pinned') <= Cardinality({c \in Bufs : dirty[c]} \union {b})
        /\ Cardinality(Pinned') \in Nat /\ Cardinality({c \in Bufs : dirty[c]} \union {b}) \in Nat
    BY Zenon, <2>5, <2>6 DEF Cards
  <2>8. Cardinality(Pinned') <= MaxDirty
    BY <2>1, <2>7 DEF EnoughBuffers
  <2>9. Listed'
    BY Zenon, <2>1 DEF Listed, RoomInv, Bufs
  <2>. QED  BY Zenon, <2>3, <2>8, <2>9 DEF RoomInv
<1>. QED  BY Zenon, <1>1, <1>2, <1>3

(* The two parts of a concatenation.                                       *)
LEMMA Joined ==
  ASSUME NEW u \in Seq(Bufs), NEW t \in Seq(Bufs)
  PROVE  /\ Len(u \o t) = Len(u) + Len(t)
         /\ \A j \in 1 .. Len(u) : (u \o t)[j] = u[j]
         /\ \A j \in 1 .. Len(t) : (u \o t)[Len(u) + j] = t[j]
<1>1. Len(u) \in Nat /\ Len(t) \in Nat
  OBVIOUS
<1>2. ASSUME NEW j \in 1 .. Len(t) PROVE (u \o t)[Len(u) + j] = t[j]
  BY <1>1
<1>3. Len(u \o t) = Len(u) + Len(t) /\ \A j \in 1 .. Len(u) : (u \o t)[j] = u[j]
  BY <1>1
<1>. QED  BY <1>2, <1>3

(* brelse moves a buffer to the front of the list, and loses none.         *)
LEMMA FrontListed ==
  ASSUME lru \in Seq(Bufs), Listed, NEW b \in Bufs, ToFront(b)
  PROVE  Listed'
<1>1. PICK i \in 1 .. Len(lru) :
        lru[i] = b /\ lru' = <<b>> \o SubSeq(lru, 1, i - 1) \o SubSeq(lru, i + 1, Len(lru))
  BY Zenon DEF ToFront
<1>. DEFINE s == SubSeq(lru, 1, i - 1)
            t == SubSeq(lru, i + 1, Len(lru))
            u == <<b>> \o s
<1>2. Len(lru) \in Nat /\ i \in Nat
  OBVIOUS
<1>3. s \in Seq(Bufs) /\ Len(s) = i - 1 /\ \A j \in 1 .. i - 1 : s[j] = lru[j]
  BY <1>2
<1>4. t \in Seq(Bufs) /\ Len(t) = Len(lru) - i /\ \A j \in 1 .. Len(lru) - i : t[j] = lru[i + j]
  BY <1>2
<1>. HIDE DEF s, t
<1>5. u \in Seq(Bufs) /\ Len(u) = i /\ u[1] = b /\ \A j \in 1 .. i - 1 : u[j + 1] = lru[j]
  BY <1>2, <1>3
<1>6. lru' = u \o t
  BY <1>1 DEF s, t
<1>. HIDE DEF u
<1>7. /\ Len(lru') = Len(lru) /\ \A j \in 1 .. i : lru'[j] = u[j]
      /\ \A j \in 1 .. Len(lru) - i : lru'[i + j] = t[j]
  <2>1. /\ Len(u \o t) = Len(u) + Len(t)
        /\ \A j \in 1 .. Len(u) : (u \o t)[j] = u[j]
        /\ \A j \in 1 .. Len(t) : (u \o t)[Len(u) + j] = t[j]
    BY Zenon, <1>4, <1>5, Joined
  <2>2. i + (Len(lru) - i) = Len(lru)
    BY <1>2
  <2>. QED  BY Zenon, <1>4, <1>5, <1>6, <2>1, <2>2
<1>8. ASSUME NEW c \in Bufs PROVE \E j \in 1 .. Len(lru') : lru'[j] = c
  <2>1. PICK k \in 1 .. Len(lru) : lru[k] = c
    BY Zenon DEF Listed
  <2>2. CASE k < i
    <3>1. k \in 1 .. i - 1 /\ k + 1 \in 1 .. i /\ k + 1 \in 1 .. Len(lru')
      BY <1>2, <1>7, <2>2
    <3>. QED  BY Zenon, <1>5, <1>7, <2>1, <3>1
  <2>3. CASE k = i
    <3>1. 1 \in 1 .. i /\ 1 \in 1 .. Len(lru')
      BY <1>2, <1>7
    <3>. QED  BY Zenon, <1>1, <1>5, <1>7, <2>1, <2>3, <3>1
  <2>4. CASE k > i
    <3>1. k - i \in 1 .. Len(lru) - i /\ i + (k - i) = k /\ k \in 1 .. Len(lru')
      BY <1>2, <1>7, <2>4
    <3>2. lru'[i + (k - i)] = t[k - i] /\ t[k - i] = lru[i + (k - i)]
      BY Zenon, <1>4, <1>7, <3>1
    <3>. QED  BY Zenon, <2>1, <3>1, <3>2
  <2>. QED  BY <1>2, <2>2, <2>3, <2>4
<1>. QED  BY Zenon, <1>8 DEF Listed, Bufs

(* brelse.                                                                 *)
LEMMA RoomBrelse ==
  ASSUME Cards, EnoughBuffers, HolderInv, RoomInv, NEW p \in Procs, NEW b \in Bufs, Brelse(p, b)
  PROVE  RoomInv'
<1>1. /\ hold' = [hold EXCEPT ![p] = @ \ {b}] /\ Wakeup(b) /\ ToFront(b)
      /\ UNCHANGED <<cur, owner, dirty>>
  BY Zenon DEF Brelse
<1>2. \A q \in Procs : hold'[q] \subseteq hold[q]
  BY Zenon, <1>1 DEF HolderInv, ProcTypes
<1>3. \A q \in Procs : pc'[q] = CASE cur[q] = b /\ pc[q] = "bsleep" -> "bget"
                                   [] cur[q] = b /\ pc[q] = "iosleep" -> "iocheck"
                                   [] OTHER -> pc[q]
  BY Zenon, <1>1 DEF Wakeup
<1>4. \A q \in Procs : (pc'[q] \in Looking <=> pc[q] \in Looking)
                       /\ (pc'[q] \in IoLabels <=> pc[q] \in IoLabels)
  BY <1>3 DEF Looking, IoLabels
<1>5. \A q \in Procs, c \in Bufs : InIo(q, c)' <=> InIo(q, c)
  BY Zenon, <1>1, <1>4 DEF InIo, IoLabels
<1>6. \A q \in Procs : Mine(q)' \subseteq Mine(q) /\ Room(q)' = Room(q)
  BY Zenon, <1>1, <1>2, <1>5 DEF Mine, User, Room, Bufs
<1>7. \A q \in Procs : RoomOf(q)'
  BY Zenon, <1>4, <1>6, RoomLess DEF RoomInv
<1>8. Pinned' \subseteq Pinned
  BY Zenon, <1>1, <1>5 DEF Pinned, Bufs
<1>9. Listed'
  BY Zenon, <1>1, FrontListed DEF HolderInv, BufTypes, RoomInv
<1>. QED  BY Zenon, <1>7, <1>8, <1>9, PinnedLess DEF RoomInv

(* begin_trans and commit_trans: the process holds nothing.                *)
LEMMA RoomOwner ==
  ASSUME Cards, EnoughBuffers, HolderInv, RoomInv, NEW p \in Procs, Begin(p) \/ End(p),
         Cardinality({}) = 0
  PROVE  RoomInv'
<1>1. /\ pc[p] = "run" /\ hold[p] = {} /\ UNCHANGED <<hold, cur, pc, lru, dirty>>
      /\ \A q \in Procs : q # p => (owner' = q <=> owner = q)
  BY Zenon DEF Begin, End, flags, CacheAssumption, HolderInv
<1>2. \A q \in Procs : Mine(q)' = Mine(q)
  BY Zenon, <1>1 DEF Mine, User, InIo, Bufs
<1>3. Mine(p) = {}
  BY Zenon, <1>1 DEF Mine, User, InIo
<1>4. RoomOf(p)'
  <2>1. Cardinality(Mine(p)') = 0 /\ pc'[p] \notin Looking
    BY Zenon, <1>1, <1>2, <1>3 DEF Looking
  <2>2. Room(p)' \in Nat
    BY DEF Room, EnoughBuffers
  <2>. QED  BY <2>1, <2>2 DEF RoomOf
<1>5. ASSUME NEW q \in Procs, q # p PROVE RoomOf(q)'
  <2>1. Room(q)' = Room(q)
    BY Zenon, <1>1, <1>5 DEF Room
  <2>. QED  BY Zenon, <1>1, <1>2, <2>1, RoomLess DEF RoomInv
<1>6. Pinned' \subseteq Pinned
  BY Zenon, <1>1 DEF Pinned, InIo, Bufs
<1>7. Listed'
  BY Zenon, <1>1 DEF Listed, RoomInv, Bufs
<1>. QED  BY Zenon, <1>4, <1>5, <1>6, <1>7, PinnedLess DEF RoomInv

(* The other steps of a process.                                           *)
LEMMA RoomSteps ==
  ASSUME Cards, EnoughBuffers, HolderInv, RoomInv, NEW p \in Procs,
         BgetSleep(p) \/ Iderw(p) \/ IoAgain(p) \/ Kill(p) \/ \E b \in Bufs : Modify(p, b)
  PROVE  RoomInv'
<1>1. /\ UNCHANGED <<lru, owner, hold, dirty>>
      /\ \A q \in Procs : q # p => cur'[q] = cur[q] /\ pc'[q] = pc[q]
      /\ \/ pc[p] \in Looking /\ pc'[p] \in Looking
         \/ cur'[p] = cur[p] /\ pc[p] \in IoLabels /\ pc'[p] \in IoLabels
         \/ cur'[p] = cur[p] /\ pc'[p] = pc[p]
  <2>1. CASE BgetSleep(p)
    <3>1. /\ pc[p] = "bget" /\ pc' = [pc EXCEPT ![p] = "bsleep"] /\ UNCHANGED <<lru, owner, hold, dirty>>
          /\ \E b \in Bufs : cur' = [cur EXCEPT ![p] = b]
      BY Zenon, <2>1 DEF BgetSleep, Cached, Goto, flags, client
    <3>. QED  BY Zenon, <3>1 DEF HolderInv, ProcTypes, Looking
  <2>2. CASE Iderw(p) \/ IoAgain(p)
    <3>1. /\ pc[p] \in IoLabels /\ pc' = [pc EXCEPT ![p] = "iosleep"]
          /\ UNCHANGED <<lru, owner, hold, dirty, cur>>
      BY Zenon, <2>2 DEF Iderw, IoAgain, Goto, flags, client, IoLabels
    <3>. QED  BY Zenon, <3>1 DEF HolderInv, ProcTypes, IoLabels
  <2>3. CASE Kill(p)
    <3>1. /\ \/ pc[p] = "bsleep" /\ pc' = [pc EXCEPT ![p] = "bget"]
             \/ pc[p] = "iosleep" /\ pc' = [pc EXCEPT ![p] = "iocheck"]
          /\ UNCHANGED <<lru, owner, hold, dirty, cur>>
      BY <2>3 DEF Kill, Goto, flags, client
    <3>. QED  BY Zenon, <3>1 DEF HolderInv, ProcTypes, IoLabels, Looking
  <2>4. CASE \E b \in Bufs : Modify(p, b)
    BY Zenon, <2>4 DEF Modify, flags, client
  <2>. QED  BY Zenon, <2>1, <2>2, <2>3, <2>4
<1>2. \A q \in Procs, b \in Bufs : InIo(q, b)' <=> InIo(q, b)
  BY Zenon, <1>1 DEF InIo, IoLabels, Looking
<1>3. \A q \in Procs : pc'[q] \in Looking => pc[q] \in Looking
  BY Zenon, <1>1 DEF IoLabels, Looking
<1>. QED  BY Zenon, <1>1, <1>2, <1>3, RoomQuiet

(* The disk and its interrupt.                                             *)
LEMMA RoomDisk ==
  ASSUME Cards, EnoughBuffers, HolderInv, RequestInv, RoomInv,
         DiskDone \/ \E failed \in BOOLEAN : IdeIntr(failed)
  PROVE  RoomInv'
<1>1. CASE DiskDone
  <2>1. UNCHANGED <<lru, owner, hold, dirty, pc, cur>>
    BY Zenon, <1>1 DEF DiskDone, flags, client
  <2>. QED  BY Zenon, <2>1, RoomQuiet DEF InIo
<1>2. ASSUME NEW failed \in BOOLEAN, IdeIntr(failed) PROVE RoomInv'
  <2>1. PICK b \in Bufs : b = Head(queue)
    BY <1>2 DEF IdeIntr, RequestInv, QueueTypes
  <2>2. /\ dirty' = [dirty EXCEPT ![b] = FALSE] /\ Wakeup(b) /\ UNCHANGED <<lru, owner, hold, cur>>
    BY Zenon, <1>2, <2>1 DEF IdeIntr, client
  <2>3. \A q \in Procs : pc'[q] = CASE cur[q] = b /\ pc[q] = "bsleep" -> "bget"
                                     [] cur[q] = b /\ pc[q] = "iosleep" -> "iocheck"
                                     [] OTHER -> pc[q]
    BY Zenon, <2>2 DEF Wakeup
  <2>4. \A q \in Procs : (pc'[q] \in Looking <=> pc[q] \in Looking)
                         /\ (pc'[q] \in IoLabels <=> pc[q] \in IoLabels)
    BY <2>3 DEF Looking, IoLabels
  <2>5. \A q \in Procs, c \in Bufs : InIo(q, c)' <=> InIo(q, c)
    BY Zenon, <2>2, <2>4 DEF InIo, IoLabels
  <2>6. \A c \in Bufs : dirty'[c] => dirty[c]
    BY Zenon, <2>2 DEF HolderInv, BufTypes
  <2>. QED  BY Zenon, <2>2, <2>4, <2>5, <2>6, RoomQuiet
<1>. QED  BY Zenon, <1>1, <1>2

(* Every step keeps the processes within their room.                       *)
LEMMA RoomNext ==
  ASSUME Cards, EnoughBuffers, HolderInv, RequestInv, RoomInv, [Next]_vars, Cardinality({}) = 0
  PROVE  RoomInv'
<1>1. CASE UNCHANGED vars
  <2>1. UNCHANGED <<lru, owner, hold, dirty, pc, cur>>
    BY Zenon, <1>1 DEF vars, flags, client
  <2>. QED  BY Zenon, <2>1, RoomQuiet DEF InIo
<1>2. CASE Next
  BY Zenon, <1>2, RoomBread, RoomBget, RoomWrite, RoomBrelse, RoomOwner, RoomSteps, RoomDisk DEF Next
<1>. QED  BY Zenon, <1>1, <1>2

INSTANCE FiniteSetTheorems

(* Buffers are finitely many.                                              *)
LEMMA BufCards == CacheAssumption => Cards /\ Cardinality({}) = 0
<1>. SUFFICES ASSUME CacheAssumption PROVE Cards /\ Cardinality({}) = 0
  OBVIOUS
<1>1. IsFiniteSet(Bufs)
  BY FS_Interval DEF CacheAssumption, Bufs
<1>2. \A S \in SUBSET Bufs : IsFiniteSet(S) /\ Cardinality(S) \in Nat
  BY Zenon, <1>1, FS_Subset, FS_CardinalityType
<1>3. \A S, T \in SUBSET Bufs : S \subseteq T => Cardinality(S) <= Cardinality(T)
  BY Zenon, <1>2, FS_Subset
<1>4. ASSUME NEW S \in SUBSET Bufs, NEW b \in Bufs PROVE Cardinality(S \union {b}) <= Cardinality(S) + 1
  <2>1. Cardinality(S \union {b}) = IF b \in S THEN Cardinality(S) ELSE Cardinality(S) + 1
    BY Zenon, <1>2, FS_AddElement
  <2>2. Cardinality(S) \in Nat
    BY Zenon, <1>2
  <2>. QED  BY <2>1, <2>2
<1>5. Cardinality({}) = 0
  BY Zenon, FS_EmptySet
<1>. QED  BY Zenon, <1>2, <1>3, <1>4, <1>5 DEF Cards

(* At boot nobody uses a buffer, and all are in the list.                  *)
LEMMA RoomInit == CacheAssumption /\ EnoughBuffers /\ Init => RoomInv
<1>. SUFFICES ASSUME CacheAssumption, EnoughBuffers, Init PROVE RoomInv
  OBVIOUS
<1>1. ASSUME NEW p \in Procs PROVE RoomOf(p)
  <2>1. hold[p] = {} /\ pc[p] = "run"
    BY Zenon DEF Init
  <2>2. Mine(p) = {} /\ pc[p] \notin Looking
    BY Zenon, <2>1 DEF Mine, User, InIo, Looking
  <2>3. Cardinality(Mine(p)) = 0 /\ Room(p) \in Nat
    BY Zenon, <2>2, BufCards DEF Room, EnoughBuffers
  <2>. QED  BY <2>2, <2>3 DEF RoomOf
<1>2. Cardinality(Pinned) <= MaxDirty
  <2>1. Pinned = {}
    BY Zenon DEF Pinned, Init
  <2>2. Cardinality(Pinned) = 0
    BY Zenon, <2>1, BufCards
  <2>. QED  BY <2>2 DEF EnoughBuffers
<1>3. Listed
  <2>. SUFFICES ASSUME NEW b \in Bufs PROVE \E i \in 1 .. Len(lru) : lru[i] = b
    BY DEF Listed
  <2>1. NBUF \in Nat /\ lru = [i \in 1 .. NBUF |-> NBUF + 1 - i] /\ b \in 1 .. NBUF
    BY DEF CacheAssumption, Init, Bufs
  <2>2. Len(lru) = NBUF /\ lru[NBUF + 1 - b] = b /\ NBUF + 1 - b \in 1 .. NBUF
    BY <2>1
  <2>. QED  BY Zenon, <2>2
<1>. QED  BY Zenon, <1>1, <1>2, <1>3 DEF RoomInv

(* Buffers used by processes that use one each are no more than these.     *)
LEMMA UsersCounted ==
  ASSUME CacheAssumption, HolderInv, NEW T \in SUBSET Procs, NEW B \in SUBSET Bufs,
         \A b \in B : \E q \in T : User(q, b),
         \A q \in T : Cardinality(Mine(q)) <= 1
  PROVE  Cardinality(B) <= Cardinality(T)
<1>. DEFINE f == [b \in B |-> CHOOSE q \in T : User(q, b)]
<1>1. f \in [B -> T] /\ \A b \in B : User(f[b], b)
  <2>1. ASSUME NEW b \in B PROVE f[b] \in T /\ User(f[b], b)
    BY Zenon
  <2>. QED  BY Zenon, <2>1
<1>. HIDE DEF f
<1>2. ASSUME NEW b \in B, NEW c \in B, f[b] = f[c], b # c PROVE FALSE
  <2>1. PICK q \in T : q = f[b]
    BY Zenon, <1>1
  <2>2. b \in Mine(q) /\ c \in Mine(q) /\ Mine(q) \in SUBSET Bufs
    BY Zenon, <1>1, <1>2, <2>1 DEF Mine
  <2>3. IsFiniteSet(Bufs)
    BY FS_Interval DEF CacheAssumption, Bufs
  <2>4. IsFiniteSet(Mine(q)) /\ Cardinality(Mine(q)) \in Nat
    BY Zenon, <2>2, <2>3, FS_Subset, FS_CardinalityType
  <2>5. Cardinality(Mine(q)) # 0
    BY Zenon, <2>2, <2>4, FS_EmptySet
  <2>6. \A S : IsFiniteSet(S) => (Cardinality(S) = 1 <=> \E x: S = {x})
    BY Zenon, FS_Singleton
  <2>7. Cardinality(Mine(q)) # 1
    BY <1>2, <2>2, <2>4, <2>6
  <2>. QED  BY <2>4, <2>5, <2>7
<1>3. f \in Injection(B, T)
  BY Zenon, <1>1, <1>2 DEF Injection, IsInjective
<1>4. IsFiniteSet(T)
  BY Zenon, FS_Subset DEF CacheAssumption
<1>. QED  BY Zenon, <1>3, <1>4, FS_Injection

(* When bget finds nothing to recycle, every buffer is in use or pinned.   *)
LEMMA AllTaken ==
  ASSUME HolderInv, RoomInv, Recyclable = {}, NEW b \in Bufs
  PROVE  busy[b] \/ b \in Pinned
<1>1. PICK i \in 1 .. Len(lru) : lru[i] = b
  BY Zenon DEF RoomInv, Listed
<1>2. busy[b] \/ dirty[b]
  BY Zenon, <1>1 DEF Recyclable
<1>. QED  BY Zenon, <1>2 DEF Pinned, HolderInv, Busy, User

(* Then more buffers would be taken than processes and pins account for.   *)
LEMMA RoomSuffices == HolderInv /\ EnoughBuffers /\ RoomInv => BuffersSuffice
<1>. SUFFICES ASSUME HolderInv, EnoughBuffers, RoomInv, NEW p \in Procs, pc[p] = "bget", Recyclable = {}
              PROVE  FALSE
  BY Zenon DEF BuffersSuffice
<1>. DEFINE M == {b \in Bufs : owner \in Procs /\ b \in Mine(owner)}
            T == (Procs \ {p}) \ {owner}
            B == {b \in Bufs : busy[b] /\ b \notin M}
<1>1. CacheAssumption /\ NBUF \in Nat /\ IsFiniteSet(Procs) /\ IsFiniteSet(Bufs) /\ Cardinality(Bufs) = NBUF
  <2>1. NBUF \in Nat
    BY DEF HolderInv, CacheAssumption
  <2>. QED  BY <2>1, FS_Interval DEF HolderInv, CacheAssumption, Bufs
<1>2. \A S \in SUBSET Bufs : IsFiniteSet(S) /\ Cardinality(S) \in Nat /\ (Cardinality(S) = 0 => S = {})
  BY Zenon, <1>1, FS_Subset, FS_CardinalityType, FS_EmptySet
<1>3. \A q \in Procs : Mine(q) \in SUBSET Bufs
  BY Zenon DEF Mine
<1>4. \A q \in Procs : q # owner => Cardinality(Mine(q)) <= 1
  BY Zenon DEF RoomInv, RoomOf, Room
<1>5. owner # p => Mine(p) = {}
  <2>1. owner # p => Cardinality(Mine(p)) < 1
    BY Zenon DEF RoomInv, RoomOf, Room, Looking
  <2>2. Cardinality(Mine(p)) \in Nat /\ (Cardinality(Mine(p)) = 0 => Mine(p) = {})
    BY Zenon, <1>2, <1>3
  <2>3. owner # p => Cardinality(Mine(p)) = 0
    BY <2>1, <2>2
  <2>. QED  BY Zenon, <2>2, <2>3
<1>6. Cardinality(B) <= Cardinality(T)
  <2>1. ASSUME NEW b \in B PROVE \E q \in T : User(q, b)
    <3>1. PICK q \in Procs : User(q, b)
      BY Zenon DEF HolderInv, Busy
    <3>2. q # owner
      BY Zenon, <3>1 DEF Mine
    <3>3. q # p
      BY Zenon, <1>5, <3>1, <3>2 DEF Mine
    <3>. QED  BY Zenon, <3>1, <3>2, <3>3
  <2>2. \A q \in T : Cardinality(Mine(q)) <= 1
    BY Zenon, <1>4
  <2>3. T \in SUBSET Procs /\ B \in SUBSET Bufs
    BY Zenon
  <2>. HIDE DEF T, B
  <2>. QED  BY Zenon, <1>1, <2>1, <2>2, <2>3, UsersCounted
<1>7. /\ Cardinality(Procs) \in Nat /\ IsFiniteSet(Procs \ {p})
      /\ Cardinality(Procs \ {p}) = Cardinality(Procs) - 1
      /\ Cardinality(T) = IF owner \in Procs \ {p} THEN Cardinality(Procs \ {p}) - 1
                          ELSE Cardinality(Procs \ {p})
  BY Zenon, <1>1, FS_CardinalityType, FS_RemoveElement
<1>8. Cardinality(M) + Cardinality(T) <= Cardinality(Procs) + MaxHold - 2
  <2>1. CASE owner = p
    <3>1. M = Mine(p)
      BY Zenon, <1>3, <2>1
    <3>2. Cardinality(M) < MaxHold /\ Cardinality(M) \in Nat
      BY Zenon, <1>2, <1>3, <2>1, <3>1 DEF RoomInv, RoomOf, Room, Looking
    <3>3. Cardinality(T) = Cardinality(Procs) - 1
      BY Zenon, <1>7, <2>1
    <3>. HIDE DEF M, T
    <3>. QED  BY <1>7, <3>2, <3>3 DEF EnoughBuffers
  <2>2. CASE owner \in Procs /\ owner # p
    <3>1. M = Mine(owner)
      BY Zenon, <1>3, <2>2
    <3>2. Cardinality(M) <= MaxHold /\ Cardinality(M) \in Nat
      BY Zenon, <1>2, <1>3, <2>2, <3>1 DEF RoomInv, RoomOf, Room
    <3>3. owner \in Procs \ {p}
      BY Zenon, <2>2
    <3>. HIDE DEF M, T
    <3>. QED  BY <1>7, <3>2, <3>3 DEF EnoughBuffers
  <2>3. CASE owner \notin Procs
    <3>1. M = {}
      BY Zenon, <2>3
    <3>2. Cardinality(M) = 0
      BY Zenon, <3>1, FS_EmptySet
    <3>3. Cardinality(T) = Cardinality(Procs) - 1
      BY Zenon, <1>7, <2>3
    <3>. HIDE DEF M, T
    <3>. QED  BY <1>7, <3>2, <3>3 DEF EnoughBuffers
  <2>. QED  BY Zenon, <2>1, <2>2, <2>3
<1>9. M \in SUBSET Bufs /\ B \in SUBSET Bufs /\ Pinned \in SUBSET Bufs /\ B \union M \in SUBSET Bufs
  BY Zenon DEF Pinned
<1>10. Bufs = (B \union M) \union Pinned
  BY Zenon, <1>9, AllTaken
<1>. HIDE DEF M, T, B
<1>11. NBUF <= Cardinality(B) + Cardinality(M) + Cardinality(Pinned)
  <2>1. Cardinality(B \union M) = Cardinality(B) + Cardinality(M) - Cardinality(B \cap M)
    BY Zenon, <1>2, <1>9, FS_Union
  <2>2. Cardinality((B \union M) \union Pinned)
          = Cardinality(B \union M) + Cardinality(Pinned) - Cardinality((B \union M) \cap Pinned)
    BY Zenon, <1>2, <1>9, FS_Union
  <2>3. B \cap M \in SUBSET Bufs /\ (B \union M) \cap Pinned \in SUBSET Bufs
    BY Zenon, <1>9
  <2>4. /\ Cardinality(B \cap M) \in Nat /\ Cardinality((B \union M) \cap Pinned) \in Nat
        /\ Cardinality(B) \in Nat /\ Cardinality(M) \in Nat /\ Cardinality(Pinned) \in Nat
        /\ Cardinality(B \union M) \in Nat
    BY Zenon, <1>2, <1>9, <2>3
  <2>5. NBUF = Cardinality(B \union M) + Cardinality(Pinned) - Cardinality((B \union M) \cap Pinned)
    BY Zenon, <1>1, <1>10, <2>2
  <2>. QED  BY <2>1, <2>4, <2>5
<1>12. /\ Cardinality(B) \in Nat /\ Cardinality(M) \in Nat /\ Cardinality(Pinned) \in Nat
       /\ Cardinality(Pinned) <= MaxDirty /\ Cardinality(T) \in Int
  BY <1>2, <1>7, <1>9 DEF RoomInv
<1>. QED  BY <1>1, <1>6, <1>7, <1>8, <1>11, <1>12 DEF EnoughBuffers

(* With EnoughBuffers, bget never comes to its panic "no buffers": a       *)
(* process that looks for a buffer holds less than it may, and what the    *)
(* others hold and a transaction pins leaves one.                          *)
THEOREM SufficeCorrect == CacheAssumption /\ EnoughBuffers /\ Spec => []BuffersSuffice
<1>. SUFFICES ASSUME CacheAssumption, EnoughBuffers PROVE Spec => []BuffersSuffice
  OBVIOUS
<1>1. Init => RoomInv
  BY Zenon, RoomInit
<1>2. HolderInv /\ RequestInv /\ RoomInv /\ [Next]_vars => RoomInv'
  BY Zenon, RoomNext, BufCards
<1>3. HolderInv /\ RoomInv => BuffersSuffice
  BY Zenon, RoomSuffices
<1>4. Spec => []HolderInv /\ []RequestInv
  BY HolderInvariant, RequestInvariant, PTL
<1>. QED  BY <1>1, <1>2, <1>3, <1>4, PTL DEF Spec

==============================================================================
