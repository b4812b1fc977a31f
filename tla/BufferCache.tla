---------------------------- MODULE BufferCache -----------------------------
(***************************************************************************)
(* The buffer cache (bio.c) over the disk driver (ide.c) and the disk.  A  *)
(* section under bcache.lock or idelock is one step; sleep gives the lock  *)
(* up and waits in one step (see BinarySemaphore).  Its users keep to the  *)
(* discipline of log.c: one process at a time is in a transaction, only it *)
(* changes a buffer, and it calls log_write or bwrite before brelse.       *)
(*                                                                         *)
(* What a copy of a sector holds is abstracted to whether it is the last   *)
(* contents written ("fresh"), earlier ones ("stale") or another sector's  *)
(* ("junk").                                                               *)
(***************************************************************************)
EXTENDS Integers, Sequences, FiniteSets

CONSTANTS Procs, Sectors,
          NBUF,        \* the buffers of the cache
          None,        \* no sector, buffer, process or command
          MaxDirty,    \* blocks that one transaction logs (LOGSIZE at most)
          MaxHold      \* buffers that the process in a transaction holds

(* bcache.buf.                                                             *)
Bufs == 1 .. NBUF

(* NBUF and NPROC are finite, and 0 is no sector, buffer or process.       *)
CacheAssumption ==
  NBUF \in Nat /\ IsFiniteSet(Procs) /\ None \notin Procs \union Bufs \union Sectors

(* Enough buffers: what one transaction pins, and one for each process     *)
(* that reads, MaxHold for the one in it.                                  *)
EnoughBuffers ==
  /\ MaxDirty \in Nat /\ MaxHold \in Nat \ {0}
  /\ NBUF >= MaxDirty + Cardinality(Procs) + MaxHold - 1

VARIABLES sector, busy, valid, dirty, data,   \* struct buf
          lru,               \* the list, most recently used first
          queue,             \* idequeue
          disk, active, irq, \* the disk: contents, command, interrupt
          pc, want, cur,     \* each process: place, sector and buffer of a call
          hold,              \* buffers that bread has returned to it
          owner,             \* the process in a transaction
          changed            \* history: buffers changed and not yet logged

flags == <<sector, busy, valid, dirty>>
device == <<queue, disk, active, irq>>
client == <<hold, owner>>
vars == <<flags, data, lru, device, pc, want, cur, client, changed>>

(* binit, which puts each buffer in front of the earlier ones, and         *)
(* ideinit; the disk holds a file system.                                  *)
Init ==
  /\ sector = [b \in Bufs |-> None] /\ data = [b \in Bufs |-> "junk"]
  /\ busy = [b \in Bufs |-> FALSE] /\ valid = busy /\ dirty = busy
  /\ lru = [i \in Bufs |-> NBUF + 1 - i] /\ queue = <<>>
  /\ disk = [s \in Sectors |-> "fresh"] /\ active = None /\ irq = FALSE
  /\ pc = [p \in Procs |-> "run"] /\ want = [p \in Procs |-> None] /\ cur = want
  /\ hold = [p \in Procs |-> {}] /\ owner = None
  /\ changed = {}

Goto(p, label) == pc' = [pc EXCEPT ![p] = label]

(* wakeup(b): b is the channel of bget and of iderw.                       *)
Wakeup(b) ==
  pc' = [p \in Procs |->
           CASE cur[p] = b /\ pc[p] = "bsleep" -> "bget"
             [] cur[p] = b /\ pc[p] = "iosleep" -> "iocheck"
             [] OTHER -> pc[p]]

-----------------------------------------------------------------------------
(* bread: a process holds one buffer, in a transaction more (log_write).   *)
Bread(p, s) ==
  /\ pc[p] = "run" /\ Cardinality(hold[p]) < (IF owner = p THEN MaxHold ELSE 1)
  /\ \A b \in hold[p] : sector[b] # s
  /\ want' = [want EXCEPT ![p] = s] /\ Goto(p, "bget")
  /\ UNCHANGED <<flags, data, lru, device, cur, client, changed>>

Cached(s) == {b \in Bufs : sector[b] = s}

(* The rest of bread: a buffer that is not valid has to be read first.     *)
Got(p, b) ==
  /\ hold' = IF valid[b] THEN [hold EXCEPT ![p] = @ \union {b}] ELSE hold
  /\ cur' = [cur EXCEPT ![p] = IF valid[b] THEN None ELSE b]
  /\ want' = [want EXCEPT ![p] = None]
  /\ Goto(p, IF valid[b] THEN "run" ELSE "iderw")

(* bget has found the sector.                                              *)
(* Mutant: B_BUSY is not looked at.                                        *)
BgetHitBusy(p) ==
  /\ pc[p] = "bget"
  /\ \E b \in Cached(want[p]) :
       /\ busy' = [busy EXCEPT ![b] = TRUE] /\ Got(p, b)
  /\ UNCHANGED <<sector, valid, dirty, data, lru, device, owner, changed>>
BgetHit(p) ==
  /\ pc[p] = "bget"
  /\ \E b \in Cached(want[p]) :
       /\ ~busy[b] /\ busy' = [busy EXCEPT ![b] = TRUE] /\ Got(p, b)
  /\ UNCHANGED <<sector, valid, dirty, data, lru, device, owner, changed>>

BgetSleep(p) ==
  /\ pc[p] = "bget"
  /\ \E b \in Cached(want[p]) : busy[b] /\ cur' = [cur EXCEPT ![p] = b]
  /\ Goto(p, "bsleep")
  /\ UNCHANGED <<flags, data, lru, device, want, client, changed>>

(* The buffers that may be recycled.  Mutant: dirty ones, too.             *)
RecyclableDirty == {i \in 1 .. Len(lru) : ~busy[lru[i]]}
Recyclable == {i \in 1 .. Len(lru) : ~busy[lru[i]] /\ ~dirty[lru[i]]}

(* bget takes the least recently used of them.                             *)
BgetRecycle(p) ==
  /\ pc[p] = "bget" /\ Cached(want[p]) = {}
  /\ \E i \in Recyclable :
       /\ \A j \in Recyclable : j <= i
       /\ sector' = [sector EXCEPT ![lru[i]] = want[p]]
       /\ busy' = [busy EXCEPT ![lru[i]] = TRUE]
       /\ valid' = [valid EXCEPT ![lru[i]] = FALSE]
       /\ dirty' = [dirty EXCEPT ![lru[i]] = FALSE]
       /\ data' = [data EXCEPT ![lru[i]] = "junk"] /\ cur' = [cur EXCEPT ![p] = lru[i]]
  /\ Goto(p, "iderw")
  /\ want' = [want EXCEPT ![p] = None]
  /\ UNCHANGED <<lru, device, client, changed>>

-----------------------------------------------------------------------------
(* idestart: the command for b, with the data of a write.                  *)
Command(b) == [write |-> dirty[b], sector |-> sector[b], data |-> data[b]]

(* iderw appends b, starts an idle disk and sleeps.                        *)
Iderw(p) ==
  /\ pc[p] = "iderw" /\ queue' = Append(queue, cur[p])
  /\ active' = IF queue = <<>> THEN Command(cur[p]) ELSE active
  /\ Goto(p, "iosleep")
  /\ UNCHANGED <<flags, data, lru, disk, irq, want, cur, client, changed>>

(* The loop of iderw after a wakeup.                                       *)
IoDone(p) ==
  /\ pc[p] = "iocheck" /\ valid[cur[p]] /\ ~dirty[cur[p]]
  /\ hold' = [hold EXCEPT ![p] = @ \union {cur[p]}]
  /\ cur' = [cur EXCEPT ![p] = None] /\ Goto(p, "run")
  /\ UNCHANGED <<flags, data, lru, device, want, owner, changed>>

IoAgain(p) ==
  /\ pc[p] = "iocheck" /\ ~(valid[cur[p]] /\ ~dirty[cur[p]]) /\ Goto(p, "iosleep")
  /\ UNCHANGED <<flags, data, lru, device, want, cur, client, changed>>

(* The disk has carried out its command.                                   *)
DiskDone ==
  /\ active # None /\ ~irq /\ irq' = TRUE
  /\ disk' = IF active.write THEN [disk EXCEPT ![active.sector] = active.data] ELSE disk
  /\ UNCHANGED <<flags, data, lru, queue, active, pc, want, cur, client, changed>>

(* ideintr.  After a failed read (idewait(1) < 0) the buffer is B_VALID    *)
(* with the data it had.                                                   *)
IdeIntr(failed) ==
  /\ irq /\ queue # <<>>
  /\ LET b == Head(queue) IN
     /\ data' = IF dirty[b] \/ failed THEN data ELSE [data EXCEPT ![b] = disk[active.sector]]
     /\ valid' = [valid EXCEPT ![b] = TRUE] /\ dirty' = [dirty EXCEPT ![b] = FALSE]
     /\ Wakeup(b)
  /\ queue' = Tail(queue) /\ irq' = FALSE
  /\ active' = IF Tail(queue) = <<>> THEN None ELSE Command(Head(Tail(queue)))
  /\ UNCHANGED <<sector, busy, lru, disk, want, cur, client, changed>>

(* kill() makes a sleeping process look again.                             *)
Kill(p) ==
  /\ pc[p] \in {"bsleep", "iosleep"} /\ Goto(p, IF pc[p] = "bsleep" THEN "bget" ELSE "iocheck")
  /\ UNCHANGED <<flags, data, lru, device, want, cur, client, changed>>

-----------------------------------------------------------------------------
(* begin_trans and the end of commit_trans, which has written every block. *)
Begin(p) ==
  /\ owner = None /\ pc[p] = "run" /\ hold[p] = {} /\ owner' = p
  /\ UNCHANGED <<flags, data, lru, device, pc, want, cur, hold, changed>>

End(p) ==
  /\ owner = p /\ pc[p] = "run" /\ hold[p] = {} /\ \A b \in Bufs : ~dirty[b]
  /\ owner' = None
  /\ UNCHANGED <<flags, data, lru, device, pc, want, cur, hold, changed>>

(* The process in the transaction fills in a block.                        *)
Modify(p, b) ==
  /\ owner = p /\ pc[p] = "run" /\ b \in hold[p]
  /\ data' = [data EXCEPT ![b] = "fresh"] /\ disk' = [disk EXCEPT ![sector[b]] = "stale"]
  /\ changed' = changed \union {b}
  /\ UNCHANGED <<flags, lru, queue, active, irq, pc, want, cur, client>>

(* The end of log_write pins the buffer.                                   *)
(* Mutant: the size of the transaction is not bounded.                     *)
LogWriteUnbounded(p, b) ==
  /\ owner = p /\ pc[p] = "run" /\ b \in hold[p] /\ b \in changed
  /\ dirty' = [dirty EXCEPT ![b] = TRUE] /\ changed' = changed \ {b}
  /\ UNCHANGED <<sector, busy, valid, data, lru, device, pc, want, cur, client>>
LogWrite(p, b) ==
  /\ owner = p /\ pc[p] = "run" /\ b \in hold[p] /\ b \in changed
  /\ Cardinality({c \in Bufs : dirty[c]} \union {b}) <= MaxDirty
  /\ dirty' = [dirty EXCEPT ![b] = TRUE] /\ changed' = changed \ {b}
  /\ UNCHANGED <<sector, busy, valid, data, lru, device, pc, want, cur, client>>

Bwrite(p, b) ==
  /\ owner = p /\ pc[p] = "run" /\ b \in hold[p] /\ (b \in changed \/ dirty[b])
  /\ dirty' = [dirty EXCEPT ![b] = TRUE] /\ changed' = changed \ {b}
  /\ cur' = [cur EXCEPT ![p] = b] /\ Goto(p, "iderw")
  /\ UNCHANGED <<sector, busy, valid, data, lru, device, want, client>>

ToFront(b) ==
  \E i \in 1 .. Len(lru) :
    lru[i] = b /\ lru' = <<b>> \o SubSeq(lru, 1, i - 1) \o SubSeq(lru, i + 1, Len(lru))

(* brelse: b becomes the most recently used one.                           *)
(* Mutant: nobody is woken.                                                *)
BrelseSilent(p, b) ==
  /\ pc[p] = "run" /\ b \in hold[p] \ changed
  /\ ToFront(b)
  /\ busy' = [busy EXCEPT ![b] = FALSE] /\ hold' = [hold EXCEPT ![p] = @ \ {b}]
  /\ UNCHANGED <<sector, valid, dirty, data, device, pc, want, cur, owner, changed>>
Brelse(p, b) ==
  /\ pc[p] = "run" /\ b \in hold[p] \ changed
  /\ ToFront(b)
  /\ busy' = [busy EXCEPT ![b] = FALSE] /\ hold' = [hold EXCEPT ![p] = @ \ {b}]
  /\ Wakeup(b)
  /\ UNCHANGED <<sector, valid, dirty, data, device, want, cur, owner, changed>>

Next ==
  \/ \E p \in Procs :
       \/ \E s \in Sectors : Bread(p, s)
       \/ BgetHit(p) \/ BgetSleep(p) \/ BgetRecycle(p)
       \/ Iderw(p) \/ IoDone(p) \/ IoAgain(p) \/ Kill(p) \/ Begin(p) \/ End(p)
       \/ \E b \in Bufs : Modify(p, b) \/ LogWrite(p, b) \/ Bwrite(p, b) \/ Brelse(p, b)
  \/ DiskDone \/ \E failed \in BOOLEAN : IdeIntr(failed)

Spec == Init /\ [][Next]_vars

-----------------------------------------------------------------------------
(* The last contents of a sector are never lost: a valid buffer does not   *)
(* hold earlier ones, and those of the disk are earlier ones only while a  *)
(* buffer that bget cannot recycle has the new ones.                       *)
CacheCoherent ==
  /\ \A b \in Bufs : valid[b] => data[b] # "stale"
  /\ \A s \in Sectors : disk[s] = "stale" =>
       \E b \in Bufs : sector[b] = s /\ valid[b] /\ (dirty[b] \/ b \in changed)

InIo(p, b) == cur[p] = b /\ pc[p] \in {"iderw", "iosleep", "iocheck"}

(* "Only one process at a time can use a buffer", and a sector has one     *)
(* buffer, however many processes slept for it or for the buffer it was    *)
(* in: B_BUSY is set exactly while one process uses the buffer.            *)
OneHolder ==
  /\ \A b, c \in Bufs : sector[b] = sector[c] /\ sector[b] # None => b = c
  /\ \A b \in Bufs :
       LET users == {p \in Procs : b \in hold[p] \/ InIo(p, b)}
       IN IF busy[b] THEN \E p \in Procs : users = {p} ELSE users = {}

(* Nobody sleeps for nothing: a buffer slept for in bget is in use, one    *)
(* slept for in iderw is in the queue, and the disk works on the first of  *)
(* the queue, with the command that its flags call for.                    *)
SleepersServed ==
  /\ \A p \in Procs :
       /\ pc[p] = "bsleep" => busy[cur[p]]
       /\ pc[p] = "iosleep" => \E i \in 1 .. Len(queue) : queue[i] = cur[p]
  /\ active = IF queue = <<>> THEN None ELSE Command(Head(queue))

(* With EnoughBuffers, bget never comes to its panic "no buffers".         *)
BuffersSuffice ==
  \A p \in Procs : pc[p] = "bget" /\ Cached(want[p]) = {} => Recyclable # {}

=============================================================================
