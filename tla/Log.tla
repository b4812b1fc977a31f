-------------------------------- MODULE Log ----------------------------------
(***************************************************************************)
(* The redo log of the file system (log.c), with a crash between any two   *)
(* writes of a block and the recovery that initlog() runs at boot.  A      *)
(* block is written as a whole, and bwrite() returns when the disk has it. *)
(* "cache" is what bread() returns for the home blocks: a dirty buffer is  *)
(* not evicted (bio.c).                                                    *)
(***************************************************************************)
EXTENDS Naturals, Sequences

CONSTANTS Procs,     \* processes in system calls that write the file system
          Sectors,   \* the home blocks
          Data,      \* what a block may contain
          LOGSIZE    \* the blocks that fit in the log

ASSUME LogAssumption == LOGSIZE \in Nat \ {0}

VARIABLES home, logblk, head,    \* on disk: home blocks, log blocks, header
          cache, lh, busy,       \* in memory: buffers, log.lh, log.busy
          tail,                  \* the blocks install_trans has installed
          phase,                 \* what the owner of the log, or boot, is at
          pc                     \* each process: out, begin, asleep, in

disk == <<home, logblk, head>>
vars == <<disk, cache, lh, busy, tail, phase, pc>>

(* A file system at rest: the header says that no block is logged.         *)
Init ==
  /\ home \in [Sectors -> Data] /\ logblk \in [1 .. LOGSIZE -> Data]
  /\ head = <<>> /\ cache = home /\ lh = <<>> /\ busy = FALSE
  /\ tail = 0 /\ phase = "boot" /\ pc = [p \in Procs |-> "out"]

(* Boot time: no process has run since the crash.                          *)
Booting == phase = "boot" \/ (phase = "install" /\ ~busy)

-----------------------------------------------------------------------------
(* initlog at boot, before any process runs: recover_from_log reads the    *)
(* header and goes on like a commit.                                       *)
ReadHead ==
  /\ phase = "boot" /\ lh' = head /\ tail' = 0 /\ phase' = "install"
  /\ UNCHANGED <<disk, cache, busy, pc>>

(* One turn of the loop of install_trans.                                  *)
(* Mutant: the header is erased before the blocks are home.                *)
InstallEarly ==
  /\ phase = "install" /\ tail < Len(lh)
  /\ home' = [home EXCEPT ![lh[tail+1]] = logblk[tail+1]]
  /\ cache' = [cache EXCEPT ![lh[tail+1]] = logblk[tail+1]]
  /\ tail' = tail + 1 /\ head' = <<>>
  /\ UNCHANGED <<logblk, lh, busy, phase, pc>>
Install ==
  /\ phase = "install" /\ tail < Len(lh)
  /\ home' = [home EXCEPT ![lh[tail+1]] = logblk[tail+1]]
  /\ cache' = [cache EXCEPT ![lh[tail+1]] = logblk[tail+1]]
  /\ tail' = tail + 1
  /\ UNCHANGED <<logblk, head, lh, busy, phase, pc>>

(* log.lh.n = 0 and the second write_head, of recovery and of commit.      *)
Erase ==
  /\ phase = "install" /\ tail = Len(lh)
  /\ lh' = <<>> /\ head' = <<>> /\ tail' = 0 /\ phase' = "run"
  /\ UNCHANGED <<home, logblk, cache, busy, pc>>

-----------------------------------------------------------------------------
(* begin_trans: one pass of its loop, at the call and after each wakeup.   *)
CallBegin(p) ==
  /\ pc[p] = "out" /\ ~Booting
  /\ pc' = [pc EXCEPT ![p] = "begin"]
  /\ UNCHANGED <<disk, cache, lh, busy, tail, phase>>

BeginSleep(p) ==
  /\ pc[p] = "begin" /\ busy
  /\ pc' = [pc EXCEPT ![p] = "asleep"]
  /\ UNCHANGED <<disk, cache, lh, busy, tail, phase>>

BeginTrans(p) ==
  /\ pc[p] = "begin" /\ ~busy
  /\ busy' = TRUE /\ pc' = [pc EXCEPT ![p] = "in"]
  /\ UNCHANGED <<disk, cache, lh, tail, phase>>

(* Where sector s is, or is to be, in the header.                          *)
Slot(s, i) ==
  IF \E j \in 1 .. Len(lh) : lh[j] = s THEN i <= Len(lh) /\ lh[i] = s ELSE i = Len(lh) + 1

(* log_write; with a full header it panics.                                *)
LogWrite(p, s, d) ==
  /\ pc[p] = "in" /\ phase = "run" /\ Len(lh) < LOGSIZE
  /\ cache' = [cache EXCEPT ![s] = d]
  /\ \E i \in 1 .. Len(lh) + 1 :
       /\ Slot(s, i)
       /\ logblk' = [logblk EXCEPT ![i] = d]
       /\ lh' = IF i = Len(lh) + 1 THEN Append(lh, s) ELSE lh
  /\ UNCHANGED <<home, head, busy, tail, phase, pc>>

(* commit_trans: the first write_head, then install_trans as above.        *)
WriteHead(p) ==
  /\ pc[p] = "in" /\ phase = "run" /\ lh # <<>>
  /\ head' = lh /\ tail' = 0 /\ phase' = "install"
  /\ UNCHANGED <<home, logblk, cache, lh, busy, pc>>

(* Its end: also right away when nothing was logged.                       *)
(* Mutant: no wakeup.                                                      *)
EndSilent(p) ==
  /\ pc[p] = "in" /\ phase = "run" /\ lh = <<>>
  /\ busy' = FALSE /\ pc' = [pc EXCEPT ![p] = "out"]
  /\ UNCHANGED <<disk, cache, lh, tail, phase>>
EndTrans(p) ==
  /\ pc[p] = "in" /\ phase = "run" /\ lh = <<>>
  /\ busy' = FALSE
  /\ pc' = [q \in Procs |-> IF q = p THEN "out" ELSE IF pc[q] = "asleep" THEN "begin" ELSE pc[q]]
  /\ UNCHANGED <<disk, cache, lh, tail, phase>>

-----------------------------------------------------------------------------
(* The machine stops: memory is lost, the disk stays.                      *)
Crash ==
  /\ cache' = home /\ lh' = <<>> /\ busy' = FALSE /\ tail' = 0
  /\ phase' = "boot" /\ pc' = [p \in Procs |-> "out"]
  /\ UNCHANGED disk

Next ==
  \/ ReadHead \/ Install \/ Erase \/ Crash
  \/ \E p \in Procs : CallBegin(p) \/ BeginSleep(p) \/ BeginTrans(p) \/ WriteHead(p) \/ EndTrans(p)
  \/ \E p \in Procs, s \in Sectors, d \in Data : LogWrite(p, s, d)

Spec == Init /\ [][Next]_vars

-----------------------------------------------------------------------------
(* "begin_trans() ensures that only one system call can be in a            *)
(* transaction; others must wait": no two processes are in one, and nobody *)
(* sleeps when there is none to wake them.                                 *)
OneTransaction ==
  /\ \A p, q \in Procs : pc[p] = "in" /\ pc[q] = "in" => p = q
  /\ \A p \in Procs : pc[p] = "asleep" => \E q \in Procs : pc[q] = "in"

(* What recovery makes of the disk as it is.                               *)
Recovered ==
  [s \in Sectors |->
     IF \E i \in 1 .. Len(head) : head[i] = s
     THEN logblk[CHOOSE i \in 1 .. Len(head) : head[i] = s]
     ELSE home[s]]

Disk == INSTANCE AtomicDisk WITH
  stable <- Recovered,
  cached <- IF Booting THEN Recovered ELSE cache,
  intrans <- busy

(* The log implements the atomic disk: whenever the machine stops, in      *)
(* log_write, commit_trans or recovery itself, the disk holds all of the   *)
(* last transaction that wrote its header and nothing of a later one; and  *)
(* commit_trans returns only when the blocks are safe.                     *)
ImplementsDisk == Disk!Spec

==============================================================================
