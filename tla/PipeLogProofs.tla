---------------------------- MODULE PipeLogProofs ----------------------------
(***************************************************************************)
(* Proofs about the log, for any number of processes and blocks and any    *)
(* LOGSIZE: OneTransaction, and that the log implements AtomicDisk.        *)
(*                                                                         *)
(* And proofs about the pipe, for any number of processes, any PIPESIZE    *)
(* and any width of the counters that PIPESIZE divides: struct pipe is     *)
(* freed when its last file is closed and not before, the ring is the      *)
(* queue of the bytes written and not yet read, and nobody sleeps for      *)
(* nothing.                                                                *)
(***************************************************************************)
EXTENDS Log, Pipe, TLAPS

-----------------------------------------------------------------------------
(* The log.                                                                *)

(* The log is busy exactly while one process is in a transaction, somebody *)
(* sleeps only while it is, and no process runs at boot.                   *)
TransInv ==
  /\ pc \in [Procs -> {"out", "begin", "asleep", "in"}]
  /\ busy \in BOOLEAN /\ phase \in {"boot", "install", "run"}
  /\ \A p, q \in Procs : pc[p] = "in" /\ pc[q] = "in" => p = q
  /\ busy <=> \E p \in Procs : pc[p] = "in"
  /\ \A p \in Procs : pc[p] = "asleep" => busy
  /\ phase = "boot" => ~busy
  /\ Booting => \A p \in Procs : pc[p] = "out"

(* The machine starts at boot.                                             *)
LEMMA TransInit == Init => TransInv
  BY Zenon DEF Init, TransInv, Booting

(* Every step keeps the invariant.                                         *)
LEMMA TransNext == TransInv /\ [Next]_vars => TransInv'
<1>. SUFFICES ASSUME TransInv, [Next]_vars PROVE TransInv'
  OBVIOUS
<1>. USE DEF TransInv, Booting
<1>1. CASE ReadHead \/ Install \/ Erase
  BY <1>1 DEF ReadHead, Install, Erase
<1>2. CASE Crash
  BY Zenon, <1>2 DEF Crash
<1>3. ASSUME NEW p \in Procs, CallBegin(p) \/ BeginSleep(p) \/ WriteHead(p) PROVE TransInv'
  BY <1>3 DEF CallBegin, BeginSleep, WriteHead
<1>4. ASSUME NEW p \in Procs, BeginTrans(p) PROVE TransInv'
  BY <1>4 DEF BeginTrans
<1>5. ASSUME NEW p \in Procs, EndTrans(p) PROVE TransInv'
  BY Zenon, <1>5 DEF EndTrans
<1>6. ASSUME NEW p \in Procs, NEW s \in Sectors, NEW d \in Data, LogWrite(p, s, d)
      PROVE  TransInv'
  BY <1>6 DEF LogWrite
<1>7. CASE UNCHANGED vars
  BY <1>7 DEF vars
<1>. QED  BY <1>1, <1>2, <1>3, <1>4, <1>5, <1>6, <1>7 DEF Next

(* Of all system calls, one at a time is in a transaction, and who sleeps  *)
(* in begin_trans will be woken by its commit_trans.                       *)
THEOREM TransactionCorrect == Spec => []OneTransaction
<1>1. TransInv => OneTransaction
  BY DEF TransInv, OneTransaction
<1>. QED  BY <1>1, TransInit, TransNext, PTL DEF Spec

-----------------------------------------------------------------------------
(* What a header may be: no sector is in it twice.                         *)
Header(h) ==
  /\ h \in Seq(Sectors) /\ Len(h) <= LOGSIZE
  /\ \A i, j \in 1 .. Len(h) : h[i] = h[j] => i = j

(* The log blocks l of the header h over the home blocks m.                *)
Over(h, l, m) ==
  [s \in Sectors |->
     IF \E i \in 1 .. Len(h) : h[i] = s
     THEN l[CHOOSE i \in 1 .. Len(h) : h[i] = s]
     ELSE m[s]]

(* f has the log block of a sector in the header, the home block of any    *)
(* other.                                                                  *)
IsOver(f, h, l, m) ==
  /\ f \in [Sectors -> Data]
  /\ \A i \in 1 .. Len(h) : f[h[i]] = l[i]
  /\ \A s \in Sectors : (\A i \in 1 .. Len(h) : h[i] # s) => f[s] = m[s]

Blocks(h, l, m) == Header(h) /\ l \in [1 .. LOGSIZE -> Data] /\ m \in [Sectors -> Data]

(* Over does as it should.                                                 *)
LEMMA OverAt ==
  ASSUME NEW h, NEW l, NEW m, Blocks(h, l, m)
  PROVE  IsOver(Over(h, l, m), h, l, m)
<1>. USE DEF Blocks
<1>1. ASSUME NEW i \in 1 .. Len(h) PROVE Over(h, l, m)[h[i]] = l[i] /\ l[i] \in Data
  <2>1. h[i] \in Sectors /\ i \in 1 .. LOGSIZE
    BY LogAssumption DEF Header
  <2>2. (CHOOSE j \in 1 .. Len(h) : h[j] = h[i]) = i
    BY DEF Header
  <2>. QED  BY Zenon, <2>1, <2>2 DEF Over
<1>2. ASSUME NEW s \in Sectors, \A i \in 1 .. Len(h) : h[i] # s PROVE Over(h, l, m)[s] = m[s]
  BY <1>2 DEF Over
<1>3. \A s \in Sectors : Over(h, l, m)[s] \in Data
  BY <1>1, <1>2
<1>. QED  BY Zenon, <1>1, <1>2, <1>3 DEF Over, IsOver

(* And nothing else does.                                                  *)
LEMMA OverUnique ==
  ASSUME NEW h, NEW l, NEW m, Blocks(h, l, m), NEW f, IsOver(f, h, l, m)
  PROVE  f = Over(h, l, m)
<1>. DEFINE o == Over(h, l, m)
<1>1. IsOver(o, h, l, m)
  BY OverAt
<1>. HIDE DEF o
<1>2. ASSUME NEW s \in Sectors PROVE f[s] = o[s]
  <2>1. CASE \E i \in 1 .. Len(h) : h[i] = s
    BY <1>1, <2>1 DEF IsOver
  <2>2. CASE \A i \in 1 .. Len(h) : h[i] # s
    BY <1>1, <2>2 DEF IsOver
  <2>. QED  BY <2>1, <2>2
<1>3. f = o
  BY <1>1, <1>2 DEF IsOver
<1>. QED  BY <1>3 DEF o

(* An empty header leaves the home blocks as they are.                     *)
LEMMA OverNone ==
  ASSUME NEW l \in [1 .. LOGSIZE -> Data], NEW m \in [Sectors -> Data]
  PROVE  Header(<<>>) /\ Over(<<>>, l, m) = m
<1>1. Header(<<>>)
  BY LogAssumption DEF Header
<1>2. Blocks(<<>>, l, m) /\ IsOver(m, <<>>, l, m)
  BY <1>1 DEF Blocks, IsOver
<1>. QED  BY <1>1, <1>2, OverUnique

(* The i-th log block is installed in m.                                   *)
Installed(h, l, m, i) == [m EXCEPT ![h[i]] = l[i]]

(* Installing one of the log blocks changes nothing.                       *)
LEMMA OverInstall ==
  ASSUME NEW h, NEW l, NEW m, Blocks(h, l, m), NEW i \in 1 .. Len(h)
  PROVE  /\ Blocks(h, l, Installed(h, l, m, i))
         /\ Over(h, l, Installed(h, l, m, i)) = Over(h, l, m)
         /\ Installed(h, l, Over(h, l, m), i) = Over(h, l, m)
<1>. DEFINE n == Installed(h, l, m, i)
            o == Over(h, l, m)
<1>1. IsOver(o, h, l, m)
  BY OverAt
<1>. HIDE DEF o
<1>2. h[i] \in Sectors /\ l[i] \in Data
  BY LogAssumption DEF Blocks, Header
<1>3. n \in [Sectors -> Data] /\ \A s \in Sectors : s # h[i] => n[s] = m[s]
  BY <1>2 DEF Blocks, Installed
<1>4. Installed(h, l, o, i) = o
  BY <1>1, <1>2 DEF IsOver, Installed
<1>. HIDE DEF n
<1>5. Blocks(h, l, n) /\ IsOver(o, h, l, n)
  BY <1>1, <1>3 DEF Blocks, IsOver
<1>6. o = Over(h, l, n)
  BY <1>5, OverUnique
<1>. QED  BY <1>4, <1>5, <1>6 DEF n, o

(* What log_write makes of a header, with sector s in slot i, and of the   *)
(* blocks f, with d at x.                                                  *)
Logs(h, g, s, i) ==
  /\ i \in 1 .. Len(h) + 1
  /\ IF \E j \in 1 .. Len(h) : h[j] = s THEN i <= Len(h) /\ h[i] = s ELSE i = Len(h) + 1
  /\ g = IF i = Len(h) + 1 THEN Append(h, s) ELSE h
Put(f, x, d) == [f EXCEPT ![x] = d]

(* log_write of one sector.                                                *)
LEMMA OverWrite ==
  ASSUME NEW h, NEW l, NEW m, Blocks(h, l, m), Len(h) < LOGSIZE,
         NEW s \in Sectors, NEW d \in Data, NEW i, NEW g, Logs(h, g, s, i)
  PROVE  /\ Blocks(g, Put(l, i, d), m)
         /\ Over(g, Put(l, i, d), m) = Put(Over(h, l, m), s, d)
<1>1. /\ i \in 1 .. Len(g) /\ g[i] = s /\ Len(h) <= Len(g)
      /\ \A j \in 1 .. Len(g) : j # i => j \in 1 .. Len(h) /\ g[j] = h[j]
      /\ \A j \in 1 .. Len(h) : g[j] = h[j]
  BY DEF Blocks, Header, Logs
<1>2. Header(g)
  <2>1. g \in Seq(Sectors) /\ Len(g) <= LOGSIZE
    BY LogAssumption DEF Blocks, Header, Logs
  <2>2. \A j \in 1 .. Len(g) : j # i => g[j] # s
    BY <1>1 DEF Blocks, Header, Logs
  <2>. QED  BY <1>1, <2>1, <2>2 DEF Blocks, Header
<1>. DEFINE k == Put(l, i, d)
            o == Over(h, l, m)
            f == Put(o, s, d)
<1>3. IsOver(o, h, l, m)
  BY OverAt
<1>. HIDE DEF o
<1>4. /\ k \in [1 .. LOGSIZE -> Data] /\ k[i] = d
      /\ \A j \in 1 .. LOGSIZE : j # i => k[j] = l[j]
  BY LogAssumption DEF Blocks, Header, Logs, Put
<1>5. f \in [Sectors -> Data] /\ f[s] = d /\ \A t \in Sectors : t # s => f[t] = o[t]
  BY <1>3 DEF IsOver, Put
<1>. HIDE DEF k, f
<1>6. Blocks(g, k, m)
  BY <1>2, <1>4 DEF Blocks
<1>7. ASSUME NEW j \in 1 .. Len(g) PROVE f[g[j]] = k[j]
  <2>1. CASE j = i
    BY <1>1, <1>4, <1>5, <2>1
  <2>2. CASE j # i
    <3>1. j \in 1 .. Len(h) /\ j \in 1 .. LOGSIZE /\ g[j] = h[j] /\ g[j] # s /\ g[j] \in Sectors
      BY <1>1, <1>2, <2>2, LogAssumption DEF Header
    <3>. QED  BY <1>3, <1>4, <1>5, <2>2, <3>1 DEF IsOver
  <2>. QED  BY <2>1, <2>2
<1>8. ASSUME NEW t \in Sectors, \A j \in 1 .. Len(g) : g[j] # t PROVE f[t] = m[t]
  <2>1. t # s /\ \A j \in 1 .. Len(h) : h[j] # t
    BY <1>1, <1>8
  <2>. QED  BY <1>3, <1>5, <2>1 DEF IsOver
<1>9. IsOver(f, g, k, m)
  BY <1>5, <1>7, <1>8 DEF IsOver
<1>10. f = Over(g, k, m)
  BY <1>6, <1>9, OverUnique
<1>. QED  BY <1>6, <1>10 DEF k, f, o

-----------------------------------------------------------------------------
(* The buffers are the log blocks over the home blocks: in a transaction   *)
(* those of log.lh, which the header on disk has once it is written; while *)
(* blocks are installed, the header on disk is log.lh, so that recovery    *)
(* can start over.                                                         *)
DiskInv ==
  /\ Blocks(head, logblk, home) /\ Blocks(lh, logblk, home)
  /\ cache \in [Sectors -> Data] /\ tail \in 0 .. Len(lh)
  /\ phase = "boot" \/ (phase = "install" /\ ~busy) => cache = home
  /\ phase = "install" => head = lh /\ \A i \in 1 .. tail : home[lh[i]] = logblk[i]
  /\ phase = "run" => head = <<>> /\ tail = 0 /\ (~busy => lh = <<>>)
  /\ phase = "run" \/ (phase = "install" /\ busy) => cache = Over(lh, logblk, home)

(* What the abstract disk has in its cache.                                *)
Cached == IF Booting THEN Recovered ELSE cache

(* Recovery makes Over of the disk.                                        *)
LEMMA RecoveredOver ==
  Recovered = Over(head, logblk, home) /\ Recovered' = Over(head', logblk', home')
  BY DEF Recovered, Over

(* A disk at rest.                                                         *)
LEMMA DiskInit == Init => DiskInv /\ Disk!Init
<1>. SUFFICES ASSUME Init PROVE DiskInv /\ Disk!Init
  OBVIOUS
<1>1. Header(<<>>) /\ Over(<<>>, logblk, home) = home
  BY OverNone DEF Init
<1>2. Recovered = home
  BY <1>1, RecoveredOver DEF Init
<1>3. DiskInv
  BY <1>1 DEF Init, DiskInv, Blocks
<1>. QED  BY <1>2, <1>3 DEF Init, Disk!Init, Booting

(* initlog reads the header.                                               *)
LEMMA DiskReadHead ==
  ASSUME TransInv, DiskInv, ReadHead
  PROVE  DiskInv' /\ UNCHANGED <<Recovered, Cached, busy>>
<1>1. Recovered' = Recovered /\ Booting /\ Booting'
  BY RecoveredOver DEF ReadHead, disk, Booting, TransInv
<1>2. /\ UNCHANGED <<home, logblk, head, cache, busy>> /\ lh' = head /\ tail' = 0
      /\ phase = "boot" /\ phase' = "install" /\ ~busy
  BY DEF ReadHead, disk, TransInv
<1>3. DiskInv'
  BY <1>2 DEF DiskInv, Blocks, Header
<1>. QED  BY <1>1, <1>2, <1>3 DEF Cached

(* install_trans copies a block, of which nobody can tell.                 *)
LEMMA DiskInstall ==
  ASSUME TransInv, DiskInv, Install
  PROVE  DiskInv' /\ UNCHANGED <<Recovered, Cached, busy>>
<1>. DEFINE i == tail + 1
<1>1. i \in 1 .. Len(lh) /\ head = lh /\ phase = "install" /\ Len(lh) \in Nat
  BY DEF Install, DiskInv, Blocks, Header
<1>2. /\ home' = [home EXCEPT ![lh[i]] = logblk[i]] /\ cache' = [cache EXCEPT ![lh[i]] = logblk[i]]
      /\ tail' = i /\ UNCHANGED <<logblk, head, lh, busy, phase, pc>>
  BY DEF Install
<1>. HIDE DEF i
<1>3. Blocks(lh, logblk, home)
  BY DEF DiskInv
<1>4. /\ Blocks(lh, logblk, home') /\ Over(lh, logblk, home') = Over(lh, logblk, home)
      /\ [Over(lh, logblk, home) EXCEPT ![lh[i]] = logblk[i]] = Over(lh, logblk, home)
  <2>1. home' = Installed(lh, logblk, home, i)
    BY <1>2 DEF Installed
  <2>2. /\ Blocks(lh, logblk, home') /\ Over(lh, logblk, home') = Over(lh, logblk, home)
        /\ Installed(lh, logblk, Over(lh, logblk, home), i) = Over(lh, logblk, home)
    BY <1>1, <1>3, <2>1, OverInstall
  <2>. QED  BY <2>2 DEF Installed
<1>5. Recovered' = Recovered
  BY <1>1, <1>2, <1>4, RecoveredOver
<1>6. /\ busy => cache' = cache /\ cache = Over(lh, logblk, home)
      /\ ~busy => cache' = home'
  BY Zenon, <1>1, <1>2, <1>4 DEF DiskInv
<1>7. \A j \in 1 .. i : home'[lh[j]] = logblk[j]
  <2>. SUFFICES ASSUME NEW j \in 1 .. i PROVE home'[lh[j]] = logblk[j]
    OBVIOUS
  <2>1. lh[j] \in Sectors /\ lh[i] \in Sectors /\ home \in [Sectors -> Data]
    BY <1>1, <1>3 DEF Blocks, Header
  <2>2. CASE j = i
    BY <1>2, <2>1, <2>2
  <2>3. CASE j # i
    <3>1. j \in 1 .. tail /\ j \in 1 .. Len(lh)
      BY <1>1, <2>3 DEF DiskInv, i
    <3>2. lh[j] # lh[i] /\ home[lh[j]] = logblk[j]
      BY <1>1, <1>3, <2>3, <3>1 DEF DiskInv, Blocks, Header
    <3>. QED  BY <1>2, <2>1, <3>2
  <2>. QED  BY <2>2, <2>3
<1>8. cache' \in [Sectors -> Data]
  BY <1>4, <1>6 DEF DiskInv, Blocks
<1>9. DiskInv'
  <2>1. Blocks(head', logblk', home') /\ Blocks(lh', logblk', home')
    BY <1>1, <1>2, <1>4
  <2>2. busy => cache' = Over(lh', logblk', home')
    BY Zenon, <1>2, <1>4, <1>6
  <2>3. tail' \in 0 .. Len(lh') /\ \A j \in 1 .. tail' : home'[lh'[j]] = logblk'[j]
    BY <1>1, <1>2, <1>7
  <2>. QED  BY <1>1, <1>2, <1>6, <1>8, <2>1, <2>2, <2>3 DEF DiskInv
<1>. QED  BY Zenon, <1>1, <1>2, <1>5, <1>6, <1>9 DEF Cached, Booting, TransInv

(* The end of recovery and of the installation.                            *)
LEMMA DiskErase ==
  ASSUME TransInv, DiskInv, Erase
  PROVE  DiskInv' /\ UNCHANGED <<Recovered, Cached, busy>>
<1>1. /\ phase = "install" /\ tail = Len(lh) /\ UNCHANGED <<home, logblk, cache, busy>>
      /\ lh' = <<>> /\ head' = <<>> /\ tail' = 0 /\ phase' = "run"
  BY DEF Erase
<1>2. /\ Blocks(lh, logblk, home) /\ head = lh /\ cache \in [Sectors -> Data]
      /\ \A i \in 1 .. Len(lh) : home[lh[i]] = logblk[i]
      /\ ~busy => cache = home
      /\ busy => cache = Over(lh, logblk, home)
  BY <1>1 DEF DiskInv
<1>3. home = Over(lh, logblk, home)
  <2>1. IsOver(home, lh, logblk, home)
    BY <1>2 DEF IsOver, Blocks
  <2>. QED  BY <1>2, <2>1, OverUnique
<1>4. Header(<<>>) /\ Over(<<>>, logblk, home) = home
  BY <1>2, OverNone DEF Blocks
<1>5. Recovered = home /\ Recovered' = home
  BY <1>1, <1>2, <1>3, <1>4, RecoveredOver
<1>6. cache = home
  BY <1>2, <1>3
<1>7. Blocks(<<>>, logblk, home)
  BY <1>2, <1>4 DEF Blocks
<1>8. DiskInv'
  BY <1>1, <1>2, <1>4, <1>6, <1>7 DEF DiskInv
<1>. QED  BY <1>1, <1>5, <1>6, <1>8 DEF Cached

(* begin_trans begins a transaction.                                       *)
LEMMA DiskBegin ==
  ASSUME TransInv, DiskInv, NEW p \in Procs, BeginTrans(p)
  PROVE  DiskInv' /\ ~busy /\ busy' = TRUE /\ UNCHANGED <<Recovered, Cached>>
<1>1. ~busy /\ busy' = TRUE /\ UNCHANGED <<home, logblk, head, cache, lh, tail, phase>>
  BY DEF BeginTrans, disk
<1>2. phase = "run" /\ ~Booting /\ ~Booting'
  BY <1>1 DEF BeginTrans, TransInv, Booting
<1>3. Recovered' = Recovered
  BY <1>1, RecoveredOver
<1>4. DiskInv'
  BY <1>1, <1>2 DEF DiskInv
<1>. QED  BY <1>1, <1>2, <1>3, <1>4 DEF Cached

(* log_write changes what is read and not what a crash leaves.             *)
LEMMA DiskWrite ==
  ASSUME TransInv, DiskInv, NEW p \in Procs, NEW s \in Sectors, NEW d \in Data, LogWrite(p, s, d)
  PROVE  /\ DiskInv' /\ busy = TRUE /\ Cached' = [Cached EXCEPT ![s] = d]
         /\ UNCHANGED <<Recovered, busy>>
<1>1. /\ phase = "run" /\ busy = TRUE /\ UNCHANGED <<home, head, busy, tail, phase>>
      /\ cache' = Put(cache, s, d) /\ Len(lh) < LOGSIZE
  BY DEF LogWrite, TransInv, Put
<1>2. PICK i : Logs(lh, lh', s, i) /\ logblk' = Put(logblk, i, d)
  BY Zenon DEF LogWrite, Slot, Logs, Put
<1>3. /\ Blocks(lh, logblk, home) /\ head = <<>> /\ tail = 0
      /\ cache = Over(lh, logblk, home) /\ cache \in [Sectors -> Data]
  BY <1>1 DEF DiskInv
<1>4. Blocks(lh', logblk', home) /\ Over(lh', logblk', home) = cache'
  BY <1>1, <1>2, <1>3, OverWrite
<1>5. Recovered = home /\ Recovered' = home
  <2>1. Over(<<>>, logblk, home) = home /\ Over(<<>>, logblk', home) = home
    BY <1>3, <1>4, OverNone DEF Blocks
  <2>. QED  BY <1>1, <1>3, <2>1, RecoveredOver
<1>6. cache' \in [Sectors -> Data]
  BY <1>1, <1>3 DEF Put
<1>7. Blocks(<<>>, logblk', home) /\ Len(lh') \in Nat
  BY <1>4, OverNone DEF Blocks, Header
<1>8. DiskInv'
  BY <1>1, <1>3, <1>4, <1>6, <1>7 DEF DiskInv
<1>. QED  BY <1>1, <1>5, <1>8 DEF Cached, Booting, Put

(* The header on disk is the commit.                                       *)
LEMMA DiskCommit ==
  ASSUME TransInv, DiskInv, NEW p \in Procs, WriteHead(p)
  PROVE  /\ DiskInv' /\ busy = TRUE /\ Recovered' = Cached /\ UNCHANGED <<Cached, busy>>
<1>1. /\ phase = "run" /\ busy = TRUE /\ UNCHANGED <<home, logblk, cache, lh, busy>>
      /\ head' = lh /\ tail' = 0 /\ phase' = "install"
  BY DEF WriteHead, TransInv
<1>2. Blocks(lh, logblk, home) /\ cache = Over(lh, logblk, home) /\ cache \in [Sectors -> Data]
  BY <1>1 DEF DiskInv
<1>3. Recovered' = cache
  BY <1>1, <1>2, RecoveredOver
<1>4. DiskInv'
  BY <1>1, <1>2 DEF DiskInv, Blocks, Header
<1>. QED  BY <1>1, <1>3, <1>4 DEF Cached, Booting

(* commit_trans returns when the blocks are safe.                          *)
LEMMA DiskEnd ==
  ASSUME TransInv, DiskInv, NEW p \in Procs, EndTrans(p)
  PROVE  /\ DiskInv' /\ busy = TRUE /\ busy' = FALSE /\ Recovered = Cached
         /\ UNCHANGED <<Recovered, Cached>>
<1>1. /\ phase = "run" /\ busy = TRUE /\ lh = <<>> /\ busy' = FALSE
      /\ UNCHANGED <<home, logblk, head, cache, lh, tail, phase>>
  BY DEF EndTrans, TransInv, disk
<1>2. /\ Blocks(<<>>, logblk, home) /\ head = <<>> /\ cache = Over(<<>>, logblk, home)
  BY <1>1 DEF DiskInv
<1>3. Recovered = cache /\ Recovered' = cache
  BY <1>1, <1>2, RecoveredOver
<1>4. DiskInv'
  BY <1>1 DEF DiskInv
<1>. QED  BY <1>1, <1>3, <1>4 DEF Cached, Booting

(* A crash leaves what recovery will make of the disk.                     *)
LEMMA DiskCrash ==
  ASSUME TransInv, DiskInv, Crash
  PROVE  DiskInv' /\ Cached' = Recovered /\ busy' = FALSE /\ UNCHANGED Recovered
<1>1. /\ UNCHANGED <<home, logblk, head>> /\ cache' = home /\ lh' = <<>> /\ busy' = FALSE
      /\ tail' = 0 /\ phase' = "boot"
  BY DEF Crash, disk
<1>2. Recovered' = Recovered
  BY <1>1, RecoveredOver
<1>3. Blocks(head, logblk, home) /\ Blocks(<<>>, logblk, home) /\ home \in [Sectors -> Data]
  BY OverNone DEF DiskInv, Blocks
<1>4. DiskInv'
  BY <1>1, <1>3 DEF DiskInv
<1>. QED  BY <1>1, <1>2, <1>4 DEF Cached, Booting

(* The steps in which only a process moves.                                *)
LEMMA DiskSame ==
  ASSUME TransInv, DiskInv,
         (\E p \in Procs : CallBegin(p) \/ BeginSleep(p)) \/ UNCHANGED vars
  PROVE  DiskInv' /\ UNCHANGED <<Recovered, Cached, busy>>
<1>1. UNCHANGED <<home, logblk, head, cache, lh, busy, tail, phase>>
  BY DEF CallBegin, BeginSleep, vars, disk
<1>2. Recovered' = Recovered /\ Booting' = Booting
  BY <1>1, RecoveredOver DEF Booting
<1>3. DiskInv'
  BY <1>1 DEF DiskInv
<1>. QED  BY <1>1, <1>2, <1>3 DEF Cached

(* The log implements the atomic disk, whatever the sizes: a crash at any  *)
(* point, also in recovery, leaves whole transactions.                     *)
THEOREM DiskRefinement == Spec => ImplementsDisk
<1>1. TransInv /\ DiskInv /\ [Next]_vars => DiskInv' /\ [Disk!Next]_(Disk!avars)
  <2>. SUFFICES ASSUME TransInv, DiskInv, [Next]_vars
                PROVE  DiskInv' /\ [Disk!Next]_(Disk!avars)
    OBVIOUS
  <2>. USE DEF Disk!Next, Disk!avars, Cached
  <2>1. CASE ReadHead \/ Install \/ Erase
    BY <2>1, DiskReadHead, DiskInstall, DiskErase
  <2>2. CASE Crash
    BY Zenon, <2>2, DiskCrash DEF Disk!Crash
  <2>3. CASE \E p \in Procs : BeginTrans(p)
    BY Zenon, <2>3, DiskBegin DEF Disk!Begin
  <2>4. CASE \E p \in Procs : WriteHead(p)
    BY Zenon, <2>4, DiskCommit DEF Disk!Commit
  <2>5. CASE \E p \in Procs : EndTrans(p)
    BY Zenon, <2>5, DiskEnd DEF Disk!End
  <2>6. ASSUME NEW p \in Procs, NEW s \in Sectors, NEW d \in Data, LogWrite(p, s, d)
        PROVE  DiskInv' /\ Disk!Next
    BY ZenonT(30), <2>6, DiskWrite DEF Disk!Write
  <2>7. CASE (\E p \in Procs : CallBegin(p) \/ BeginSleep(p)) \/ UNCHANGED vars
    BY <2>7, DiskSame
  <2>. QED  BY <2>1, <2>2, <2>3, <2>4, <2>5, <2>6, <2>7 DEF Next
<1>. QED
  BY <1>1, DiskInit, TransInit, TransNext, PTL DEF Spec, ImplementsDisk, Disk!Spec

-----------------------------------------------------------------------------
(* The pipe.                                                               *)

Places == {"user", "write", "wsleep", "read", "rsleep", "wclose", "rclose"}
PipeType ==
  /\ pdata \in [0 .. PIPESIZE-1 -> Bytes \union {Junk}]
  /\ nread \in 0 .. Wrap-1 /\ nwrite \in 0 .. Wrap-1
  /\ readopen \in BOOLEAN /\ writeopen \in BOOLEAN /\ freed \in BOOLEAN
  /\ ppc \in [Users -> Places] /\ todo \in [Users -> Nat] /\ killed \in [Users -> BOOLEAN]
  /\ stream \in Seq(Bytes)

(* n counts the elements of S, one by one.                                 *)
Counts(n, S) ==
  /\ n \in Nat
  /\ \E f \in [1 .. n -> S] : /\ \A e \in S : \E i \in 1 .. n : f[i] = e
                             /\ \A i, j \in 1 .. n : f[i] = f[j] => i = j

(* The references: f->ref is the number of processes that have the file;   *)
(* only they are in a call on it; after the last close one process is on   *)
(* its way to pipeclose, and until it is there the end stays open.         *)
RefInv ==
  /\ rfile \subseteq Users /\ Counts(rref, rfile)
  /\ wfile \subseteq Users /\ Counts(wref, wfile)
  /\ \A p \in Users : ppc[p] \in {"read", "rsleep"} => p \in rfile
  /\ \A p \in Users : ppc[p] \in {"write", "wsleep"} => p \in wfile
  /\ \A p \in Users : ppc[p] = "rclose" => rfile = {} /\ \A q \in Users : ppc[q] = "rclose" => q = p
  /\ \A p \in Users : ppc[p] = "wclose" => wfile = {} /\ \A q \in Users : ppc[q] = "wclose" => q = p
  /\ readopen <=> rfile # {} \/ \E p \in Users : ppc[p] = "rclose"
  /\ writeopen <=> wfile # {} \/ \E p \in Users : ppc[p] = "wclose"
  /\ freed <=> ~readopen /\ ~writeopen

(* The ring never holds more than fits.                                    *)
RingInv == RingIsQueue /\ Len(stream) <= PIPESIZE

PipeInv == PipeType /\ RefInv /\ RingInv /\ SleepersWait

-----------------------------------------------------------------------------
(* A multiple of m is at least m away from 0.                              *)
LEMMA Multiple == ASSUME NEW m \in Nat \ {0}, NEW k \in Int, -m < k*m, k*m < m PROVE k = 0
<1>1. ASSUME k >= 1 PROVE k*m >= m
  BY <1>1
<1>2. ASSUME k <= -1 PROVE k*m <= -m
  BY <1>2
<1> QED
  BY <1>1, <1>2

(* The remainder is what is left in 0 .. m-1 after taking multiples of m.  *)
LEMMA ModIs ==
  ASSUME NEW m \in Nat \ {0}, NEW a \in Int, NEW k \in Int, NEW r \in 0 .. m-1, a = k*m + r
  PROVE  a % m = r
<1> DEFINE d == a \div m
           e == a % m
<1>1. d \in Int /\ e \in 0 .. m-1 /\ a = m*d + e
  OBVIOUS
<1> HIDE DEF d, e
<1>2. (d - k)*m = r - e
  BY <1>1
<1>3. d - k = 0
  BY <1>1, <1>2, Multiple
<1> QED
  BY <1>1, <1>3 DEF e

(* Adding a multiple of m does not change it.                              *)
LEMMA ModShift ==
  ASSUME NEW m \in Nat \ {0}, NEW a \in Int, NEW k \in Int
  PROVE  (a + k*m) % m = a % m
<1> DEFINE d == a \div m
           e == a % m
<1>1. d \in Int /\ e \in 0 .. m-1 /\ a = m*d + e
  OBVIOUS
<1> HIDE DEF d, e
<1>2. a + k*m = (d + k)*m + e
  BY <1>1
<1>3. (a + k*m) % m = e
  BY <1>1, <1>2, ModIs
<1> QED
  BY <1>3 DEF e

(* Numbers less than m apart with one remainder are equal.                 *)
LEMMA ModSame ==
  ASSUME NEW m \in Nat \ {0}, NEW a \in Int, NEW b \in Int, a % m = b % m, -m < a - b, a - b < m
  PROVE  a = b
<1> DEFINE d == a \div m
           c == b \div m
           e == a % m
<1>1. d \in Int /\ c \in Int /\ e \in 0 .. m-1 /\ a = m*d + e /\ b = m*c + e
  OBVIOUS
<1> HIDE DEF d, c, e
<1>2. (d - c)*m = a - b
  BY <1>1
<1>3. d - c = 0
  BY <1>1, <1>2, Multiple
<1> QED
  BY <1>1, <1>3

(* The place in the ring of the byte with number a.                        *)
Place(a) == (a % Wrap) % PIPESIZE

(* Wrap is a multiple of PIPESIZE: the wrap of a counter moves no byte.    *)
LEMMA PlaceIs == ASSUME NEW a \in Int PROVE Place(a) = a % PIPESIZE /\ Place(a) \in 0 .. PIPESIZE-1
<1> DEFINE q == Wrap \div PIPESIZE
           d == a \div Wrap
<1>1. Wrap \in Nat \ {0} /\ PIPESIZE \in Nat \ {0} /\ Wrap % PIPESIZE = 0
  BY PipeAssumption
<1>0. q \in Int /\ Wrap = q*PIPESIZE
  BY <1>1
<1>2. d \in Int /\ a % Wrap = a + (-d)*Wrap
  BY <1>1
<1> HIDE DEF q, d
<1>3. PICK k \in Int : k = -(d*q)
  BY <1>0, <1>2
<1>4. a % Wrap = a + k*PIPESIZE
  <2>1. \A x, y, z \in Int : (-x)*(y*z) = (-(x*y))*z
    OBVIOUS
  <2>2. (-d)*(q*PIPESIZE) = k*PIPESIZE
    BY <1>0, <1>1, <1>2, <1>3, <2>1
  <2> QED
    BY <1>0, <1>2, <2>2
<1>5. (a + k*PIPESIZE) % PIPESIZE = a % PIPESIZE
  BY Zenon, <1>1, ModShift
<1>6. a % PIPESIZE \in 0 .. PIPESIZE-1
  BY <1>1
<1> QED
  BY <1>4, <1>5, <1>6 DEF Place

-----------------------------------------------------------------------------
(* Where the processes are after a wakeup.                                 *)
LEMMA Woken ==
  ASSUME NEW f \in [Users -> Places]
  PROVE  /\ WakeReaders(f) \in [Users -> Places \ {"rsleep"}]
         /\ WakeWriters(f) \in [Users -> Places \ {"wsleep"}]
  BY DEF WakeReaders, WakeWriters, Places

(* The bytes of a pass go to places of their own, and nothing else in the  *)
(* ring changes.                                                           *)
LEMMA StoreIs ==
  ASSUME PipeType, NEW k \in 0 .. PIPESIZE, NEW bs \in Strings(k), Store(bs)
  PROVE  /\ pdata' \in [0 .. PIPESIZE-1 -> Bytes \union {Junk}]
         /\ \A j \in 1 .. k : pdata'[Place(nwrite + j - 1)] = bs[j]
         /\ \A i \in 0 .. PIPESIZE-1 :
              (\A j \in 1 .. k : Place(nwrite + j - 1) # i) => pdata'[i] = pdata[i]
         /\ nwrite' = (nwrite + k) % Wrap /\ nwrite' \in 0 .. Wrap-1
         /\ stream' = stream \o bs /\ bs \in Seq(Bytes) /\ Len(bs) = k
<1> DEFINE Hits(i) == {j \in 1 .. Len(bs) : ((nwrite + j - 1) % Wrap) % PIPESIZE = i}
<1>1. nwrite \in Int /\ pdata \in [0 .. PIPESIZE-1 -> Bytes \union {Junk}]
  BY PipeAssumption DEF PipeType
<1>2. bs \in Seq(Bytes) /\ Len(bs) = k /\ bs \in [1 .. k -> Bytes]
  BY DEF Strings
<1>3. pdata' = [i \in 0 .. PIPESIZE-1 |->
                  IF Hits(i) = {} THEN pdata[i] ELSE bs[CHOOSE j \in Hits(i) : TRUE]]
  BY DEF Store
<1>4. nwrite' = (nwrite + k) % Wrap /\ nwrite' \in 0 .. Wrap-1 /\ stream' = stream \o bs
  BY <1>1, <1>2, PipeAssumption DEF Store
<1>5. ASSUME NEW i \in 0 .. PIPESIZE-1 PROVE Hits(i) = {j \in 1 .. k : Place(nwrite + j - 1) = i}
  BY <1>2 DEF Place
<1> HIDE DEF Hits
<1>6. ASSUME NEW i \in 0 .. PIPESIZE-1, NEW j \in Hits(i) PROVE Hits(i) = {j}
  <2>1. ASSUME NEW h \in Hits(i) PROVE h = j
    <3>1. h \in 1 .. k /\ j \in 1 .. k /\ Place(nwrite + h - 1) = Place(nwrite + j - 1)
      BY <1>5, <1>6, <2>1
    <3> DEFINE a == nwrite + h - 1
               b == nwrite + j - 1
    <3>2. a \in Int /\ b \in Int /\ -PIPESIZE < a - b /\ a - b < PIPESIZE /\ (a = b => h = j)
      BY <1>1, <3>1, PipeAssumption
    <3>3. Place(a) = Place(b)
      BY <3>1
    <3> HIDE DEF a, b
    <3>4. a % PIPESIZE = b % PIPESIZE /\ PIPESIZE \in Nat \ {0}
      BY <3>2, <3>3, PlaceIs, PipeAssumption
    <3> QED
      BY Zenon, <3>2, <3>4, ModSame
  <2> QED
    BY <1>6, <2>1
<1>7. ASSUME NEW i \in 0 .. PIPESIZE-1, NEW j \in Hits(i)
      PROVE  (CHOOSE h \in Hits(i) : TRUE) = j
  <2>1. (CHOOSE h \in Hits(i) : TRUE) \in Hits(i)
    BY <1>7
  <2> QED
    BY <1>6, <2>1
<1>8. ASSUME NEW i \in 0 .. PIPESIZE-1, NEW j \in Hits(i) PROVE pdata'[i] = bs[j] /\ j \in 1 .. k
  BY Zenon, <1>3, <1>5, <1>7, <1>8
<1>9. ASSUME NEW i \in 0 .. PIPESIZE-1 PROVE pdata'[i] \in Bytes \union {Junk}
  <2>1. CASE Hits(i) = {}
    BY <1>1, <1>3, <2>1
  <2>2. ASSUME NEW j \in Hits(i) PROVE pdata'[i] \in Bytes
    BY <1>2, <1>8, <2>2
  <2> QED
    BY <2>1, <2>2
<1>10. ASSUME NEW j \in 1 .. k PROVE pdata'[Place(nwrite + j - 1)] = bs[j]
  <2>1. Place(nwrite + j - 1) \in 0 .. PIPESIZE-1
    BY <1>1, PlaceIs
  <2> QED
    BY <1>5, <1>8, <2>1
<1>11. ASSUME NEW i \in 0 .. PIPESIZE-1, \A j \in 1 .. k : Place(nwrite + j - 1) # i
       PROVE  pdata'[i] = pdata[i]
  BY <1>3, <1>5, <1>11
<1>12. pdata' \in [0 .. PIPESIZE-1 -> Bytes \union {Junk}]
  BY <1>3, <1>9
<1> QED
  BY <1>2, <1>4, <1>10, <1>11, <1>12

(* What is in the ring, and what it has room for.                          *)
LEMMA Room == PipeType /\ RingInv => Count \in 0 .. PIPESIZE /\ Free \in 0 .. PIPESIZE
<1> SUFFICES ASSUME PipeType, RingInv PROVE Count \in 0 .. PIPESIZE /\ Free \in 0 .. PIPESIZE
  OBVIOUS
<1>1. Len(stream) \in Nat /\ Len(stream) <= PIPESIZE /\ Count = Len(stream) /\ PIPESIZE \in Nat
  BY PipeAssumption DEF PipeType, RingInv, RingIsQueue
<1> QED
  BY <1>1 DEF Free

(* A pass of pipewrite stores at most what there is room for.              *)
LEMMA WriteStores ==
  ASSUME PipeType, RingInv, NEW p \in Users, WriteAll(p) \/ WriteFill(p) \/ WriteFails(p)
  PROVE  \E k \in 0 .. PIPESIZE : /\ k <= Free /\ (~WriteAll(p) => k = Free)
                                  /\ (WriteAll(p) => k = todo[p])
                                  /\ \E bs \in Strings(k) : Store(bs)
<1>1. Free \in 0 .. PIPESIZE /\ todo[p] \in Nat /\ PIPESIZE \in Nat
  BY Room, PipeAssumption DEF PipeType
<1>2. CASE WriteAll(p)
  BY <1>1, <1>2 DEF WriteAll
<1>3. CASE ~WriteAll(p)
  BY <1>1, <1>3 DEF WriteFill, WriteFails
<1> QED
  BY <1>2, <1>3

(* Types are kept.                                                         *)
LEMMA PipeTypeStep == PipeType /\ RingInv /\ [PipeNext]_pipevars => PipeType'
<1> SUFFICES ASSUME PipeType, RingInv, [PipeNext]_pipevars PROVE PipeType'
  OBVIOUS
<1>1. CASE UNCHANGED pipevars
  BY <1>1 DEF PipeType, pipevars, pipe, open
<1>2. ASSUME NEW p \in Users, PipeAlloc(p) PROVE PipeType'
  <2>1. <<>> \in Seq(Bytes) /\ 0 \in 0 .. Wrap-1
    BY PipeAssumption
  <2>2. pdata' \in [0 .. PIPESIZE-1 -> Bytes \union {Junk}]
    BY <1>2 DEF PipeAlloc
  <2> QED
    BY Zenon, <1>2, <2>1, <2>2 DEF PipeType, PipeAlloc
<1>3. ASSUME NEW p \in Users, NEW q \in Users, Fork(p, q) PROVE PipeType'
  BY <1>3 DEF PipeType, Fork, pipe
<1>4. ASSUME NEW p \in Users, NEW k \in Lengths, Call(p, k) PROVE PipeType'
  <2>1. ppc' \in [Users -> Places]
    BY Zenon, <1>4 DEF PipeType, Call, Places
  <2>2. todo' \in [Users -> Nat]
    BY <1>4, PipeAssumption DEF PipeType, Call
  <2> QED
    BY <1>4, <2>1, <2>2 DEF PipeType, Call, pipe, open
<1>5. ASSUME NEW p \in Users, CloseWrite(p) \/ CloseRead(p) PROVE PipeType'
  BY Zenon, <1>5 DEF PipeType, CloseWrite, CloseRead, pipe, Places
<1>6. ASSUME NEW p \in Users, PipeCloseWrite(p) \/ PipeCloseRead(p) PROVE PipeType'
  <2>1. [ppc EXCEPT ![p] = "user"] \in [Users -> Places]
    BY DEF PipeType, Places
  <2>2. ppc' \in [Users -> Places]
    BY Zenon, <1>6, <2>1, Woken DEF PipeCloseWrite, PipeCloseRead
  <2> QED
    BY Zenon, <1>6, <2>2 DEF PipeType, PipeCloseWrite, PipeCloseRead, pipe
<1>7. ASSUME NEW p \in Users, PipeKill(p) PROVE PipeType'
  BY <1>7 DEF PipeType, PipeKill, pipe, open, Places
<1>8. ASSUME NEW p \in Users, WriteAll(p) \/ WriteFill(p) \/ WriteFails(p) PROVE PipeType'
  <2>1. PICK k \in 0 .. PIPESIZE : /\ k <= Free /\ (~WriteAll(p) => k = Free)
                                   /\ \E bs \in Strings(k) : Store(bs)
    BY <1>8, WriteStores
  <2>2. PICK bs \in Strings(k) : Store(bs)
    BY <2>1
  <2>3. /\ pdata' \in [0 .. PIPESIZE-1 -> Bytes \union {Junk}]
        /\ nwrite' \in 0 .. Wrap-1 /\ stream' = stream \o bs /\ bs \in Seq(Bytes)
    BY <2>2, StoreIs
  <2>4. stream' \in Seq(Bytes)
    BY <2>3 DEF PipeType
  <2>5. /\ [ppc EXCEPT ![p] = "user"] \in [Users -> Places]
        /\ WakeReaders(ppc) \in [Users -> Places]
    BY Woken DEF PipeType, Places
  <2>6. ppc' \in [Users -> Places]
    <3>1. CASE WriteAll(p)
      BY Zenon, <2>5, <3>1, Woken DEF WriteAll, Places
    <3>2. CASE WriteFill(p)
      BY <2>5, <3>2 DEF WriteFill, Places
    <3>3. CASE WriteFails(p)
      BY <2>5, <3>3 DEF WriteFails
    <3> QED
      BY <1>8, <3>1, <3>2, <3>3
  <2>7. todo' \in [Users -> Nat]
    <3>1. Free \in Nat
      BY Room, PipeAssumption
    <3>2. CASE WriteFill(p)
      BY <3>1, <3>2 DEF WriteFill, PipeType
    <3>3. CASE WriteAll(p) \/ WriteFails(p)
      BY <3>3 DEF WriteAll, WriteFails, PipeType
    <3> QED
      BY <1>8, <3>2, <3>3
  <2> QED
    BY Zenon, <1>8, <2>3, <2>4, <2>6, <2>7 DEF PipeType, WriteAll, WriteFill, WriteFails, open
<1>9. ASSUME NEW p \in Users, ReadSleep(p) \/ ReadFails(p) PROVE PipeType'
  <2>1. ppc' \in [Users -> Places] /\ todo' \in [Users -> Nat]
    <3>1. CASE ReadSleep(p)
      BY <3>1 DEF PipeType, ReadSleep, Places
    <3>2. CASE ReadFails(p)
      BY <3>2 DEF PipeType, ReadFails, Places
    <3> QED
      BY <1>9, <3>1, <3>2
  <2> QED
    BY <1>9, <2>1 DEF PipeType, ReadSleep, ReadFails, pipe, open
<1>10. ASSUME NEW p \in Users, ReadTake(p) PROVE PipeType'
  <2>1. Count \in 0 .. Len(stream) /\ todo[p] \in Nat /\ Taken(p) \in 0 .. Len(stream)
    BY PipeAssumption DEF PipeType, Taken, RingInv, RingIsQueue
  <2>2. nread' \in 0 .. Wrap-1
    BY <1>10, <2>1, PipeAssumption DEF ReadTake, PipeType
  <2>3. stream' \in Seq(Bytes)
    BY <1>10, <2>1 DEF ReadTake, PipeType
  <2>4. [ppc EXCEPT ![p] = "user"] \in [Users -> Places]
    BY DEF PipeType, Places
  <2>5. ppc' \in [Users -> Places]
    BY Zenon, <1>10, <2>4, Woken DEF ReadTake
  <2> QED
    BY Zenon, <1>10, <2>2, <2>3, <2>5 DEF ReadTake, PipeType, open
<1> QED
  BY <1>1, <1>2, <1>3, <1>4, <1>5, <1>6, <1>7, <1>8, <1>9, <1>10 DEF PipeNext

(* A step that leaves the files and the closers alone keeps RefInv, if     *)
(* whoever is in a call has the file.                                      *)
LEMMA RefQuiet ==
  ASSUME RefInv, UNCHANGED open,
         \A p \in Users : /\ ppc'[p] \in {"read", "rsleep"} => p \in rfile
                          /\ ppc'[p] \in {"write", "wsleep"} => p \in wfile
                          /\ ppc'[p] = "rclose" <=> ppc[p] = "rclose"
                          /\ ppc'[p] = "wclose" <=> ppc[p] = "wclose"
  PROVE  RefInv'
  BY DEF RefInv, open

(* There are none in the empty set.                                        *)
LEMMA CountNone == Counts(0, {})
<1> DEFINE f == [i \in 1 .. 0 |-> 0]
<1>1. f \in [1 .. 0 -> {}]
  OBVIOUS
<1> HIDE DEF f
<1> QED
  BY Zenon, <1>1 DEF Counts

(* There is one in a set of one.                                           *)
LEMMA CountOne == ASSUME NEW p PROVE Counts(1, {p})
<1> DEFINE f == [i \in 1 .. 1 |-> p]
<1>1. f \in [1 .. 1 -> {p}] /\ f[1] = p
  OBVIOUS
<1> HIDE DEF f
<1> QED
  BY <1>1 DEF Counts

(* dup in fork: there is one more with one that was not in the set.        *)
LEMMA CountMore ==
  ASSUME NEW S, NEW n, Counts(n, S), NEW q, q \notin S
  PROVE  Counts(n + 1, S \union {q})
<1>1. PICK f \in [1 .. n -> S] : /\ \A e \in S : \E i \in 1 .. n : f[i] = e
                                 /\ \A i, j \in 1 .. n : f[i] = f[j] => i = j
  BY DEF Counts
<1> DEFINE g == [i \in 1 .. n + 1 |-> IF i = n + 1 THEN q ELSE f[i]]
<1>2. n \in Nat
  BY DEF Counts
<1>3. g \in [1 .. n + 1 -> S \union {q}]
  BY <1>2
<1>4. \A i \in 1 .. n : g[i] = f[i] /\ g[i] \in S
  BY <1>2
<1>5. g[n + 1] = q
  BY <1>2
<1> HIDE DEF g
<1>6. ASSUME NEW e \in S \union {q} PROVE \E i \in 1 .. n + 1 : g[i] = e
  <2>1. CASE e = q
    BY <1>2, <1>5, <2>1
  <2>2. CASE e \in S
    <3>1. PICK i \in 1 .. n : f[i] = e
      BY <1>1, <2>2
    <3> QED
      BY <1>2, <1>4, <3>1
  <2> QED
    BY <2>1, <2>2
<1>7. \A i, j \in 1 .. n + 1 : g[i] = g[j] => i = j
  BY <1>1, <1>2, <1>4, <1>5
<1>8. n + 1 \in Nat
  BY <1>2
<1> QED
  BY <1>3, <1>6, <1>7, <1>8, Zenon DEF Counts

(* fileclose: there is one less without one that was in the set.           *)
LEMMA CountLess ==
  ASSUME NEW S, NEW n, Counts(n, S), NEW p \in S
  PROVE  Counts(n - 1, S \ {p}) /\ (n > 1 <=> S \ {p} # {})
<1>1. PICK f \in [1 .. n -> S] : /\ \A e \in S : \E i \in 1 .. n : f[i] = e
                                 /\ \A i, j \in 1 .. n : f[i] = f[j] => i = j
  BY DEF Counts
<1>2. PICK k \in 1 .. n : f[k] = p
  BY <1>1
<1> DEFINE g == [i \in 1 .. n - 1 |-> IF i < k THEN f[i] ELSE f[i + 1]]
<1>3. n \in Nat /\ n >= 1
  BY <1>2 DEF Counts
<1>4. \A i \in 1 .. n - 1 : g[i] = (IF i < k THEN f[i] ELSE f[i + 1])
  OBVIOUS
<1>5. g \in [1 .. n - 1 -> S \ {p}]
  BY <1>1, <1>2, <1>3
<1> HIDE DEF g
<1>6. ASSUME NEW e \in S \ {p} PROVE \E i \in 1 .. n - 1 : g[i] = e
  <2>1. PICK i \in 1 .. n : f[i] = e
    BY <1>1
  <2>2. CASE i < k
    BY <1>3, <1>4, <2>1, <2>2
  <2>3. CASE i > k
    <3>1. i - 1 \in 1 .. n - 1 /\ ~(i - 1 < k) /\ (i - 1) + 1 = i
      BY <1>3, <2>3
    <3> QED
      BY <1>4, <2>1, <3>1
  <2> QED
    BY <1>2, <2>1, <2>2, <2>3
<1>7. ASSUME NEW i \in 1 .. n - 1, NEW j \in 1 .. n - 1, g[i] = g[j] PROVE i = j
  <2>1. i \in 1 .. n /\ i + 1 \in 1 .. n /\ j \in 1 .. n /\ j + 1 \in 1 .. n
    BY <1>3
  <2>2. CASE i < k /\ j < k
    BY <1>1, <1>4, <1>7, <2>1, <2>2
  <2>3. CASE i < k /\ ~(j < k)
    <3>1. i = j + 1
      BY <1>1, <1>4, <1>7, <2>1, <2>3
    <3> QED
      BY <2>3, <3>1
  <2>4. CASE ~(i < k) /\ j < k
    <3>1. i + 1 = j
      BY <1>1, <1>4, <1>7, <2>1, <2>4
    <3> QED
      BY <2>4, <3>1
  <2>5. CASE ~(i < k) /\ ~(j < k)
    <3>1. i + 1 = j + 1
      BY <1>1, <1>4, <1>7, <2>1, <2>5
    <3> QED
      BY <3>1
  <2> QED
    BY <2>2, <2>3, <2>4, <2>5
<1>8. n > 1 => S \ {p} # {}
  BY <1>3, <1>5
<1>9. S \ {p} # {} => n > 1
  BY <1>3, <1>6
<1>10. n - 1 \in Nat
  BY <1>3
<1> QED
  BY <1>5, <1>6, <1>7, <1>8, <1>9, <1>10, Zenon DEF Counts

(* The references are kept.                                                *)
LEMMA RefStep == PipeType /\ RefInv /\ [PipeNext]_pipevars => RefInv'
<1> SUFFICES ASSUME PipeType, RefInv, [PipeNext]_pipevars PROVE RefInv'
  OBVIOUS
<1> DEFINE Calls ==
             \A p \in Users : /\ ppc[p] \in {"read", "rsleep"} => p \in rfile
                              /\ ppc[p] \in {"write", "wsleep"} => p \in wfile
           Quiet ==
             \A p \in Users : /\ ppc'[p] \in {"read", "rsleep"} => p \in rfile
                              /\ ppc'[p] \in {"write", "wsleep"} => p \in wfile
                              /\ ppc'[p] = "rclose" <=> ppc[p] = "rclose"
                              /\ ppc'[p] = "wclose" <=> ppc[p] = "wclose"
<1>0. Calls /\ ppc \in [Users -> Places]
  BY DEF RefInv, PipeType
<1>1. CASE UNCHANGED pipevars
  BY Zenon, <1>1 DEF RefInv, pipevars, open
<1>2. ASSUME NEW p \in Users, PipeAlloc(p) PROVE RefInv'
  <2>1. Counts(1, {p})
    BY CountOne
  <2>2. \A q \in Users : ppc[q] = "user"
    <3>1. rfile = {} /\ wfile = {} /\ \A q \in Users : ppc[q] # "rclose" /\ ppc[q] # "wclose"
      BY Zenon, <1>2 DEF PipeAlloc, RefInv
    <3> QED
      BY <3>1 DEF RefInv, PipeType, Places
  <2>3. /\ rfile' = {p} /\ wfile' = {p} /\ rref' = 1 /\ wref' = 1 /\ ppc' = ppc
        /\ readopen' = TRUE /\ writeopen' = TRUE /\ freed' = FALSE
    BY <1>2 DEF PipeAlloc
  <2> QED
    BY Zenon, <2>1, <2>2, <2>3 DEF RefInv
<1>3. ASSUME NEW p \in Users, NEW q \in Users, Fork(p, q) PROVE RefInv'
  <2>1. q \notin rfile /\ q \notin wfile /\ Counts(rref, rfile) /\ Counts(wref, wfile)
    BY Zenon, <1>3 DEF Fork, RefInv
  <2>2. Counts(rref + 1, rfile \union {q}) /\ Counts(wref + 1, wfile \union {q})
    BY <2>1, CountMore, Zenon
  <2>3. Counts(rref', rfile') /\ Counts(wref', wfile')
    BY <1>3, <2>1, <2>2 DEF Fork
  <2> QED
    BY Zenon, <1>3, <2>3 DEF RefInv, Fork
<1>4. ASSUME NEW p \in Users, NEW k \in Lengths, Call(p, k) PROVE RefInv'
  <2>1. Quiet /\ UNCHANGED open
    BY <1>0, <1>4 DEF Call
  <2> QED
    BY <2>1, RefQuiet
<1>5. ASSUME NEW p \in Users, CloseWrite(p) PROVE RefInv'
  <2>1. Counts(wref, wfile) /\ p \in wfile
    BY <1>5 DEF CloseWrite, RefInv
  <2>2. Counts(wref - 1, wfile \ {p}) /\ (wref > 1 <=> wfile \ {p} # {})
    BY <2>1, CountLess, Zenon
  <2> QED
    BY <1>5, <2>2 DEF CloseWrite, RefInv, PipeType
<1>6. ASSUME NEW p \in Users, CloseRead(p) PROVE RefInv'
  <2>1. Counts(rref, rfile) /\ p \in rfile
    BY <1>6 DEF CloseRead, RefInv
  <2>2. Counts(rref - 1, rfile \ {p}) /\ (rref > 1 <=> rfile \ {p} # {})
    BY <2>1, CountLess, Zenon
  <2> QED
    BY <1>6, <2>2 DEF CloseRead, RefInv, PipeType
<1>7. ASSUME NEW p \in Users, PipeCloseWrite(p) PROVE RefInv'
  BY <1>7 DEF PipeCloseWrite, RefInv, PipeType, WakeReaders
<1>8. ASSUME NEW p \in Users, PipeCloseRead(p) PROVE RefInv'
  BY <1>8 DEF PipeCloseRead, RefInv, PipeType, WakeWriters
<1>9. ASSUME NEW p \in Users, PipeKill(p) PROVE RefInv'
  <2>1. Quiet /\ UNCHANGED open
    BY <1>0, <1>9 DEF PipeKill
  <2> QED
    BY Zenon, <2>1, RefQuiet
<1>10. ASSUME NEW p \in Users, WriteAll(p) \/ WriteFill(p) \/ WriteFails(p) PROVE RefInv'
  <2>1. UNCHANGED open
    BY Zenon, <1>10 DEF WriteAll, WriteFill, WriteFails
  <2>2. ASSUME WriteAll(p) PROVE Quiet
    BY <1>0, <2>2 DEF WriteAll, WakeReaders
  <2>3. ASSUME WriteFill(p) PROVE Quiet
    BY <1>0, <2>3 DEF WriteFill, WakeReaders
  <2>4. ASSUME WriteFails(p) PROVE Quiet
    BY <1>0, <2>4 DEF WriteFails
  <2> QED
    BY Zenon, <1>10, <2>1, <2>2, <2>3, <2>4, RefQuiet
<1>11. ASSUME NEW p \in Users, ReadSleep(p) \/ ReadFails(p) \/ ReadTake(p) PROVE RefInv'
  <2>1. UNCHANGED open
    BY Zenon, <1>11 DEF ReadSleep, ReadFails, ReadTake
  <2>2. ASSUME ReadSleep(p) \/ ReadFails(p) PROVE Quiet
    BY <1>0, <2>2 DEF ReadSleep, ReadFails
  <2>3. ASSUME ReadTake(p) PROVE Quiet
    BY <1>0, <2>3 DEF ReadTake, WakeWriters
  <2> QED
    BY Zenon, <1>11, <2>1, <2>2, <2>3, RefQuiet
<1> QED
  BY <1>1, <1>2, <1>3, <1>4, <1>5, <1>6, <1>7, <1>8, <1>9, <1>10, <1>11 DEF PipeNext

-----------------------------------------------------------------------------
(* Counters that differ by a multiple of Wrap mean one place.              *)
LEMMA PlaceShift == ASSUME NEW a \in Int, NEW c \in Int PROVE Place(a + c*Wrap) = Place(a)
<1>1. Wrap \in Nat \ {0}
  BY PipeAssumption
<1>2. (a + c*Wrap) % Wrap = a % Wrap
  BY Zenon, <1>1, ModShift
<1> QED
  BY <1>2 DEF Place

(* A counter that has moved on by k, up to the wraps.                      *)
LEMMA Moved == ASSUME NEW a \in Int PROVE \E c \in Int : a % Wrap = a + c*Wrap
<1> DEFINE d == a \div Wrap
<1>1. Wrap \in Nat \ {0}
  BY PipeAssumption
<1>2. d \in Int /\ a = Wrap*d + (a % Wrap) /\ a % Wrap \in Int
  BY <1>1
<1> HIDE DEF d
<1>3. a % Wrap = a + (-d)*Wrap /\ -d \in Int
  BY <1>1, <1>2
<1> QED
  BY <1>3

(* nwrite is Len(stream) ahead of nread, up to the wraps.                  *)
LEMMA Ahead ==
  ASSUME PipeType, RingInv
  PROVE  \E c \in Int : nwrite = nread + Len(stream) + c*Wrap
<1>1. nread \in Int /\ nwrite \in Int /\ Wrap \in Nat
  BY PipeAssumption DEF PipeType
<1>2. PICK c \in Int : (nwrite - nread) % Wrap = (nwrite - nread) + c*Wrap
  <2>1. nwrite - nread \in Int
    BY <1>1
  <2> QED
    BY <2>1, Moved, Zenon
<1>3. nwrite = nread + Len(stream) + (-c)*Wrap /\ -c \in Int
  BY <1>1, <1>2 DEF RingInv, RingIsQueue, Count
<1> QED
  BY <1>3

(* The count of bytes when nwrite is that far ahead.                       *)
LEMMA CountIs ==
  ASSUME NEW r \in Int, NEW w \in Int, NEW l \in 0 .. PIPESIZE, NEW c \in Int, w = r + l + c*Wrap
  PROVE  (w - r) % Wrap = l
<1>1. Wrap \in Nat \ {0} /\ l \in 0 .. Wrap-1
  BY PipeAssumption
<1>2. w - r \in Int /\ w - r = c*Wrap + l
  BY <1>1
<1> QED
  BY <1>1, <1>2, ModIs

(* pipewrite appends the bytes it stores.                                  *)
LEMMA StoreAppends ==
  ASSUME PipeType, RingInv, NEW k \in 0 .. PIPESIZE, k <= Free, NEW bs \in Strings(k), Store(bs),
         UNCHANGED nread
  PROVE  RingInv' /\ Count' = Count + k
<1> DEFINE L == Len(stream)
<1>1. /\ nread \in Int /\ nwrite \in Int /\ Wrap \in Nat /\ PIPESIZE \in Nat /\ L \in Nat
      /\ stream \in Seq(Bytes) /\ Count = L /\ L + k <= PIPESIZE
  BY PipeAssumption DEF PipeType, RingInv, RingIsQueue, Free
<1>2. PICK c \in Int : nwrite = nread + L + c*Wrap
  BY Ahead
<1>3. /\ \A j \in 1 .. k : pdata'[Place(nwrite + j - 1)] = bs[j]
      /\ \A i \in 0 .. PIPESIZE-1 :
           (\A j \in 1 .. k : Place(nwrite + j - 1) # i) => pdata'[i] = pdata[i]
      /\ nwrite' = (nwrite + k) % Wrap /\ nwrite' \in 0 .. Wrap-1
      /\ stream' = stream \o bs /\ bs \in Seq(Bytes) /\ Len(bs) = k
  BY Zenon, StoreIs
<1>4. Len(stream') = L + k
  <2>1. \A u, v \in Seq(Bytes) : Len(u \o v) = Len(u) + Len(v)
    OBVIOUS
  <2> QED
    BY <1>1, <1>3, <2>1, Zenon
<1>8. ASSUME NEW i \in 1 .. L + k PROVE stream'[i] = IF i <= L THEN stream[i] ELSE bs[i - L]
  <2>1. \A u, v \in Seq(Bytes) : \A j \in 1 .. Len(u) + Len(v) :
          (u \o v)[j] = IF j <= Len(u) THEN u[j] ELSE v[j - Len(u)]
    OBVIOUS
  <2> QED
    BY <1>1, <1>3, <2>1, Zenon
<1>5. Count' = L + k
  <2>0. nwrite + k \in Int
    BY <1>1
  <2>1. PICK d \in Int : nwrite' = nwrite + k + d*Wrap
    BY <1>3, <2>0, Moved, Zenon
  <2>2. PICK r \in Int, w \in Int, l \in 0 .. PIPESIZE : r = nread /\ w = nwrite' /\ l = L + k
    <3>1. nwrite' \in Int
      BY <1>1, <1>3
    <3> QED
      BY <1>1, <3>1
  <2>3. c*Wrap + d*Wrap = (c + d)*Wrap /\ c*Wrap \in Int /\ d*Wrap \in Int /\ c + d \in Int
    BY <1>1
  <2>4. w = r + l + (c + d)*Wrap
    BY <1>1, <1>2, <2>1, <2>2, <2>3
  <2>5. (w - r) % Wrap = l
    BY Zenon, <2>3, <2>4, CountIs
  <2> QED
    BY <2>2, <2>5 DEF Count
<1>6. ASSUME NEW j \in Int PROVE Place(nwrite + j - 1) = Place(nread + L + j - 1)
  <2>1. nread + L + j - 1 \in Int /\ nwrite + j - 1 = (nread + L + j - 1) + c*Wrap
    BY <1>1, <1>2
  <2> QED
    BY <2>1, PlaceShift
<1>7. ASSUME NEW i \in 1 .. L + k PROVE stream'[i] = pdata'[Place(nread + i - 1)]
  <2>1. CASE i <= L
    <3>1. ASSUME NEW j \in 1 .. k, Place(nwrite + j - 1) = Place(nread + i - 1) PROVE FALSE
      <4> DEFINE a == nread + L + j - 1
                 b == nread + i - 1
      <4>1. a \in Int /\ b \in Int /\ a # b /\ -PIPESIZE < a - b /\ a - b < PIPESIZE
        BY <1>1, <2>1
      <4>2. Place(a) = Place(b)
        BY <1>6, <3>1
      <4> HIDE DEF a, b
      <4>3. a % PIPESIZE = b % PIPESIZE /\ PIPESIZE \in Nat \ {0}
        BY <4>1, <4>2, PlaceIs, PipeAssumption
      <4> QED
        BY Zenon, <4>1, <4>3, ModSame
    <3>2. nread + i - 1 \in Int
      BY <1>1
    <3>3. Place(nread + i - 1) \in 0 .. PIPESIZE-1
      BY <3>2, PlaceIs
    <3>4. pdata'[Place(nread + i - 1)] = pdata[Place(nread + i - 1)]
      BY Zenon, <1>3, <3>1, <3>3
    <3>5. stream[i] = pdata[Place(nread + i - 1)]
      BY <1>1, <2>1 DEF RingInv, RingIsQueue, Place
    <3> QED
      BY Zenon, <1>8, <2>1, <3>4, <3>5
  <2>2. CASE i > L
    <3>1. i - L \in 1 .. k /\ nread + L + (i - L) - 1 = nread + i - 1
      BY <1>1, <2>2
    <3>2. pdata'[Place(nwrite + (i - L) - 1)] = bs[i - L]
      BY Zenon, <1>3, <3>1
    <3>3. Place(nwrite + (i - L) - 1) = Place(nread + i - 1)
      BY <1>6, <3>1
    <3> QED
      BY <1>1, <1>8, <2>2, <3>2, <3>3
  <2> QED
    BY <1>1, <2>1, <2>2
<1> QED
  BY Zenon, <1>1, <1>4, <1>5, <1>7 DEF RingInv, RingIsQueue, Place

(* piperead takes the bytes that were written first.                       *)
LEMMA TakeRemoves ==
  ASSUME PipeType, RingInv, NEW p \in Users, ReadTake(p)
  PROVE  RingInv'
<1> DEFINE L == Len(stream)
           T == Taken(p)
<1>1. /\ nread \in Int /\ nwrite \in Int /\ Wrap \in Nat /\ PIPESIZE \in Nat /\ L \in 0 .. PIPESIZE
      /\ stream \in Seq(Bytes) /\ Count = L /\ todo[p] \in Nat
  BY PipeAssumption DEF PipeType, RingInv, RingIsQueue
<1>2. T \in 0 .. L
  BY <1>1 DEF Taken
<1>3. /\ nread' = (nread + T) % Wrap /\ stream' = SubSeq(stream, T + 1, L)
      /\ UNCHANGED <<pdata, nwrite>>
  BY DEF ReadTake
<1> HIDE DEF T
<1>4. PICK c \in Int : nwrite = nread + L + c*Wrap
  BY Ahead
<1>5. PICK d \in Int : nread' = nread + T + d*Wrap
  <2>1. nread + T \in Int
    BY <1>1, <1>2
  <2> QED
    BY <1>3, <2>1, Moved, Zenon
<1>6. Len(stream') = L - T /\ \A i \in 1 .. L - T : stream'[i] = stream[T + i]
  BY <1>1, <1>2, <1>3
<1>7. Count' = L - T
  <2>1. PICK r \in Int, w \in Int, l \in 0 .. PIPESIZE : r = nread' /\ w = nwrite /\ l = L - T
    <3>1. nread' \in Int
      <4>1. d*Wrap \in Int /\ T \in Int
        BY <1>1, <1>2
      <4> QED
        BY <1>1, <1>5, <4>1
    <3>2. L - T \in 0 .. PIPESIZE /\ nwrite \in Int
      BY <1>1, <1>2
    <3> QED
      BY <3>1, <3>2, Zenon
  <2>2. c*Wrap - d*Wrap = (c - d)*Wrap /\ c*Wrap \in Int /\ d*Wrap \in Int /\ c - d \in Int
    BY <1>1
  <2>3. w = r + l + (c - d)*Wrap
    BY <1>1, <1>2, <1>4, <1>5, <2>1, <2>2
  <2>4. (w - r) % Wrap = l
    BY Zenon, <2>2, <2>3, CountIs
  <2> QED
    BY <1>3, <2>1, <2>4 DEF Count
<1>8. ASSUME NEW i \in 1 .. L - T PROVE stream'[i] = pdata'[Place(nread' + i - 1)]
  <2>1. stream[T + i] = pdata[Place(nread + (T + i) - 1)]
    <3>1. T + i \in 1 .. L
      BY <1>1, <1>2
    <3> QED
      BY Zenon, <3>1 DEF RingInv, RingIsQueue, Place
  <2>2. nread + (T + i) - 1 \in Int /\ nread' + i - 1 = (nread + (T + i) - 1) + d*Wrap
    BY <1>1, <1>2, <1>5
  <2>3. Place(nread' + i - 1) = Place(nread + (T + i) - 1)
    BY <2>2, PlaceShift
  <2> QED
    BY Zenon, <1>3, <1>6, <2>1, <2>3
<1> QED
  BY <1>1, <1>2, <1>6, <1>7, <1>8 DEF RingInv, RingIsQueue, Place

(* The ring holds the bytes written and not yet read.                      *)
LEMMA RingStep == PipeType /\ RingInv /\ [PipeNext]_pipevars => RingInv'
<1> SUFFICES ASSUME PipeType, RingInv, [PipeNext]_pipevars PROVE RingInv'
  OBVIOUS
<1>1. CASE UNCHANGED <<pipe, stream>>
  BY <1>1 DEF RingInv, RingIsQueue, Count, pipe
<1>2. ASSUME NEW p \in Users, PipeAlloc(p) PROVE RingInv'
  <2>1. (0 - 0) % Wrap = 0 /\ Len(<<>>) = 0 /\ 0 <= PIPESIZE
    BY PipeAssumption
  <2> QED
    BY <1>2, <2>1 DEF PipeAlloc, RingInv, RingIsQueue, Count
<1>3. ASSUME NEW p \in Users, WriteAll(p) \/ WriteFill(p) \/ WriteFails(p) PROVE RingInv'
  <2>1. PICK k \in 0 .. PIPESIZE : k <= Free /\ \E bs \in Strings(k) : Store(bs)
    BY <1>3, WriteStores
  <2>2. UNCHANGED nread
    BY Zenon, <1>3 DEF WriteAll, WriteFill, WriteFails
  <2> QED
    BY <2>1, <2>2, StoreAppends
<1>4. ASSUME NEW p \in Users, ReadTake(p) PROVE RingInv'
  BY <1>4, TakeRemoves
<1>5. CASE ~\E p \in Users : \/ PipeAlloc(p) \/ WriteAll(p) \/ WriteFill(p) \/ WriteFails(p)
                             \/ ReadTake(p)
  <2>1. UNCHANGED <<pipe, stream>>
    BY Zenon, <1>5 DEF PipeNext, pipevars, pipe, Fork, Call, CloseWrite, CloseRead, PipeCloseWrite,
                PipeCloseRead, PipeKill, ReadSleep, ReadFails
  <2> QED
    BY <1>1, <2>1
<1> QED
  BY <1>2, <1>3, <1>4, <1>5

(* Nobody sleeps through a step that ends its wait.                        *)
LEMMA SleepStep ==
  PipeType /\ RefInv /\ RingInv /\ SleepersWait /\ [PipeNext]_pipevars => SleepersWait'
<1> SUFFICES ASSUME PipeType, RefInv, RingInv, SleepersWait, [PipeNext]_pipevars
             PROVE  SleepersWait'
  OBVIOUS
<1>1. CASE UNCHANGED pipevars
  BY Zenon, <1>1 DEF SleepersWait, Count, pipevars, pipe, open
<1>2. ASSUME NEW p \in Users, PipeAlloc(p) PROVE SleepersWait'
  BY Zenon, <1>2 DEF PipeAlloc, SleepersWait, RefInv, PipeType, Places
<1>3. ASSUME NEW p \in Users, NEW q \in Users, Fork(p, q) PROVE SleepersWait'
  BY Zenon, <1>3 DEF Fork, SleepersWait, Count, pipe
<1>4. ASSUME NEW p \in Users, NEW k \in Lengths, Call(p, k) PROVE SleepersWait'
  BY Zenon, <1>4 DEF Call, SleepersWait, Count, pipe, open, PipeType
<1>5. ASSUME NEW p \in Users, CloseWrite(p) \/ CloseRead(p) PROVE SleepersWait'
  BY <1>5 DEF CloseWrite, CloseRead, SleepersWait, Count, pipe, PipeType
<1>6. ASSUME NEW p \in Users, PipeCloseWrite(p) PROVE SleepersWait'
  BY Zenon, <1>6 DEF PipeCloseWrite, WakeReaders, SleepersWait, Count, pipe, PipeType
<1>7. ASSUME NEW p \in Users, PipeCloseRead(p) PROVE SleepersWait'
  BY Zenon, <1>7 DEF PipeCloseRead, WakeWriters, SleepersWait, Count, pipe, PipeType
<1>8. ASSUME NEW p \in Users, PipeKill(p) PROVE SleepersWait'
  BY <1>8 DEF PipeKill, SleepersWait, Count, pipe, open, PipeType
<1>9. ASSUME NEW p \in Users, ReadSleep(p) \/ ReadFails(p) PROVE SleepersWait'
  BY Zenon, <1>9 DEF ReadSleep, ReadFails, SleepersWait, Count, pipe, open, PipeType
<1>10. ASSUME NEW p \in Users, ReadTake(p) PROVE SleepersWait'
  <2>1. ASSUME NEW q \in Users, ppc'[q] = "rsleep" PROVE \E r \in Users : killed[r]
    BY Zenon, <1>10, <2>1 DEF ReadTake, WakeWriters, SleepersWait, PipeType
  <2> QED
    BY Zenon, <1>10, <2>1 DEF ReadTake, WakeWriters, SleepersWait, open, PipeType
<1>11. ASSUME NEW p \in Users, WriteAll(p) \/ WriteFill(p) \/ WriteFails(p) PROVE SleepersWait'
  <2>0. ppc \in [Users -> Places]
    BY DEF PipeType
  <2>1. PICK k \in 0 .. PIPESIZE : /\ k <= Free /\ (~WriteAll(p) => k = Free)
                                   /\ \E bs \in Strings(k) : Store(bs)
    BY <1>11, WriteStores
  <2>2. UNCHANGED <<nread, open, killed>>
    BY Zenon, <1>11 DEF WriteAll, WriteFill, WriteFails
  <2>3. Count' = Count + k /\ RingInv'
    BY <2>1, <2>2, StoreAppends
  <2>4. Free \in 0 .. PIPESIZE /\ Count = PIPESIZE - Free /\ PIPESIZE \in Nat
    BY Room, PipeAssumption DEF Free
  <2>5. ASSUME NEW q \in Users, ppc'[q] = "wsleep" PROVE Count' = PIPESIZE
    <3>1. CASE ppc[q] = "wsleep"
      BY <2>1, <2>3, <2>4, <3>1 DEF SleepersWait
    <3>2. CASE ppc[q] # "wsleep"
      <4>1. ~WriteAll(p)
        BY <2>0, <2>5, <3>2 DEF WriteAll, WakeReaders
      <4> QED
        BY <2>1, <2>3, <2>4, <4>1
    <3> QED
      BY <3>1, <3>2
  <2>6. ASSUME NEW q \in Users, ppc'[q] = "wsleep" PROVE readopen /\ ~killed[q]
    BY Zenon, <1>11, <2>6 DEF WriteAll, WriteFill, WriteFails, WakeReaders, SleepersWait, PipeType
  <2>7. ASSUME NEW q \in Users, ppc'[q] = "rsleep"
        PROVE  writeopen /\ ~killed[q] /\ \E r \in Users : killed[r]
    <3>1. WriteFails(p) /\ ppc[q] = "rsleep"
      BY Zenon, <1>11, <2>7 DEF WriteAll, WriteFill, WriteFails, WakeReaders, PipeType
    <3>2. readopen
      BY <3>1 DEF RefInv
    <3> QED
      BY Zenon, <3>1, <3>2 DEF WriteFails, SleepersWait
  <2> QED
    BY Zenon, <2>2, <2>5, <2>6, <2>7 DEF SleepersWait, open
<1> QED
  BY Zenon, <1>1, <1>2, <1>3, <1>4, <1>5, <1>6, <1>7, <1>8, <1>9, <1>10, <1>11 DEF PipeNext

-----------------------------------------------------------------------------
(* The invariant holds when there is no pipe yet.                          *)
LEMMA PipeInvInit == PipeInit => PipeInv
<1> SUFFICES ASSUME PipeInit PROVE PipeInv
  OBVIOUS
<1>1. /\ (0 - 0) % Wrap = 0 /\ Len(<<>>) = 0 /\ 0 \in 0 .. Wrap-1
      /\ 0 <= PIPESIZE /\ <<>> \in Seq(Bytes)
  BY PipeAssumption
<1>2. Counts(0, {})
  BY CountNone
<1>3. PipeType
  BY Zenon, <1>1 DEF PipeInit, PipeType, Places
<1>4. RefInv
  BY Zenon, <1>2 DEF PipeInit, RefInv
<1>5. RingInv
  BY <1>1 DEF PipeInit, RingInv, RingIsQueue, Count
<1>6. SleepersWait
  BY Zenon DEF PipeInit, SleepersWait
<1> QED
  BY <1>3, <1>4, <1>5, <1>6 DEF PipeInv

(* Every step keeps it.                                                    *)
LEMMA PipeInvStep == PipeInv /\ [PipeNext]_pipevars => PipeInv'
  BY PipeTypeStep, RefStep, RingStep, SleepStep DEF PipeInv

(* pipeclose frees struct pipe when both ends are closed and not before:   *)
(* no process that has a file of the pipe, sleeps in it or is about to     *)
(* close it finds it freed, and it does not outlive its last file.         *)
THEOREM NotFreedCorrect == PipeSpec => []NotFreedInUse
<1>1. PipeInv => NotFreedInUse
  BY Zenon DEF PipeInv, PipeType, Places, RefInv, NotFreedInUse
<1> QED
  BY <1>1, PipeInvInit, PipeInvStep, PTL DEF PipeSpec

(* piperead takes the bytes in the order in which pipewrite stored them,   *)
(* none lost, repeated or overwritten, whatever the counters wrap to.      *)
THEOREM RingCorrect == PipeSpec => []RingIsQueue
<1>1. PipeInv => RingIsQueue
  BY DEF PipeInv, RingInv
<1> QED
  BY <1>1, PipeInvInit, PipeInvStep, PTL DEF PipeSpec

(* No wakeup of pipewrite, piperead and pipeclose is lost: who sleeps has  *)
(* what the loop of the code tests for before it sleeps.                   *)
THEOREM PipeSleepersCorrect == PipeSpec => []SleepersWait
<1>1. PipeInv => SleepersWait
  BY DEF PipeInv
<1> QED
  BY <1>1, PipeInvInit, PipeInvStep, PTL DEF PipeSpec

==============================================================================
