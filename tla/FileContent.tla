---------------------------- MODULE FileContent ------------------------------
(***************************************************************************)
(* The blocks of files: balloc and bfree, bmap with its indirect block,    *)
(* itrunc, readi and writei (fs.c), and the offsets that fileread and      *)
(* filewrite (file.c) keep in an open file shared by processes.  An inode  *)
(* is locked during readi and writei, and only one process at a time is in *)
(* a transaction, so each of them is one step; filewrite takes one step    *)
(* for every chunk.  Byte counts are unsigned numbers below W.             *)
(***************************************************************************)
EXTENDS Integers, Sequences, FiniteSets, FiniteSetsExt

CONSTANTS Procs,               \* a process writes its own number
          Inodes, Files,
          NBlocks,             \* data blocks of the disk are 1 .. NBlocks
          BSIZE,               \* bytes in a block
          NDIRECT, NINDIRECT,  \* blocks an inode, its indirect block list
          MaxChunk,            \* bytes that filewrite writes at a time
          W,                   \* unsigned arithmetic is modulo W
          Lengths,             \* the byte counts of the calls, below W
          MaxWrites            \* calls of filewrite

VARIABLES used,          \* the bitmap
          blk,           \* contents of the blocks: bytes or block numbers
          addrs, size,   \* of the inodes
          ip, off,       \* of the open files
          rest,          \* each process: what its filewrite has still to write
          out,           \* what fileread returns in this step
          writes,        \* calls of filewrite so far
          panic          \* balloc has found no block

vars == <<used, blk, addrs, size, ip, off, rest, out, writes, panic>>

MAXFILE == NDIRECT + NINDIRECT
Blocks == 1 .. NBlocks
Empty == [a \in 0 .. NDIRECT |-> 0]
Zeroes == [k \in 0 .. BSIZE - 1 |-> 0]

(* What is on a free block does not matter, but it need not be zero.       *)
Junk == [k \in 0 .. BSIZE - 1 |-> 1]

Init ==
  /\ used = {} /\ blk = [b \in Blocks |-> Junk]
  /\ addrs = [i \in Inodes |-> Empty] /\ size = [i \in Inodes |-> 0]
  /\ ip \in [Files -> Inodes] /\ off = [f \in Files |-> 0]
  /\ rest = [p \in Procs |-> [n |-> 0]] /\ out = <<>>
  /\ writes = 0 /\ panic = FALSE

-----------------------------------------------------------------------------
(* d is the disk and the inode that is locked: [used, blk, addrs, ok], ok  *)
(* unless balloc has panicked.                                             *)
(* balloc, with bzero.  Mutant: without.                                   *)
BallocDirty(d) ==
  LET b == Min(Blocks \ d.used)
  IN IF Blocks \subseteq d.used THEN [d EXCEPT !.ok = FALSE] ELSE [d EXCEPT !.used = @ \union {b}]
Balloc(d) ==
  LET b == Min(Blocks \ d.used)
  IN IF Blocks \subseteq d.used THEN [d EXCEPT !.ok = FALSE]
     ELSE [d EXCEPT !.used = @ \union {b}, !.blk[b] = Zeroes]
(* The block it takes.                                                     *)
Taken(d) == Min(Blocks \ d.used)

(* bmap: d with block bn of the file allocated, its address in d.at.       *)
(* The block list is in the inode, then in the indirect block.             *)
BmapDirect(d, bn) ==
  IF d.addrs[bn] # 0 THEN [d EXCEPT !.at = d.addrs[bn]]
  ELSE LET e == Balloc(d)
       IN IF ~e.ok THEN e ELSE [e EXCEPT !.addrs[bn] = Taken(d), !.at = Taken(d)]

BmapIndirect(d, k) ==
  LET e == IF d.addrs[NDIRECT] # 0 THEN d ELSE BmapDirect(d, NDIRECT)
      ind == e.addrs[NDIRECT]
  IN IF ~e.ok THEN e
     ELSE IF e.blk[ind][k] # 0 THEN [e EXCEPT !.at = e.blk[ind][k]]
     ELSE LET g == Balloc(e)
          IN IF ~g.ok THEN g ELSE [g EXCEPT !.blk[ind][k] = Taken(e), !.at = Taken(e)]

Bmap(d, bn) == IF bn < NDIRECT THEN BmapDirect(d, bn) ELSE BmapIndirect(d, bn - NDIRECT)

(* The blocks of a file, with its indirect block.                          *)
Listed(i) ==
  LET ind == addrs[i][NDIRECT]
  IN ({addrs[i][a] : a \in 0 .. NDIRECT} \union
      (IF ind = 0 THEN {} ELSE {blk[ind][k] : k \in 0 .. NINDIRECT - 1})) \ {0}

CutShort(a, b) == IF a < b THEN a ELSE b

(* The loop of writei, a turn for every block that n bytes at o touch.     *)
RECURSIVE WriteLoop(_, _, _, _)
WriteLoop(d, c, o, n) ==
  IF n = 0 \/ ~d.ok THEN d
  ELSE LET e == Bmap(d, o \div BSIZE)
           m == CutShort(n, BSIZE - (o % BSIZE))
           at == e.at
       IN IF ~e.ok THEN e
          ELSE WriteLoop([e EXCEPT !.blk[at] = [k \in 0 .. BSIZE - 1 |->
                            IF k \in (o % BSIZE) .. (o % BSIZE) + m - 1 THEN c ELSE @[k]]],
                         c, o + m, n - m)

(* writei refuses.                                                         *)
WriteRefused(i, o, n) ==
  o > size[i] \/ (o + n) % W < o \/ (o + n) % W > MAXFILE * BSIZE

(* The loop of readi: the n bytes at o.                                    *)
RECURSIVE ReadLoop(_, _, _)
ReadLoop(i, o, n) ==
  IF n = 0 THEN <<>>
  ELSE LET bn == o \div BSIZE
           at == IF bn < NDIRECT THEN addrs[i][bn] ELSE blk[addrs[i][NDIRECT]][bn - NDIRECT]
           m == CutShort(n, BSIZE - (o % BSIZE))
       IN [k \in 1 .. m |-> blk[at][(o % BSIZE) + k - 1]] \o ReadLoop(i, o + m, n - m)

ReadRefused(i, o, n) == o > size[i] \/ (o + n) % W < o
(* The bytes there are to read.                                            *)
ReadLen(i, o, n) == IF o + n > size[i] THEN size[i] - o ELSE n

-----------------------------------------------------------------------------
(* filewrite is called.                                                    *)
Filewrite(p, f, n) ==
  /\ ~panic /\ rest[p].n = 0 /\ writes < MaxWrites /\ writes' = writes + 1
  /\ rest' = [rest EXCEPT ![p] = [f |-> f, n |-> n]]
  /\ UNCHANGED <<used, blk, addrs, size, ip, off, out, panic>>

(* One turn of its loop, in a transaction.                                 *)
WriteChunk(p) ==
  /\ ~panic /\ rest[p].n > 0
  /\ LET f == rest[p].f  i == ip[f]  n1 == CutShort(rest[p].n, MaxChunk)
         d == WriteLoop([used |-> used, blk |-> blk, addrs |-> addrs[i], ok |-> TRUE, at |-> 0],
                        p, off[f], n1)
     IN IF WriteRefused(i, off[f], n1)
        THEN /\ rest' = [rest EXCEPT ![p] = [n |-> 0]]
             /\ UNCHANGED <<used, blk, addrs, size, off, panic>>
        ELSE IF ~d.ok
        THEN panic' = TRUE /\ UNCHANGED <<used, blk, addrs, size, off, rest>>
        ELSE /\ used' = d.used /\ blk' = d.blk /\ addrs' = [addrs EXCEPT ![i] = d.addrs]
             /\ size' = [size EXCEPT ![i] = Max({@, off[f] + n1})]
             /\ off' = [off EXCEPT ![f] = @ + n1]
             /\ rest' = [rest EXCEPT ![p] = IF rest[p].n = n1 THEN [n |-> 0] ELSE [@ EXCEPT !.n = @ - n1]]
             /\ UNCHANGED panic
  /\ out' = <<>> /\ UNCHANGED <<ip, writes>>

(* fileread.                                                               *)
Fileread(p, f, n) ==
  /\ ~panic /\ rest[p].n = 0 /\ ~ReadRefused(ip[f], off[f], n)
  /\ LET m == ReadLen(ip[f], off[f], n) IN
     /\ out' = ReadLoop(ip[f], off[f], m)
     /\ off' = [off EXCEPT ![f] = @ + m]
  /\ UNCHANGED <<used, blk, addrs, size, ip, rest, writes, panic>>

(* itrunc of an inode that no process has, bfree of each of its blocks;    *)
(* then the number is used again, and opened.                              *)
(* Mutant: the blocks that the indirect block lists are forgotten.         *)
ItruncDirect(i) ==
  /\ ~panic /\ size[i] > 0 /\ \A p \in Procs : rest[p].n > 0 => ip[rest[p].f] # i
  /\ used' = used \ {addrs[i][a] : a \in 0 .. NDIRECT}
  /\ addrs' = [addrs EXCEPT ![i] = Empty] /\ size' = [size EXCEPT ![i] = 0]
  /\ off' = [f \in Files |-> IF ip[f] = i THEN 0 ELSE off[f]]
  /\ out' = <<>> /\ UNCHANGED <<blk, ip, rest, writes, panic>>
Itrunc(i) ==
  /\ ~panic /\ size[i] > 0 /\ \A p \in Procs : rest[p].n > 0 => ip[rest[p].f] # i
  /\ used' = used \ Listed(i)
  /\ addrs' = [addrs EXCEPT ![i] = Empty] /\ size' = [size EXCEPT ![i] = 0]
  /\ off' = [f \in Files |-> IF ip[f] = i THEN 0 ELSE off[f]]
  /\ blk' = [b \in Blocks |-> IF b \in Listed(i) THEN Junk ELSE blk[b]]
  /\ out' = <<>> /\ UNCHANGED <<ip, rest, writes, panic>>

Next ==
  \/ \E p \in Procs, f \in Files, n \in Lengths : Filewrite(p, f, n)
  \/ \E p \in Procs : WriteChunk(p)
  \/ \E p \in Procs, f \in Files, n \in Lengths : Fileread(p, f, n)
  \/ \E i \in Inodes : Itrunc(i)
  \/ panic /\ UNCHANGED vars

Spec == Init /\ [][Next]_vars

-----------------------------------------------------------------------------
(* A block belongs to one file at most, and is marked used exactly while   *)
(* it does: none is lost, given out twice or freed twice.                  *)
BlocksOwned ==
  /\ used = UNION {Listed(i) : i \in Inodes}
  /\ \A i, j \in Inodes : i # j => Listed(i) \intersect Listed(j) = {}

(* The contents of a file.                                                 *)
Contents(i) == ReadLoop(i, 0, size[i])

Abstract == INSTANCE AbstractFile WITH
  contents <- [i \in Inodes |-> Contents(i)], MaxSize <- MAXFILE * BSIZE

(* A file is a sequence of bytes, whichever blocks and indirect block they *)
(* are in, and no byte of a writer that shares the offset is lost: readi,  *)
(* writei and the offsets implement AbstractFile.                          *)
ImplementsFile == Abstract!Spec

=============================================================================
