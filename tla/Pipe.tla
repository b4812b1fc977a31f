-------------------------------- MODULE Pipe ---------------------------------
(***************************************************************************)
(* A pipe (pipe.c) and the two files that refer to it (file.c).  A pass    *)
(* through pipewrite or piperead holds the pipe's lock from its entry, or  *)
(* from a wakeup, to its return or its next sleep, and is one step; sleep  *)
(* gives up the lock and waits in one step (see BinarySemaphore).          *)
(***************************************************************************)
EXTENDS Integers, Sequences, FiniteSets

CONSTANTS Users,
          Bytes,      \* what a byte may be
          PIPESIZE,   \* 512 in the code
          Wrap,       \* counters are modulo Wrap (2^32 in the code)
          Lengths     \* the byte counts of the calls

ASSUME PipeAssumption ==
  /\ PIPESIZE \in Nat \ {0} /\ Lengths \subseteq Nat
  /\ Wrap \in Nat /\ Wrap > PIPESIZE /\ Wrap % PIPESIZE = 0

VARIABLES pdata, nread, nwrite, readopen, writeopen,   \* struct pipe
          freed,                                      \* there is no pipe: kfree has its page
          rfile, wfile,    \* the processes whose table has the file
          rref, wref,      \* f->ref of the two files
          ppc, todo,        \* each process: where it is, bytes still to move
          killed,
          stream            \* history: the bytes written and not yet read

pipe == <<pdata, nread, nwrite>>
open == <<readopen, writeopen, freed, rfile, wfile, rref, wref>>
pipevars == <<pipe, open, ppc, todo, killed, stream>>

Junk == "junk"    \* what kfree fills a page with

(* No pipe yet.                                                            *)
PipeInit ==
  /\ pdata = [i \in 0 .. PIPESIZE-1 |-> Junk] /\ nread = 0 /\ nwrite = 0
  /\ readopen = FALSE /\ writeopen = FALSE /\ freed = TRUE
  /\ rfile = {} /\ wfile = {} /\ rref = 0 /\ wref = 0
  /\ ppc = [p \in Users |-> "user"] /\ todo = [p \in Users |-> 0]
  /\ killed = [p \in Users |-> FALSE] /\ stream = <<>>

Count == (nwrite - nread) % Wrap
Free == PIPESIZE - Count

(* The processes woken by wakeup(&p->nread) and wakeup(&p->nwrite).        *)
WakeReaders(f) == [p \in Users |-> IF f[p] = "rsleep" THEN "read" ELSE f[p]]
WakeWriters(f) == [p \in Users |-> IF f[p] = "wsleep" THEN "write" ELSE f[p]]

-----------------------------------------------------------------------------
(* pipealloc, which may also fail and then changes nothing; kalloc gives   *)
(* a page of junk.                                                         *)
PipeAlloc(p) ==
  /\ freed /\ ppc[p] = "user" /\ ~killed[p]
  /\ freed' = FALSE /\ readopen' = TRUE /\ writeopen' = TRUE
  /\ nread' = 0 /\ nwrite' = 0 /\ pdata' = [i \in 0 .. PIPESIZE-1 |-> Junk] /\ stream' = <<>>
  /\ rfile' = {p} /\ wfile' = {p} /\ rref' = 1 /\ wref' = 1
  /\ UNCHANGED <<ppc, todo, killed>>

(* fork: the child q gets the files of p (filedup).                        *)
Fork(p, q) ==
  /\ ppc[p] = "user" /\ ~killed[p] /\ q \notin rfile \union wfile /\ ppc[q] = "user" /\ ~killed[q]
  /\ p \in rfile \union wfile
  /\ rfile' = IF p \in rfile THEN rfile \union {q} ELSE rfile
  /\ wfile' = IF p \in wfile THEN wfile \union {q} ELSE wfile
  /\ rref' = IF p \in rfile THEN rref + 1 ELSE rref
  /\ wref' = IF p \in wfile THEN wref + 1 ELSE wref
  /\ UNCHANGED <<pipe, readopen, writeopen, freed, ppc, todo, killed, stream>>

(* fileclose of the end for writing or for reading; the last reference     *)
(* goes on to pipeclose, without the lock of the file table.               *)
CloseWrite(p) ==
  /\ ppc[p] = "user" /\ p \in wfile /\ wfile' = wfile \ {p} /\ wref' = wref - 1
  /\ ppc' = IF wref > 1 THEN ppc ELSE [ppc EXCEPT ![p] = "wclose"]
  /\ UNCHANGED <<pipe, readopen, writeopen, freed, rfile, rref, todo, killed, stream>>

CloseRead(p) ==
  /\ ppc[p] = "user" /\ p \in rfile /\ rfile' = rfile \ {p} /\ rref' = rref - 1
  /\ ppc' = IF rref > 1 THEN ppc ELSE [ppc EXCEPT ![p] = "rclose"]
  /\ UNCHANGED <<pipe, readopen, writeopen, freed, wfile, wref, todo, killed, stream>>

(* pipeclose(p, 1).  Mutant: the page is freed whatever readopen is.       *)
PipeCloseWriteFrees(p) ==
  /\ ppc[p] = "wclose" /\ writeopen' = FALSE /\ freed' = TRUE
  /\ ppc' = WakeReaders([ppc EXCEPT ![p] = "user"])
  /\ UNCHANGED <<pipe, readopen, rfile, wfile, rref, wref, todo, killed, stream>>
PipeCloseWrite(p) ==
  /\ ppc[p] = "wclose" /\ writeopen' = FALSE /\ freed' = ~readopen
  /\ ppc' = WakeReaders([ppc EXCEPT ![p] = "user"])
  /\ UNCHANGED <<pipe, readopen, rfile, wfile, rref, wref, todo, killed, stream>>

(* pipeclose(p, 0)                                                         *)
PipeCloseRead(p) ==
  /\ ppc[p] = "rclose" /\ readopen' = FALSE /\ freed' = ~writeopen
  /\ ppc' = WakeWriters([ppc EXCEPT ![p] = "user"])
  /\ UNCHANGED <<pipe, writeopen, rfile, wfile, rref, wref, todo, killed, stream>>

(* The system calls; trap() lets a killed process only exit (and close).   *)
Call(p, k) ==
  /\ ppc[p] = "user" /\ ~killed[p] /\ todo' = [todo EXCEPT ![p] = k]
  /\ \/ p \in wfile /\ ppc' = [ppc EXCEPT ![p] = "write"]
     \/ p \in rfile /\ ppc' = [ppc EXCEPT ![p] = "read"]
  /\ UNCHANGED <<pipe, open, killed, stream>>

PipeKill(p) ==
  /\ ~killed[p] /\ killed' = [killed EXCEPT ![p] = TRUE]
  /\ ppc' = [ppc EXCEPT ![p] = CASE @ = "rsleep" -> "read" [] @ = "wsleep" -> "write" [] OTHER -> @]
  /\ UNCHANGED <<pipe, open, todo, stream>>

-----------------------------------------------------------------------------
(* Bytes bs, no more than fit, go to the ring in order.                    *)
(* Mutant: the remainder is taken of the place, not of the counter.        *)
StoreClamped(bs) ==
  /\ pdata' = [i \in 0 .. PIPESIZE-1 |->
       LET here == {j \in 1 .. Len(bs) : (nwrite + j - 1) % Wrap = i}
       IN IF here = {} THEN pdata[i] ELSE bs[CHOOSE j \in here : TRUE]]
  /\ nwrite' = (nwrite + Len(bs)) % Wrap
  /\ stream' = stream \o bs
Store(bs) ==
  /\ pdata' = [i \in 0 .. PIPESIZE-1 |->
       LET here == {j \in 1 .. Len(bs) : ((nwrite + j - 1) % Wrap) % PIPESIZE = i}
       IN IF here = {} THEN pdata[i] ELSE bs[CHOOSE j \in here : TRUE]]
  /\ nwrite' = (nwrite + Len(bs)) % Wrap
  /\ stream' = stream \o bs

Strings(k) == [1 .. k -> Bytes]

(* pipewrite, when what is left fits.                                      *)
WriteAll(p) ==
  /\ ppc[p] = "write" /\ todo[p] <= Free
  /\ \E bs \in Strings(todo[p]) : Store(bs)
  /\ ppc' = WakeReaders([ppc EXCEPT ![p] = "user"]) /\ todo' = [todo EXCEPT ![p] = 0]
  /\ UNCHANGED <<nread, open, killed>>

(* pipewrite, when it fills the ring: it sleeps,                           *)
(* Mutant: and does not wake the readers first.                            *)
WriteFillSilent(p) ==
  /\ ppc[p] = "write" /\ todo[p] > Free /\ readopen /\ ~killed[p]
  /\ \E bs \in Strings(Free) : Store(bs)
  /\ ppc' = [ppc EXCEPT ![p] = "wsleep"] /\ todo' = [todo EXCEPT ![p] = @ - Free]
  /\ UNCHANGED <<nread, open, killed>>
WriteFill(p) ==
  /\ ppc[p] = "write" /\ todo[p] > Free /\ readopen /\ ~killed[p]
  /\ \E bs \in Strings(Free) : Store(bs)
  /\ ppc' = [WakeReaders(ppc) EXCEPT ![p] = "wsleep"] /\ todo' = [todo EXCEPT ![p] = @ - Free]
  /\ UNCHANGED <<nread, open, killed>>

(* or returns -1, as nobody will read or as it was killed.                 *)
WriteFails(p) ==
  /\ ppc[p] = "write" /\ todo[p] > Free /\ (~readopen \/ killed[p])
  /\ \E bs \in Strings(Free) : Store(bs)
  /\ ppc' = [ppc EXCEPT ![p] = "user"] /\ todo' = [todo EXCEPT ![p] = 0]
  /\ UNCHANGED <<nread, open, killed>>

-----------------------------------------------------------------------------
(* piperead: nothing to read yet.                                          *)
ReadSleep(p) ==
  /\ ppc[p] = "read" /\ nread = nwrite /\ writeopen /\ ~killed[p]
  /\ ppc' = [ppc EXCEPT ![p] = "rsleep"]
  /\ UNCHANGED <<pipe, open, todo, killed, stream>>

ReadFails(p) ==
  /\ ppc[p] = "read" /\ nread = nwrite /\ writeopen /\ killed[p]
  /\ ppc' = [ppc EXCEPT ![p] = "user"] /\ todo' = [todo EXCEPT ![p] = 0]
  /\ UNCHANGED <<pipe, open, killed, stream>>

(* The bytes there are, up to n; none at the end of the file.              *)
Taken(p) == IF todo[p] < Count THEN todo[p] ELSE Count
ReadTake(p) ==
  /\ ppc[p] = "read" /\ ~(nread = nwrite /\ writeopen)
  /\ nread' = (nread + Taken(p)) % Wrap
  /\ stream' = SubSeq(stream, Taken(p) + 1, Len(stream))
  /\ ppc' = WakeWriters([ppc EXCEPT ![p] = "user"]) /\ todo' = [todo EXCEPT ![p] = 0]
  /\ UNCHANGED <<pdata, nwrite, open, killed>>

PipeNext == \E p \in Users :
  \/ PipeAlloc(p) \/ \E q \in Users : Fork(p, q)
  \/ \E k \in Lengths : Call(p, k)
  \/ CloseWrite(p) \/ CloseRead(p) \/ PipeCloseWrite(p) \/ PipeCloseRead(p) \/ PipeKill(p)
  \/ WriteAll(p) \/ WriteFill(p) \/ WriteFails(p)
  \/ ReadSleep(p) \/ ReadFails(p) \/ ReadTake(p)

PipeSpec == PipeInit /\ [][PipeNext]_pipevars

-----------------------------------------------------------------------------
(* The ring between the two counters holds exactly the bytes written and   *)
(* not yet read, in order, also after the counters have wrapped.           *)
RingIsQueue ==
  /\ Count = Len(stream)
  /\ \A i \in 1 .. Len(stream) : stream[i] = pdata[((nread + i - 1) % Wrap) % PIPESIZE]

(* No process sleeps in pipewrite with room or readopen cleared, none in   *)
(* piperead with writeopen cleared or, unless a process was killed, with   *)
(* bytes to read.  (A killed writer that has filled the ring returns       *)
(* without waking the readers.)                                            *)
SleepersWait ==
  \A p \in Users :
    /\ ppc[p] = "wsleep" => Count = PIPESIZE /\ readopen /\ ~killed[p]
    /\ ppc[p] = "rsleep" => writeopen /\ ~killed[p]
    /\ ppc[p] = "rsleep" => nread = nwrite \/ \E q \in Users : killed[q]

(* The pipe's page is given back when the last file of it is closed and    *)
(* not before: no process has a file of it or is in a call on it, so it is *)
(* not freed twice.                                                        *)
NotFreedInUse ==
  LET used == rfile # {} \/ wfile # {} \/ \E p \in Users : ppc[p] # "user"
  IN freed <=> ~used

==============================================================================
