------------------------------ MODULE MCKernel -------------------------------
(***************************************************************************)
(* Instance for TLC of the log, of the contents of files, of memory and of *)
(* the process table.  They share no state here: a behaviour is one of one *)
(* part, chosen in Init.                                                   *)
(***************************************************************************)
EXTENDS Log

CONSTANTS Inodes, Files

VARIABLES part,
          used, blk, addrs, size, ip, off, rest, out, writes, panic,    \* FileContent
          state, pid, parent, isthread, threadnum, isjoined, killed, chan,
          tid, nextpid, cur, tpc, np,                                       \* ProcTable
          free, space, sz, kstack, mstate, mparent, hole, leak, mpanic   \* Memory

Content == INSTANCE FileContent WITH
  Procs <- {1, 2}, NBlocks <- 5, BSIZE <- 2, NDIRECT <- 1, NINDIRECT <- 2, MaxChunk <- 2,
  W <- 8, Lengths <- {1, 3, 7}, MaxWrites <- 3

(* bienstein: init only forks and waits, the main thread creates threads,  *)
(* joins them and exits; they leave with thread_exit.  (It may also fork,  *)
(* to have orphans.)                                                       *)
Workers ==
  ({"fork", "wait"} \X {"init"})
  \union ({"fork", "thread_create", "thread_join", "exit"} \X {"main"})
  \union {<<"thread_exit", "thread">>}

Table == INSTANCE ProcTable WITH NProc <- 4, MaxPid <- 5, pc <- tpc, Allowed <- Workers

Mem == INSTANCE Memory WITH
  Procs <- {"p1", "p2"}, None <- "none", NPages <- 12, PGSIZE <- 2, NPTE <- 2, NTab <- 3,
  Sbrks <- {1, 3}, Images <- {1, 3}, W <- 64,
  state <- mstate, parent <- mparent, panic <- mpanic

contentvars == <<used, blk, addrs, size, ip, off, rest, out, writes, panic>>
tablevars == <<state, pid, parent, isthread, threadnum, isjoined, killed, chan,
               tid, nextpid, cur, tpc, np>>
memvars == <<free, space, sz, kstack, mstate, mparent, hole, leak, mpanic>>

MCInit ==
  /\ part \in {"log", "content", "table", "memory"}
  /\ Init /\ Content!Init /\ Table!Init /\ Mem!Init
  (* a part that does not run has one initial state *)
  /\ part # "log" => home = CHOOSE h \in [Sectors -> Data] : TRUE
  /\ part # "log" => logblk = CHOOSE l \in [1 .. LOGSIZE -> Data] : TRUE
  /\ part # "content" => ip = [f \in Files |-> CHOOSE i \in Inodes : TRUE]
  (* which inode is which, and which process is first, does not matter *)
  /\ mstate["p1"] = "runnable"
  /\ ip[CHOOSE f \in Files : TRUE] = CHOOSE i \in Inodes : TRUE

MCNext ==
  /\ part' = part
  /\ \/ part = "log" /\ Next /\ UNCHANGED <<contentvars, tablevars, memvars>>
     \/ part = "content" /\ Content!Next /\ UNCHANGED <<vars, tablevars, memvars>>
     \/ part = "memory" /\ Mem!Next /\ UNCHANGED <<vars, contentvars, tablevars>>
     \/ part = "table" /\ Table!Next /\ UNCHANGED <<vars, contentvars, memvars>>

Ours(A) == part = "table" /\ A

(* The fairness of ProcTable, for the part that runs.                      *)
MCFairness ==
  /\ SF_tablevars(Ours(Table!Dispatch(Table!InitProc)))
  /\ SF_tablevars(Ours(Table!InitLoop))
  /\ WF_tablevars(Ours(\E p \in Table!Slots : Table!Yield(p) \/ Table!JoinReturns(p)))

MCSpec ==
  MCInit /\ [][MCNext]_<<vars, contentvars, tablevars, memvars, part>> /\ MCFairness

-----------------------------------------------------------------------------
(* FileContent: a block belongs to one file at most.                       *)
BlocksOwned == part = "content" => Content!BlocksOwned

(* FileContent: a file is a sequence of bytes.                             *)
ImplementsFile ==
  /\ Content!Abstract!Init
  /\ [][part = "content" => [Content!Abstract!Next]_(Content!Abstract!avars)]_contentvars

(* Memory: a page belongs to one process, or is free.                      *)
PagesOwnedOnce == part = "memory" => Mem!PagesOwnedOnce

(* Memory: what a process may use is mapped.                               *)
SizeMapped == part = "memory" => Mem!SizeMapped

(* ProcTable: threadnum counts the threads that have not exited.           *)
CountExact == part = "table" => Table!CountExact

(* ProcTable: the parent of every process has a thread left to wait.       *)
OrphansToInit == part = "table" => Table!OrphansToInit

(* ProcTable: wait frees zombies only.                                     *)
ReapsZombies == Table!ReapsZombies

(* ProcTable: a child of init that has exited is collected.                *)
InitCollects == Table!InitCollects

=============================================================================
