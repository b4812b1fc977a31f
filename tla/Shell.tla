-------------------------------- MODULE Shell --------------------------------
(***************************************************************************)
(* What the shell does with a line (sh.c): main forks a process that runs  *)
(* the parsed command, runcmd forks more for lists, pipes and "&", and the *)
(* processes close, dup, wait and exit, each call one step.  A process has *)
(* the calls it still makes in todo.  Process 1 is the shell.              *)
(***************************************************************************)
EXTENDS Integers, Sequences, FiniteSets

CONSTANTS NProc, NOFILE, NPipes,
          Lines, MaxLines,   \* the lines that are typed, and how many of them
          Program,           \* Program(line, place): "put" or "cat"
          Bytes,             \* what a "put" writes
          PipeSize, MAXARGS

VARIABLES todo,     \* per process: a sequence of calls; <<>> when it is free
          fds,      \* per process: what its descriptors are open on
          parent,   \* per process: its parent, 0 for init
          bg,       \* per process: it runs below an "&"
          pipes,    \* per pipe: the bytes in it
          buf,      \* per process: its copy of the shell's buf
          typed, failed

vars == <<todo, fds, parent, bg, pipes, buf, typed, failed>>

P == INSTANCE ShellParser WITH Tokens <- {}, MaxTokens <- 0, line <- buf[1]

Procs == 1 .. NProc
FD == 0 .. NOFILE - 1
Free == <<"free", 0>>
File == <<"file", 0>>
ReadEnd(k) == <<"read", k>>
WriteEnd(k) == <<"write", k>>

Op(name) == [op |-> name]
OnFd(name, fd) == [op |-> name, fd |-> fd]
Run(cmd) == [op |-> "run", cmd |-> cmd]
Fork(calls, back) == [op |-> "fork", calls |-> calls, bg |-> back]

Init ==
  /\ todo = [p \in Procs |-> IF p = 1 THEN <<Op("getcmd")>> ELSE <<>>]
  /\ fds = [p \in Procs |-> [d \in FD |-> IF p = 1 /\ d <= 2 THEN File ELSE Free]]
  /\ parent = [p \in Procs |-> 0] /\ bg = [p \in Procs |-> FALSE]
  /\ pipes = [k \in 1 .. NPipes |-> 0] /\ buf = [p \in Procs |-> <<>>] /\ typed = 0 /\ failed = FALSE

Is(p, name) == todo[p] # <<>> /\ Head(todo[p]).op = name
Then(p, calls) == todo' = [todo EXCEPT ![p] = calls]
Open(end) == \E p \in Procs, d \in FD : fds[p][d] = end

Least(S) == CHOOSE x \in S : \A y \in S : x <= y
FreeFds(p) == {d \in FD : fds[p][d] = Free}
FreePipes == {k \in 1 .. NPipes : ~Open(ReadEnd(k)) /\ ~Open(WriteEnd(k))}

-----------------------------------------------------------------------------
(* main: a line is read and a child is forked, which parses it (it has     *)
(* nothing else to read, so that the parse is put here) and runs it.  "cd" *)
(* is done in the shell itself.                                            *)
Getcmd(l) ==
  /\ Is(1, "getcmd") /\ typed < MaxLines
  /\ buf' = [buf EXCEPT ![1] = l] /\ typed' = typed + 1
  /\ LET all == P!Parsecmd(l)
         child == IF all.at = 0 THEN <<Op("exit")>> ELSE <<Run(all.cmd)>>
     IN Then(1, IF Len(l) > 1 /\ l[1] = "cd" THEN <<Op("getcmd")>>
                ELSE <<Fork(child, FALSE), Op("wait"), Op("getcmd")>>)
  /\ UNCHANGED <<fds, parent, bg, pipes, failed>>

(* getcmd at the end of the input: the shell exits.                        *)
Eof ==
  /\ Is(1, "getcmd") /\ Then(1, <<Op("exit")>>)
  /\ UNCHANGED <<fds, parent, bg, pipes, buf, typed, failed>>

(* runcmd, but for a pipe; exec may fail.                                  *)
Runcmd(p) ==
  /\ Is(p, "run")
  /\ LET cmd == Head(todo[p]).cmd IN
     /\ cmd.type # "PIPE"
     /\ \/ Then(p, <<Op("exit")>>) /\ cmd.type = "EXEC"
        \/ cmd.type = "EXEC" /\ cmd.argv # <<>> /\
           Then(p, <<[op |-> Program[buf[p]][cmd.argv[1]], left |-> Bytes]>>)
        \/ cmd.type # "EXEC" /\
           Then(p, CASE cmd.type = "REDIR" -> <<OnFd("close", cmd.fd), Op("open"), Run(cmd.cmd)>>
                     [] cmd.type = "LIST" ->
                          <<Fork(<<Run(cmd.left)>>, FALSE), Op("wait"), Run(cmd.right)>>
                     [] cmd.type = "BACK" -> <<Fork(<<Run(cmd.cmd)>>, TRUE), Op("exit")>>)
  /\ UNCHANGED <<fds, parent, bg, pipes, buf, typed, failed>>

(* runcmd of a pipe: pipe(p), and what is done with its ends r and w.      *)
(* Mutants: it waits for one child; it keeps its end to write.             *)
PipeCallsOne(r, w, cmd) ==
  LET Child(fd, end, side) ==
        Fork(<<OnFd("close", fd), OnFd("dup", end), OnFd("close", r), OnFd("close", w),
               Run(side)>>, FALSE)
  IN <<Child(1, w, cmd.left), Child(0, r, cmd.right), OnFd("close", r), OnFd("close", w),
       Op("wait"), Op("exit")>>
PipeCallsKept(r, w, cmd) ==
  LET Child(fd, end, side) ==
        Fork(<<OnFd("close", fd), OnFd("dup", end), OnFd("close", r), OnFd("close", w),
               Run(side)>>, FALSE)
  IN <<Child(1, w, cmd.left), Child(0, r, cmd.right), OnFd("close", r),
       Op("wait"), Op("wait"), Op("exit")>>
PipeCalls(r, w, cmd) ==
  LET Child(fd, end, side) ==
        Fork(<<OnFd("close", fd), OnFd("dup", end), OnFd("close", r), OnFd("close", w),
               Run(side)>>, FALSE)
  IN <<Child(1, w, cmd.left), Child(0, r, cmd.right), OnFd("close", r), OnFd("close", w),
       Op("wait"), Op("wait"), Op("exit")>>

Pipe(p) ==
  /\ Is(p, "run") /\ Head(todo[p]).cmd.type = "PIPE"
  /\ IF FreePipes # {} /\ Cardinality(FreeFds(p)) >= 2
     THEN LET k == Least(FreePipes)
              r == Least(FreeFds(p))
              w == Least(FreeFds(p) \ {r})
          IN /\ fds' = [fds EXCEPT ![p] = [@ EXCEPT ![r] = ReadEnd(k), ![w] = WriteEnd(k)]]
             /\ pipes' = [pipes EXCEPT ![k] = 0]
             /\ Then(p, PipeCalls(r, w, Head(todo[p]).cmd))
             /\ UNCHANGED failed
     ELSE Then(p, <<Op("exit")>>) /\ failed' = TRUE /\ UNCHANGED <<fds, pipes>>
  /\ UNCHANGED <<parent, bg, buf, typed>>

(* fork1: the child has the descriptors; without a free process it panics. *)
Fork1(p) ==
  /\ Is(p, "fork")
  /\ LET free == {q \in Procs : todo[q] = <<>>}
         q == Least(free)
     IN IF free = {}
        THEN Then(p, <<Op("exit")>>) /\ failed' = TRUE /\ UNCHANGED <<fds, parent, bg, buf>>
        ELSE /\ todo' = [todo EXCEPT ![p] = Tail(@), ![q] = Head(todo[p]).calls]
             /\ fds' = [fds EXCEPT ![q] = fds[p]]
             /\ buf' = [buf EXCEPT ![q] = buf[p]]
             /\ parent' = [parent EXCEPT ![q] = p]
             /\ bg' = [bg EXCEPT ![q] = bg[p] \/ Head(todo[p]).bg]
             /\ UNCHANGED failed
  /\ UNCHANGED <<pipes, typed>>

Close(p) ==
  /\ Is(p, "close")
  /\ fds' = [fds EXCEPT ![p][Head(todo[p]).fd] = Free] /\ Then(p, Tail(todo[p]))
  /\ UNCHANGED <<parent, bg, pipes, buf, typed, failed>>

Dup(p) ==
  /\ Is(p, "dup")
  /\ fds' = [fds EXCEPT ![p][Least(FreeFds(p))] = fds[p][Head(todo[p]).fd]]
  /\ Then(p, Tail(todo[p]))
  /\ UNCHANGED <<parent, bg, pipes, buf, typed, failed>>

(* open of a redirection, which may fail.                                  *)
OpenRedir(p) ==
  /\ Is(p, "open")
  /\ \/ fds' = [fds EXCEPT ![p][Least(FreeFds(p))] = File] /\ Then(p, Tail(todo[p]))
     \/ UNCHANGED fds /\ Then(p, <<Op("exit")>>)
  /\ UNCHANGED <<parent, bg, pipes, buf, typed, failed>>

(* exit: init waits for the orphans, so that one that ends, or has ended,  *)
(* is free.                                                                *)
Zombie(p) == Is(p, "zombie")
Exit(p) ==
  /\ Is(p, "exit")
  /\ todo' = [q \in Procs |->
       IF q = p THEN IF parent[p] = 0 THEN <<>> ELSE <<Op("zombie")>>
       ELSE IF parent[q] = p /\ Zombie(q) THEN <<>> ELSE todo[q]]
  /\ parent' = [q \in Procs |-> IF parent[q] = p THEN 0 ELSE parent[q]]
  /\ fds' = [fds EXCEPT ![p] = [d \in FD |-> Free]] /\ buf' = [buf EXCEPT ![p] = <<>>]
  /\ bg' = [q \in Procs |-> bg[q] /\ todo'[q] # <<>>]
  /\ UNCHANGED <<pipes, typed, failed>>

(* wait: a child that has ended is freed; without children it fails.       *)
Wait(p) ==
  /\ Is(p, "wait")
  /\ LET kids == {q \in Procs : parent[q] = p /\ todo[q] # <<>>}
     IN \/ /\ kids = {} /\ Then(p, Tail(todo[p])) /\ UNCHANGED parent
        \/ \E q \in kids :
             /\ Zombie(q) /\ todo' = [todo EXCEPT ![p] = Tail(@), ![q] = <<>>]
             /\ parent' = [parent EXCEPT ![q] = 0]
  /\ bg' = [q \in Procs |-> bg[q] /\ todo'[q] # <<>>]
  /\ UNCHANGED <<fds, pipes, buf, typed, failed>>

-----------------------------------------------------------------------------
(* The programs: "put" writes some bytes, "cat" copies its input up to the *)
(* end of it.  A file and the console have nothing to read and take every  *)
(* byte.                                                                   *)
Writes(p, rest) ==
  LET end == fds[p][1] IN
  \/ end = File /\ Then(p, rest) /\ UNCHANGED pipes
  \/ /\ end # File /\ Open(ReadEnd(end[2])) /\ pipes[end[2]] < PipeSize
     /\ pipes' = [pipes EXCEPT ![end[2]] = @ + 1] /\ Then(p, rest)
  \/ /\ end # File /\ ~Open(ReadEnd(end[2]))
     /\ Then(p, <<Op("exit")>>) /\ UNCHANGED pipes

PutByte(p) ==
  /\ Is(p, "put") \/ Is(p, "copy")
  /\ LET left == Head(todo[p]).left - 1
     IN Writes(p, IF Is(p, "copy") THEN <<[op |-> "cat", left |-> Bytes]>>
                  ELSE IF left = 0 THEN <<Op("exit")>>
                  ELSE <<[op |-> "put", left |-> left]>>)
  /\ UNCHANGED <<fds, parent, bg, buf, typed, failed>>

GetByte(p) ==
  /\ Is(p, "cat")
  /\ LET end == fds[p][0] IN
     \/ /\ end = File \/ (end # File /\ pipes[end[2]] = 0 /\ ~Open(WriteEnd(end[2])))
        /\ Then(p, <<Op("exit")>>) /\ UNCHANGED pipes
     \/ /\ end # File /\ pipes[end[2]] > 0
        /\ pipes' = [pipes EXCEPT ![end[2]] = @ - 1]
        /\ Then(p, <<[op |-> "copy", left |-> Bytes]>>)
  /\ UNCHANGED <<fds, parent, bg, buf, typed, failed>>

Step(p) ==
  \/ Runcmd(p) \/ Pipe(p) \/ Fork1(p) \/ Close(p) \/ Dup(p) \/ OpenRedir(p)
  \/ Exit(p) \/ Wait(p) \/ PutByte(p) \/ GetByte(p)

Next == (\E l \in Lines : Getcmd(l)) \/ Eof \/ (\E p \in Procs : Step(p))

(* A process that can run is run, and the processes of a line make finitely *)
(* many calls, so that it is enough that some process goes on.             *)
Spec == Init /\ [][Next]_vars /\ WF_vars(\E p \in Procs : Step(p))

-----------------------------------------------------------------------------
(* When the shell prompts again, what it ran in the foreground has ended:  *)
(* the processes left run below an "&", unless a fork or a pipe failed.    *)
ForegroundDone ==
  Is(1, "getcmd") /\ ~failed => \A p \in Procs \ {1} : todo[p] = <<>> \/ bg[p]

(* Every line comes to its end: the shell prompts again (or has exited,    *)
(* when it could not fork), no reader of a pipe waits for a writer that is *)
(* only an end somebody forgot to close, and no writer for such a reader.  *)
LineEnds == []<>(\A p \in Procs : todo[p] = <<>> \/ (p = 1 /\ Is(1, "getcmd")))

=============================================================================
