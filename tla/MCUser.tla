------------------------------- MODULE MCUser --------------------------------
(***************************************************************************)
(* Instance for TLC of what user programs are made of: the counting        *)
(* semaphore, the bounded buffer, the console, the shell and its parser,   *)
(* and the functions on text.  They share no state here: a behaviour is    *)
(* one of one part, chosen in Init.                                        *)
(***************************************************************************)
EXTENDS Semaphore, BoundedBuffer

CONSTANT Readers

VARIABLES part,
          buf, r, w, e, state, n, dst, target, killed,               \* Console
          todo, fds, parent, bg, pipes, copy, typed, failed,         \* Shell
          line,                                                      \* ShellParser
          job                                                        \* Text

Cons == INSTANCE Console WITH
  Keys <- {"a", "nl", "eof"}, Sizes <- {1, 2}, INPUT_BUF <- 2, W <- 4

(* Programs in the lines of the shell: the first of a line puts out bytes, *)
(* as those in parentheses do, the others copy.                            *)
CommandLines ==
  {<<"a", "|", "a", "|", "a">>, <<"a", "|", "a", "|", "a", "|", "a">>,
   <<"a", "&", ";", "a">>, <<"(", "a", ";", "a", ")", "|", "a">>,
   <<"a", "<", "a", "|", "a", "&">>, <<"|">>, <<"a", "(">>, <<"cd", "a">>}
Puts(l, i) == i = 1 \/ (l[1] = "(" /\ i < 5)
Programs ==
  [l \in CommandLines |-> [i \in 1 .. Len(l) |-> IF Puts(l, i) THEN "put" ELSE "cat"]]

Sh == INSTANCE Shell WITH
  NProc <- 6, NOFILE <- 7, NPipes <- 2, Lines <- CommandLines, MaxLines <- 1,
  Program <- Programs, Bytes <- 2, PipeSize <- 1, MAXARGS <- 3, buf <- copy

Parser == INSTANCE ShellParser WITH
  Tokens <- {"a", "|", "&", ";", "<", ">", "(", ")"}, MaxTokens <- 5, MAXARGS <- 3

Txt == INSTANCE Text WITH
  MaxMem <- 4, Chars <- {0, 1, 2}, W <- 32, MaxFmt <- 5, MaxPattern <- 4, MaxText <- 3,
  MaxPath <- 6, DIRSIZ <- 2

consvars == <<buf, r, w, e, state, n, dst, target, killed>>
shvars == <<todo, fds, parent, bg, pipes, copy, typed, failed>>
allvars == <<vars, bbvars, consvars, shvars, line, job, part>>

MCInit ==
  /\ part \in {"semaphore", "buffer", "console", "shell", "parser", "text"}
  /\ Init /\ BBInit /\ Cons!Init /\ Sh!Init /\ Parser!Init /\ Txt!Init

MCNext ==
  /\ part' = part
  /\ \/ part = "semaphore" /\ Next /\ UNCHANGED <<bbvars, consvars, shvars, line, job>>
     \/ part = "buffer" /\ BBNext /\ UNCHANGED <<vars, consvars, shvars, line, job>>
     \/ part = "console" /\ Cons!Next /\ UNCHANGED <<vars, bbvars, shvars, line, job>>
     \/ part = "shell" /\ Sh!Next /\ UNCHANGED <<vars, bbvars, consvars, line, job>>
     \/ part = "parser" /\ Parser!Next /\ UNCHANGED <<vars, bbvars, consvars, shvars, job>>
     \/ part = "text" /\ Txt!Next /\ UNCHANGED <<vars, bbvars, consvars, shvars, line>>
     \/ part # "buffer" /\ UNCHANGED allvars    \* only the buffer may not stop

(* The fairness is that of Shell.                                          *)
ShellRuns == part = "shell" /\ (\E p \in 1 .. 6 : Sh!Step(p))
             /\ UNCHANGED <<part, vars, bbvars, consvars, line, job>>
MCSpec == MCInit /\ [][MCNext]_allvars /\ WF_allvars(ShellRuns)

-----------------------------------------------------------------------------
(* Console: what is typed is read once, in order, line by line.            *)
ImplementsLines ==
  Cons!Lines!Init /\ [][part = "console" => [Cons!Lines!Next]_(Cons!Lines!vars)]_consvars

(* Console: no reader sleeps while there is something to read.             *)
NoLostLine == Cons!NoLostLine

(* Shell: what a line runs in the foreground has ended at the next prompt. *)
ForegroundDone == Sh!ForegroundDone

(* Shell: every line comes to its end.                                     *)
LineEnds == Sh!LineEnds

(* ShellParser: the parser builds what a line means.                       *)
ParseExact == Parser!ParseExact

(* Text: the functions on strings, numbers and patterns, and the two       *)
(* printf, compute what they are for.                                      *)
TextExact == Txt!TextExact

=============================================================================
