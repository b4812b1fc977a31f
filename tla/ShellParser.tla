----------------------------- MODULE ShellParser -----------------------------
(***************************************************************************)
(* The parser of the shell (sh.c), a recursive descent over the tokens of  *)
(* a line, and Meaning, what a line means by where its separators are.  A  *)
(* token is a symbol or the word "a"; a word is known by its place in the  *)
(* line.  A parser takes the place *ps it starts at, and returns the       *)
(* command and the place after it, which is 0 after panic.                 *)
(***************************************************************************)
EXTENDS Integers, Sequences, FiniteSets

CONSTANTS Tokens, MaxTokens, MAXARGS

VARIABLE line

Exec(argv) == [type |-> "EXEC", argv |-> argv]
Redir(cmd, file, fd) == [type |-> "REDIR", cmd |-> cmd, file |-> file, fd |-> fd]
Pair(type, left, right) == [type |-> type, left |-> left, right |-> right]
Back(cmd) == [type |-> "BACK", cmd |-> cmd]

Panic == [cmd |-> Exec(<<>>), at |-> 0]

(* gettoken, peek: the token at a place, if it is one of toks.             *)
Peek(s, at, toks) == at \in 1 .. Len(s) /\ s[at] \in toks

-----------------------------------------------------------------------------
Target(tok) == IF tok = "<" THEN 0 ELSE 1

RECURSIVE Parseredirs(_, _, _)
Parseredirs(cmd, s, at) ==
  IF ~Peek(s, at, {"<", ">", ">>"}) THEN [cmd |-> cmd, at |-> at]
  ELSE IF ~Peek(s, at + 1, {"a"}) THEN Panic
  ELSE Parseredirs(Redir(cmd, at + 1, Target(s[at])), s, at + 2)

(* execcmd's argv is filled while the redirections around it are read: Put *)
(* adds a word to it.                                                      *)
RECURSIVE Put(_, _)
Put(cmd, word) ==
  IF cmd.type = "EXEC" THEN Exec(Append(cmd.argv, word))
  ELSE [cmd EXCEPT !.cmd = Put(@, word)]

(* The loop of parseexec.                                                  *)
RECURSIVE Parseargs(_, _, _, _)
Parseargs(cmd, argc, s, at) ==
  IF at = 0 THEN Panic
  ELSE IF Peek(s, at, {"|", ")", "&", ";"}) \/ at > Len(s)
  THEN [cmd |-> cmd, at |-> at]
  ELSE IF s[at] # "a" \/ argc + 1 >= MAXARGS THEN Panic
  ELSE LET more == Parseredirs(Put(cmd, at), s, at + 1)
       IN Parseargs(more.cmd, argc + 1, s, more.at)

(* parseline, parsepipe, parseblock and parseexec call one another.        *)
(* Mutant of parseline: "&" is looked for once, not in a loop.             *)
RECURSIVE Parseline(_, _), Parsepipe(_, _), Parseblock(_, _), Parseexec(_, _), Parseback(_, _, _)
ParsebackOnce(cmd, s, at) ==
  IF Peek(s, at, {"&"}) THEN [cmd |-> Back(cmd), at |-> at + 1] ELSE [cmd |-> cmd, at |-> at]
Parseback(cmd, s, at) ==
  IF Peek(s, at, {"&"}) THEN Parseback(Back(cmd), s, at + 1) ELSE [cmd |-> cmd, at |-> at]

Parseline(s, at) ==
  LET first == Parsepipe(s, at)
      left == Parseback(first.cmd, s, first.at)
  IN IF first.at = 0 THEN Panic
     ELSE IF ~Peek(s, left.at, {";"}) THEN left
     ELSE LET right == Parseline(s, left.at + 1)
          IN IF right.at = 0 THEN Panic
             ELSE [cmd |-> Pair("LIST", left.cmd, right.cmd), at |-> right.at]

Parsepipe(s, at) ==
  LET left == Parseexec(s, at)
  IN IF left.at = 0 \/ ~Peek(s, left.at, {"|"}) THEN left
     ELSE LET right == Parsepipe(s, left.at + 1)
          IN IF right.at = 0 THEN Panic
             ELSE [cmd |-> Pair("PIPE", left.cmd, right.cmd), at |-> right.at]

Parseblock(s, at) ==
  LET inner == Parseline(s, at + 1)
  IN IF inner.at # 0 /\ Peek(s, inner.at, {")"}) THEN Parseredirs(inner.cmd, s, inner.at + 1)
     ELSE Panic

Parseexec(s, at) ==
  IF Peek(s, at, {"("}) THEN Parseblock(s, at)
  ELSE LET redirs == Parseredirs(Exec(<<>>), s, at) IN Parseargs(redirs.cmd, 0, s, redirs.at)

(* parsecmd: all of the line must be used.                                 *)
Parsecmd(s) ==
  LET all == Parseline(s, 1) IN IF all.at = Len(s) + 1 THEN all ELSE Panic

-----------------------------------------------------------------------------
(* A line as it is typed, token by token.                                  *)
Init == line = <<>>
Next == Len(line) < MaxTokens /\ \E t \in Tokens : line' = Append(line, t)

-----------------------------------------------------------------------------
(* The reference: the separators of a line that are in no parentheses say  *)
(* what the line from place i to place j - 1 means.  No meaning is <<>>.   *)
Depth(s, i, k) ==
  LET In(t) == {x \in i .. k - 1 : s[x] = t} IN Cardinality(In("(")) - Cardinality(In(")"))

First(s, i, j, t) ==
  LET at == {k \in i .. j - 1 : s[k] = t /\ Depth(s, i, k) = 0}
  IN IF at = {} THEN 0 ELSE CHOOSE k \in at : \A m \in at : k <= m

Both(type, left, right) ==
  IF left = <<>> \/ right = <<>> THEN <<>> ELSE <<Pair(type, left[1], right[1])>>

(* Words and redirections, in any order, around the command cmd.           *)
Wrapped(s, i, j, cmd) ==
  LET Ops == {k \in i .. j - 1 : s[k] \in {"<", ">", ">>"}}
      files == {k + 1 : k \in Ops}
      Wrap[k \in i - 1 .. j - 1] ==
        IF k = i - 1 THEN cmd
        ELSE IF k \in Ops THEN Redir(Wrap[k - 1], k + 1, Target(s[k])) ELSE Wrap[k - 1]
  IN IF \A k \in i .. j - 1 : s[k] = "a" \/ (k \in Ops /\ k + 1 < j /\ s[k + 1] = "a")
     THEN <<Wrap[j - 1]>> ELSE <<>>

Simple(s, i, j) ==
  LET Argument(k) == s[k] = "a" /\ (k > i => s[k - 1] \notin {"<", ">", ">>"})
      Args == SelectSeq([x \in 1 .. j - i |-> i + x - 1], Argument)
  IN IF Len(Args) < MAXARGS THEN Wrapped(s, i, j, Exec(Args)) ELSE <<>>

RECURSIVE MLine(_, _, _), MBack(_, _, _), MPipe(_, _, _), MExec(_, _, _)
MLine(s, i, j) ==
  LET k == First(s, i, j, ";")
  IN IF k = 0 THEN MBack(s, i, j) ELSE Both("LIST", MBack(s, i, k), MLine(s, k + 1, j))
MBack(s, i, j) ==
  IF i < j /\ s[j - 1] = "&"
  THEN LET m == MBack(s, i, j - 1) IN IF m = <<>> THEN <<>> ELSE <<Back(m[1])>>
  ELSE MPipe(s, i, j)
MPipe(s, i, j) ==
  LET k == First(s, i, j, "|")
  IN IF k = 0 THEN MExec(s, i, j) ELSE Both("PIPE", MExec(s, i, k), MPipe(s, k + 1, j))
MExec(s, i, j) ==
  IF i < j /\ s[i] = "("
  THEN LET k == First(s, i + 1, j, ")")
           m == IF k = 0 THEN <<>> ELSE MLine(s, i + 1, k)
       IN IF m = <<>> \/ (\E x \in k + 1 .. j - 1 : s[x] = "a" /\ s[x - 1] \in {"a", ")"})
          THEN <<>> ELSE Wrapped(s, k + 1, j, m[1])
  ELSE Simple(s, i, j)

(* The parser accepts the lines that have a meaning, and builds the        *)
(* command they mean: every word is an argument or a file of its command,  *)
(* ";", "&" and "|" bind in this order, and parentheses group.             *)
ParseExact ==
  LET all == Parsecmd(line)
  IN MLine(line, 1, Len(line) + 1) = IF all.at = 0 THEN <<>> ELSE <<all.cmd>>

=============================================================================
