-------------------------------- MODULE Text --------------------------------
(***************************************************************************)
(* The functions on strings, numbers and patterns: string.c and ulib.c,    *)
(* printint and the two printf (printf.c, console.c), the matcher of grep  *)
(* (grep.c), and skipelem (fs.c).  Each loop is a recursion, and is        *)
(* compared with what the function is for on every input of the bounds.    *)
(* A string is in the cells of a memory m and 0 ends it.                   *)
(***************************************************************************)
EXTENDS Integers, Sequences

CONSTANTS MaxMem, Chars,      \* memories of MaxMem cells over Chars (0 is in)
          W,                  \* an int has W values
          MaxFmt, MaxPattern, MaxText, MaxPath, DIRSIZ

VARIABLE job

SE == INSTANCE SequencesExt

UpTo(S, n) == UNION {[1 .. k -> S] : k \in 0 .. n}
Least(S) == CHOOSE x \in S : \A y \in S : x <= y

-----------------------------------------------------------------------------
(* memmove of the kernel, by increasing or by decreasing addresses.        *)
(* Mutant: always by increasing ones.                                      *)
RECURSIVE Forward(_, _, _, _), Backward(_, _, _, _)
Forward(m, d, s, n) == IF n = 0 THEN m ELSE Forward([m EXCEPT ![d] = m[s]], d + 1, s + 1, n - 1)
Backward(m, d, s, n) ==
  IF n = 0 THEN m ELSE Backward([m EXCEPT ![d + n - 1] = m[s + n - 1]], d, s, n - 1)
MemmoveUp(m, d, s, n) == Forward(m, d, s, n)
Memmove(m, d, s, n) == IF s < d /\ s + n > d THEN Backward(m, d, s, n) ELSE Forward(m, d, s, n)

RECURSIVE Memcmp(_, _, _, _)
Memcmp(m, p, q, n) ==
  IF n = 0 THEN 0 ELSE IF m[p] # m[q] THEN m[p] - m[q] ELSE Memcmp(m, p + 1, q + 1, n - 1)

RECURSIVE Strncmp(_, _, _, _)
Strncmp(m, p, q, n) ==
  IF n > 0 /\ (n > 0 => m[p] # 0 /\ m[p] = m[q]) THEN Strncmp(m, p + 1, q + 1, n - 1)
  ELSE IF n = 0 THEN 0 ELSE m[p] - m[q]

(* strncpy: the copy, then the zeros.                                      *)
RECURSIVE Zeros(_, _, _), Strncpy(_, _, _, _)
Zeros(m, s, n) == IF n <= 0 THEN m ELSE Zeros([m EXCEPT ![s] = 0], s + 1, n - 1)
Strncpy(m, s, t, n) ==
  IF n <= 0 THEN m
  ELSE LET c == [m EXCEPT ![s] = m[t]]
       IN IF m[t] = 0 THEN Zeros(c, s + 1, n - 1) ELSE Strncpy(c, s + 1, t + 1, n - 1)

(* safestrcpy; n was decremented before it is tested.                      *)
RECURSIVE SafeLoop(_, _, _, _)
SafeLoop(m, s, t, n) ==
  IF n - 1 <= 0 THEN [m EXCEPT ![s] = 0]
  ELSE LET c == [m EXCEPT ![s] = m[t]]
       IN IF m[t] = 0 THEN [c EXCEPT ![s + 1] = 0] ELSE SafeLoop(c, s + 1, t + 1, n - 1)
Safestrcpy(m, s, t, n) == IF n <= 0 THEN m ELSE SafeLoop(m, s, t, n)

RECURSIVE Strlen(_, _, _), Strchr(_, _, _), Strcmp(_, _, _), Strcpy(_, _, _)
Strlen(m, s, n) == IF m[s + n] = 0 THEN n ELSE Strlen(m, s, n + 1)
Strchr(m, s, c) == IF m[s] = 0 THEN 0 ELSE IF m[s] = c THEN s ELSE Strchr(m, s + 1, c)
Strcmp(m, p, q) == IF m[p] # 0 /\ m[p] = m[q] THEN Strcmp(m, p + 1, q + 1) ELSE m[p] - m[q]
Strcpy(m, s, t) ==
  LET c == [m EXCEPT ![s] = m[t]] IN IF m[t] = 0 THEN c ELSE Strcpy(c, s + 1, t + 1)

-----------------------------------------------------------------------------
(* printint (printf.c) and the one of console.c, least digit first in buf; *)
(* "-" is -1.  x = -xx wraps, as xx does when it is taken as unsigned.     *)
RECURSIVE Digits(_, _)
Digits(x, base) ==
  IF x \div base = 0 THEN <<x % base>> ELSE <<x % base>> \o Digits(x \div base, base)
Reversed(s) == [i \in 1 .. Len(s) |-> s[Len(s) + 1 - i]]

Printint(xx, base, sgn) ==
  LET neg == sgn /\ xx < 0
      x == (IF neg THEN -xx ELSE xx) % W
  IN Reversed(Digits(x, base) \o IF neg THEN <<-1>> ELSE <<>>)

Cprintint(xx, base, sign) ==
  LET minus == IF sign THEN xx < 0 ELSE FALSE
  IN Reversed(Digits((IF minus THEN -xx ELSE xx) % W, base) \o IF minus THEN <<-1>> ELSE <<>>)

RECURSIVE Atoi(_, _)
Atoi(s, n) == IF s = <<>> \/ (s # <<>> => Head(s) < 0) THEN n ELSE Atoi(Tail(s), (n * 10 + Head(s)) % W)

(* What the directive c prints, with the next argument the k-th.           *)
Directive(c, k) ==
  CASE c = "d" -> <<<<"int10", k>>>>
    [] c \in {"x", "p"} -> <<<<"int16", k>>>>
    [] c = "s" -> <<<<"string", k>>>>
    [] c = "%" -> <<<<"%", 0>>>>
    [] OTHER -> <<<<"%", 0>>, <<c, 0>>>>
Takes(c) == IF c \in {"d", "x", "p", "s"} THEN 1 ELSE 0

(* printf, with its state, and cprintf, which takes two characters at "%". *)
RECURSIVE Printf(_, _, _, _)
Printf(fmt, i, state, k) ==
  IF i > Len(fmt) THEN <<>>
  ELSE LET c == fmt[i]
       IN IF state = 0
          THEN (IF c = "%" THEN <<>> ELSE <<<<c, 0>>>>)
               \o Printf(fmt, i + 1, IF c = "%" THEN 1 ELSE 0, k)
          ELSE Directive(c, k) \o Printf(fmt, i + 1, 0, k + Takes(c))

RECURSIVE Cprintf(_, _, _)
Cprintf(fmt, i, k) ==
  IF i > Len(fmt) THEN <<>>
  ELSE IF fmt[i] # "%" THEN <<<<fmt[i], 0>>>> \o Cprintf(fmt, i + 1, k)
  ELSE IF i = Len(fmt) THEN <<>>
  ELSE Directive(fmt[i + 1], k) \o Cprintf(fmt, i + 2, k + Takes(fmt[i + 1]))

-----------------------------------------------------------------------------
(* match, matchhere and matchstar (grep.c), with the places of re and text *)
(* they start at.                                                          *)
RECURSIVE Matchhere(_, _, _, _), Matchstar(_, _, _, _, _)
Matchhere(re, i, text, j) ==
  IF i > Len(re) THEN TRUE
  ELSE IF i < Len(re) /\ (i < Len(re) => re[i + 1] = "*") THEN Matchstar(re[i], re, i + 2, text, j)
  ELSE IF re[i] = "$" /\ i = Len(re) THEN j > Len(text)
  ELSE /\ j <= Len(text) /\ (j <= Len(text) => re[i] = "." \/ re[i] = text[j])
       /\ j <= Len(text) => Matchhere(re, i + 1, text, j + 1)
Matchstar(c, re, i, text, j) ==
  IF Matchhere(re, i, text, j) THEN TRUE
  ELSE IF j > Len(text) THEN FALSE
  ELSE (text[j] = c \/ c = ".") /\ Matchstar(c, re, i, text, j + 1)

Match(re, text) ==
  IF re # <<>> /\ Head(re) = "^" THEN Matchhere(re, 2, text, 1)
  ELSE \E j \in 1 .. Len(text) + 1 : Matchhere(re, 1, text, j)

(* skipelem: the next element of a path, cut at DIRSIZ, and what follows   *)
(* it; and the elements that namex gets by calling it until there is none. *)
RECURSIVE Slashes(_, _), Element(_, _)
Slashes(path, i) == IF i <= Len(path) /\ (i <= Len(path) => path[i] = "/") THEN Slashes(path, i + 1) ELSE i
Element(path, i) == IF i <= Len(path) /\ (i <= Len(path) => path[i] # "/") THEN Element(path, i + 1) ELSE i

RECURSIVE Skipelem(_, _)
Skipelem(path, i) ==
  LET s == Slashes(path, i)
      end == Element(path, s)
      len == IF end - s >= DIRSIZ THEN DIRSIZ ELSE end - s
  IN IF s > Len(path) THEN <<>>
     ELSE <<SubSeq(path, s, s + len - 1)>> \o Skipelem(path, Slashes(path, end))

-----------------------------------------------------------------------------
(* The inputs.                                                             *)
Ints == -(W \div 2) .. W \div 2 - 1
Cells == 1 .. MaxMem
NoJob == [fn |-> "none"]

Jobs ==
  [fn : {"mem"}, m : [Cells -> Chars], d : Cells, s : Cells, n : 0 .. MaxMem]
  \union [fn : {"int"}, xx : Ints, base : {2, 10}, sgn : BOOLEAN]
  \union [fn : {"fmt"}, fmt : UpTo({"%", "d", "s", "o"}, MaxFmt)]
  \union [fn : {"match"}, re : UpTo({"a", ".", "*", "$", "^"}, MaxPattern), text : UpTo({"a", "b"}, MaxText)]
  \union [fn : {"path"}, path : UpTo({"/", "x", "y"}, MaxPath)]

Init == job = NoJob
Next == job = NoJob /\ job' \in Jobs

-----------------------------------------------------------------------------
Zero(m, s) == {i \in s .. MaxMem : m[i] = 0}      \* where a string may end
Length(m, s) == Least(Zero(m, s)) - s
Copied(m, d, s, n) == [i \in Cells |-> IF i \in d .. d + n - 1 THEN m[i - d + s] ELSE m[i]]
Differ(m, p, q, n) == {k \in 0 .. n - 1 : m[p + k] # m[q + k]}
First(S, m, p, q) == IF S = {} THEN 0 ELSE m[p + Least(S)] - m[q + Least(S)]
Smaller(a, b) == IF a < b THEN a ELSE b

(* memmove copies as if through another buffer, whatever overlaps; the     *)
(* compares find the first difference before the end of the strings; a     *)
(* copy of a string writes what strncpy and safestrcpy say in s[0..n-1],   *)
(* and nothing else.                                                       *)
StringsExact ==
  job.fn = "mem" =>
    LET m == job.m
        d == job.d
        s == job.s
        n == job.n
        fit == d + n - 1 <= MaxMem /\ s + n - 1 <= MaxMem
        strings == Zero(m, d) # {} /\ Zero(m, s) # {}
        k == Smaller(n, Length(m, s) + 1)
        apart == d + n <= s \/ s + Length(m, s) < d
        upto == Smaller(Length(m, d), Length(m, s)) + 1
    IN /\ fit => /\ Memmove(m, d, s, n) = Copied(m, d, s, n)
                 /\ Memcmp(m, d, s, n) = First(Differ(m, d, s, n), m, d, s)
       /\ strings =>
            /\ Strncmp(m, d, s, n) = First(Differ(m, d, s, Smaller(n, upto)), m, d, s)
            /\ Strcmp(m, d, s) = First(Differ(m, d, s, upto), m, d, s)
            /\ Strlen(m, s, 0) = Length(m, s)
            /\ \A c \in Chars \ {0} :
                 LET at == {i \in s .. s + Length(m, s) : m[i] = c}
                 IN Strchr(m, s, c) = IF at = {} THEN 0 ELSE Least(at)
       /\ (Zero(m, s) # {} /\ d + n - 1 <= MaxMem /\ (Zero(m, s) # {} => apart)) =>
            /\ Strncpy(m, d, s, n) =
                 [i \in Cells |-> IF i \in d + k .. d + n - 1 THEN 0 ELSE Copied(m, d, s, k)[i]]
            /\ n > Length(m, s) => Strcpy(m, d, s) = Copied(m, d, s, Length(m, s) + 1)
            /\ LET safe == Safestrcpy(m, d, s, n)
                   len == Smaller(n - 1, Length(m, s))
               IN /\ n > 0 => Length(safe, d) = len
                  /\ \A i \in 0 .. len - 1 : safe[d + i] = m[s + i]
                  /\ \A i \in Cells \ (d .. d + n - 1) : safe[i] = m[i]

Value(s, base) ==
  LET V[i \in 0 .. Len(s)] ==
        IF i = 0 THEN 0 ELSE IF s[i] = -1 THEN 0 ELSE V[i - 1] * base + s[i]
  IN IF Head(s) = -1 THEN -V[Len(s)] ELSE V[Len(s)]

(* A printed number has the value of the int, or of the unsigned it is     *)
(* taken for, the most negative one included; it has no leading zero, and  *)
(* atoi reads it back; and the kernel's printf and the programs' (but for  *)
(* "%c", which only theirs has) print the same text with the same          *)
(* arguments.                                                              *)
PrintsExact ==
  /\ job.fn = "int" =>
       LET out == Printint(job.xx, job.base, job.sgn) IN
       /\ Value(out, job.base) = IF job.sgn THEN job.xx ELSE job.xx % W
       /\ Len(out) > 1 => out[1] # 0 /\ (out[1] = -1 => out[2] # 0)
       /\ Cprintint(job.xx, job.base, job.sgn) = out
       /\ (job.base = 10 /\ ~job.sgn) => Atoi(out, 0) = job.xx % W
  /\ job.fn = "fmt" => Printf(job.fmt, 1, 0, 1) = Cprintf(job.fmt, 1, 1)

-----------------------------------------------------------------------------
(* A pattern, from its place i on, as items: each is a character and       *)
(* whether it is starred; a last "$" that is not starred is the end.       *)
RECURSIVE PatternItems(_, _)
PatternItems(re, i) ==
  IF i > Len(re) THEN <<>>
  ELSE IF i < Len(re) /\ (i < Len(re) => re[i + 1] = "*") THEN <<<<re[i], TRUE>>>> \o PatternItems(re, i + 2)
  ELSE <<<<re[i], FALSE>>>> \o PatternItems(re, i + 1)

(* The items match the text from j on: the text can be cut so that each    *)
(* item has a piece of it, which for an item without star is one place.    *)
Cuts(items, text, j) ==
  LET k == Len(items)
      Fits(c, x) == c = "." \/ text[x] = c
      end == k > 0 /\ (k > 0 => items[k] = <<"$", FALSE>>)
  IN \E cut \in [1 .. k + 1 -> j .. Len(text) + 1] :
       /\ cut[1] = j
       /\ \A x \in 1 .. k :
            IF x = k /\ end THEN cut[x] = Len(text) + 1
            ELSE /\ items[x][2] \/ cut[x + 1] = cut[x] + 1
                 /\ cut[x] <= cut[x + 1]
                 /\ \A y \in cut[x] .. cut[x + 1] - 1 : Fits(items[x][1], y)

(* grep finds a pattern where the text can be cut into pieces for its      *)
(* items; and a path is taken apart into the names between its slashes.    *)
PatternsExact ==
  /\ job.fn = "match" =>
       LET anchored == job.re # <<>> /\ (job.re # <<>> => job.re[1] = "^")
           items == PatternItems(job.re, IF anchored THEN 2 ELSE 1)
       IN Match(job.re, job.text) =
            \E j \in 1 .. IF anchored THEN 1 ELSE Len(job.text) + 1 : Cuts(items, job.text, j)
  /\ job.fn = "path" =>
       LET path == job.path
           Starts == {i \in 1 .. Len(path) : path[i] # "/" /\ (i > 1 => path[i - 1] = "/")}
           Ends(i) == {k \in i .. Len(path) : k = Len(path) \/ (k < Len(path) => path[k + 1] = "/")}
           begin == SE!SetToSortSeq(Starts, LAMBDA x, y : x < y)
       IN Skipelem(path, 1) =
            [k \in 1 .. Len(begin) |->
               SubSeq(path, begin[k], Smaller(begin[k] + DIRSIZ - 1, Least(Ends(begin[k]))))]

(* All the functions of this module compute what they are for.             *)
TextExact == StringsExact /\ PrintsExact /\ PatternsExact

=============================================================================
