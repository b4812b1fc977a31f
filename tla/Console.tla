------------------------------- MODULE Console -------------------------------
(***************************************************************************)
(* The input of the console (console.c): consoleintr fills the ring        *)
(* input.buf and edits the line being typed, consoleread takes ended lines *)
(* out of it.  input.lock is held over each key and over a read up to its  *)
(* end or its sleep, so each is one step.                                  *)
(***************************************************************************)
EXTENDS Integers, Sequences

CONSTANTS Readers, Keys,   \* Keys: "nl" (also for \r), "eof" (^D) and others
          Sizes,           \* the n of the reads
          INPUT_BUF, W     \* W: the indices wrap at W (2^32)

VARIABLES buf, r, w, e,    \* struct input
          state, n, dst,   \* per reader: its state, the bytes left, those read
          target, killed

input == <<buf, r, w, e>>
reader == <<state, n, dst, target>>
vars == <<buf, r, w, e, state, n, dst, target, killed>>

Init ==
  /\ buf = [i \in 0 .. INPUT_BUF - 1 |-> "nul"] /\ r = 0 /\ w = 0 /\ e = 0
  /\ state = [p \in Readers |-> "idle"] /\ n = [p \in Readers |-> 0]
  /\ dst = [p \in Readers |-> <<>>] /\ target = [p \in Readers |-> 0]
  /\ killed = [p \in Readers |-> FALSE]

Dec(x) == (x + W - 1) % W
Inc(x) == (x + 1) % W

(* A place outside r .. e-1 of the ring is never read: it is kept as nul.  *)
Ring(b, from, to) ==
  [i \in 0 .. INPUT_BUF - 1 |->
     IF \E k \in 0 .. ((to - from + W) % W) - 1 : (from + k) % INPUT_BUF = i
     THEN b[i] ELSE "nul"]

-----------------------------------------------------------------------------
(* The loop of ^U: how many characters it takes back.                      *)
RECURSIVE KillLine(_, _)
KillLine(end, k) ==
  IF end # w /\ buf[Dec(end) % INPUT_BUF] # "nl" THEN KillLine(Dec(end), k + 1) ELSE k

(* wakeup(&input.r).                                                       *)
Wakeup == state' = [p \in Readers |-> IF state[p] = "sleep" THEN "read" ELSE state[p]]

(* One character of consoleintr.  Mutant: the reader is woken when a line  *)
(* ends, and not when the buffer is full.                                  *)
TypeKeyNewline(c) ==
  /\ (e - r + W) % W < INPUT_BUF
  /\ buf' = [buf EXCEPT ![e % INPUT_BUF] = c]
  /\ e' = Inc(e)
  /\ IF c \in {"nl", "eof"} \/ e' = (r + INPUT_BUF) % W THEN w' = e' ELSE w' = w
  /\ IF c \in {"nl", "eof"} THEN Wakeup ELSE state' = state
  /\ UNCHANGED <<r, n, dst, target, killed>>
TypeKey(c) ==
  /\ (e - r + W) % W < INPUT_BUF
  /\ buf' = [buf EXCEPT ![e % INPUT_BUF] = c]
  /\ e' = Inc(e)
  /\ IF c \in {"nl", "eof"} \/ e' = (r + INPUT_BUF) % W
     THEN w' = e' /\ Wakeup
     ELSE w' = w /\ state' = state
  /\ UNCHANGED <<r, n, dst, target, killed>>

(* ^H, and ^U, of a line that has characters.                              *)
TakeBack(k) ==
  /\ e # w
  /\ e' = (e + W - k) % W
  /\ buf' = Ring(buf, r, e')
  /\ UNCHANGED <<r, w, reader, killed>>

Backspace == TakeBack(1)
KeyU == TakeBack(KillLine(e, 0))

-----------------------------------------------------------------------------
(* The loop of consoleread with input.lock held, from the index at, with   *)
(* left bytes to read: the index and the bytes after it, and whether it    *)
(* ends there or sleeps.  Mutant: a ^D after some bytes is used up.        *)
RECURSIVE ReadLoopEaten(_, _, _, _)
ReadLoopEaten(p, at, left, bytes) ==
  LET c == buf[at % INPUT_BUF]
  IN IF left = 0 THEN [r |-> at, n |-> left, dst |-> bytes, ends |-> TRUE]
     ELSE IF at = w THEN [r |-> at, n |-> left, dst |-> bytes, ends |-> FALSE]
     ELSE IF c = "eof" THEN [r |-> Inc(at), n |-> left, dst |-> bytes, ends |-> TRUE]
     ELSE IF c = "nl"
     THEN [r |-> Inc(at), n |-> left - 1, dst |-> Append(bytes, c), ends |-> TRUE]
     ELSE ReadLoopEaten(p, Inc(at), left - 1, Append(bytes, c))
RECURSIVE ReadLoop(_, _, _, _)
ReadLoop(p, at, left, bytes) ==
  LET c == buf[at % INPUT_BUF]
  IN IF left = 0 THEN [r |-> at, n |-> left, dst |-> bytes, ends |-> TRUE]
     ELSE IF at = w THEN [r |-> at, n |-> left, dst |-> bytes, ends |-> FALSE]
     ELSE IF c = "eof"
     THEN [r |-> IF left < target[p] THEN at ELSE Inc(at), n |-> left,
           dst |-> bytes, ends |-> TRUE]
     ELSE IF c = "nl"
     THEN [r |-> Inc(at), n |-> left - 1, dst |-> Append(bytes, c), ends |-> TRUE]
     ELSE ReadLoop(p, Inc(at), left - 1, Append(bytes, c))

Consoleread(p, size) ==
  /\ state[p] = "idle" /\ ~killed[p]
  /\ state' = [state EXCEPT ![p] = "read"]
  /\ target' = [target EXCEPT ![p] = size] /\ n' = [n EXCEPT ![p] = size]
  /\ dst' = [dst EXCEPT ![p] = <<>>]
  /\ UNCHANGED <<input, killed>>

ReadOn(p) ==
  LET end == ReadLoop(p, r, n[p], dst[p]) IN
  /\ state[p] = "read"
  /\ r' = end.r /\ buf' = Ring(buf, r', e)
  /\ n' = [n EXCEPT ![p] = end.n] /\ dst' = [dst EXCEPT ![p] = end.dst]
  /\ state' = [state EXCEPT ![p] =
       IF end.ends \/ killed[p] THEN "idle" ELSE "sleep"]
  /\ UNCHANGED <<w, e, target, killed>>

(* kill (proc.c): the reader is marked, and woken.                         *)
Kill(p) ==
  /\ ~killed[p] /\ killed' = [killed EXCEPT ![p] = TRUE]
  /\ state' = [state EXCEPT ![p] = IF @ = "sleep" THEN "read" ELSE @]
  /\ UNCHANGED <<input, n, dst, target>>

Next ==
  \/ \E c \in Keys : TypeKey(c)
  \/ Backspace \/ KeyU
  \/ \E p \in Readers : \/ \E size \in Sizes : Consoleread(p, size)
                        \/ ReadOn(p) \/ Kill(p)

Spec == Init /\ [][Next]_vars

-----------------------------------------------------------------------------
Between(from, to) ==
  [i \in 1 .. (to - from + W) % W |-> buf[(from + i - 1) % INPUT_BUF]]

Lines == INSTANCE LineQueue WITH
  Room <- INPUT_BUF,
  cooked <- Between(r, w), editing <- Between(w, e), got <- dst,
  want <- [p \in Readers |-> IF state[p] = "idle" THEN 0 ELSE target[p]]

(* consoleintr and consoleread implement LineQueue: what is in the ring is *)
(* read once and in order, by any number of readers, edits touch only the  *)
(* line being typed, and an end of file met after other bytes is kept for  *)
(* the next read ("Save ^D for next time").                                *)
ImplementsLines == Lines!Spec

(* No reader is left asleep on input.r while there is something to read,   *)
(* or after it was killed.                                                 *)
NoLostLine == \A p \in Readers : state[p] = "sleep" => r = w /\ ~killed[p]

=============================================================================
