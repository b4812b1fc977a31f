------------------------------ MODULE LineQueue ------------------------------
(***************************************************************************)
(* What the console promises those who read it: what is typed can be       *)
(* edited until its line is ended, and from then on its characters are     *)
(* read once each and in order; a read ends with the line, with an end of  *)
(* file that it returns alone, or with the bytes asked for.                *)
(***************************************************************************)
EXTENDS Integers, Sequences

CONSTANTS Readers, Keys, Sizes, Room

VARIABLES cooked,    \* the characters of ended lines that were not read yet
          editing,   \* those of the line being typed
          got,       \* per reader: what its read has got so far
          want       \* per reader: the bytes it asked for, 0 when it is done

vars == <<cooked, editing, got, want>>

Init ==
  /\ cooked = <<>> /\ editing = <<>>
  /\ got = [p \in Readers |-> <<>>] /\ want = [p \in Readers |-> 0]

Type(c) ==
  /\ Len(cooked \o editing) < Room
  /\ LET line == Append(editing, c)
         ends == c \in {"nl", "eof"} \/ Len(cooked \o line) = Room
     IN IF ends THEN cooked' = cooked \o line /\ editing' = <<>>
        ELSE cooked' = cooked /\ editing' = line
  /\ UNCHANGED <<got, want>>

Erase(n) ==
  /\ editing' = SubSeq(editing, 1, Len(editing) - n)
  /\ UNCHANGED <<cooked, got, want>>

Ask(p, n) ==
  /\ want[p] = 0 /\ want' = [want EXCEPT ![p] = n] /\ got' = [got EXCEPT ![p] = <<>>]
  /\ UNCHANGED <<cooked, editing>>

(* The read takes k characters and ends, or goes on.                       *)
Take(p, k, ends) ==
  /\ want[p] > 0
  /\ \A i \in 1 .. k : cooked[i] # "eof" /\ (cooked[i] = "nl" => i = k /\ ends)
  /\ got' = [got EXCEPT ![p] = @ \o SubSeq(cooked, 1, k)]
  /\ Len(got'[p]) <= want[p] /\ (Len(got'[p]) = want[p] => ends)
  /\ LET eof == k < Len(cooked) /\ cooked[k + 1] = "eof" /\ got'[p] = <<>>
     IN cooked' = SubSeq(cooked, IF ends /\ eof THEN k + 2 ELSE k + 1, Len(cooked))
  /\ want' = [want EXCEPT ![p] = IF ends THEN 0 ELSE @]
  /\ (ends /\ k < Len(cooked)) =>
        \/ cooked[k + 1] = "eof" \/ Len(got'[p]) = want[p]
        \/ k > 0 /\ cooked[k] = "nl"
  /\ UNCHANGED editing

(* A killed reader gives up while nothing is there.                        *)
GiveUp(p) ==
  /\ want[p] > 0 /\ cooked = <<>>
  /\ want' = [want EXCEPT ![p] = 0] /\ UNCHANGED <<cooked, editing, got>>

Next ==
  \/ \E c \in Keys : Type(c)
  \/ \E n \in 1 .. Len(editing) : Erase(n)
  \/ \E p \in Readers : \/ \E n \in Sizes : Ask(p, n)
                        \/ GiveUp(p)
                        \/ \E k \in 0 .. Len(cooked), ends \in BOOLEAN : Take(p, k, ends)

Spec == Init /\ [][Next]_vars

=============================================================================
