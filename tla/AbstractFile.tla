---------------------------- MODULE AbstractFile -----------------------------
(***************************************************************************)
(* What readers and writers rely on: a file is a sequence of bytes; a      *)
(* write puts a chunk at the offset of the open file and moves the offset  *)
(* past it, a read returns what is there and moves it past that.           *)
(***************************************************************************)
EXTENDS Integers, Sequences

CONSTANTS Procs, Inodes, Files, MaxChunk, MaxSize

VARIABLES contents, ip, off, out

Init ==
  /\ contents = [i \in Inodes |-> <<>>] /\ ip \in [Files -> Inodes]
  /\ off = [f \in Files |-> 0] /\ out = <<>>

Put(old, at, new) ==
  [k \in 1 .. (IF at + Len(new) > Len(old) THEN at + Len(new) ELSE Len(old)) |->
     IF k \in at + 1 .. at + Len(new) THEN new[k - at] ELSE old[k]]

Write(f, new) ==
  /\ off' = [off EXCEPT ![f] = @ + Len(new)] /\ off'[f] <= MaxSize
  /\ off[f] <= Len(contents[ip[f]])
  /\ contents' = [contents EXCEPT ![ip[f]] = Put(@, off[f], new)]
  /\ out' = <<>> /\ UNCHANGED ip

Read(f, n) ==
  /\ off' = [off EXCEPT ![f] = @ + n] /\ off'[f] <= Len(contents[ip[f]])
  /\ out' = SubSeq(contents[ip[f]], off[f] + 1, off[f] + n) /\ UNCHANGED <<contents, ip>>

(* Nobody has the file any more: it is gone, and a new one opened.         *)
Replace(i) ==
  /\ off' = [f \in Files |-> IF ip[f] = i THEN 0 ELSE off[f]]
  /\ contents' = [contents EXCEPT ![i] = <<>>]
  /\ out' = <<>> /\ UNCHANGED ip

Next ==
  \/ \E f \in Files, c \in Procs, n \in 1 .. MaxChunk : Write(f, [k \in 1 .. n |-> c])
  \/ \E f \in Files, n \in 0 .. MaxSize : Read(f, n)
  \/ \E i \in Inodes : Replace(i)

avars == <<contents, ip, off, out>>

Spec == Init /\ [][Next]_avars

=============================================================================
