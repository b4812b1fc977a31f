----------------------------- MODULE MCProcesses -----------------------------
(***************************************************************************)
(* Instance for TLC of what processes do to the tables of the kernel by    *)
(* their system calls: the process table, under any program, and the       *)
(* inodes and files.  A behaviour is one of one of the two, chosen in Init.*)
(***************************************************************************)
EXTENDS MCProcTable, FileCalls, TLC

CONSTANTS Procs, NInodes, Names, SysCalls, MaxCalls, Files, Fds, NoFile

VARIABLES part,
          dinode, dir, ref, busy, valid, inode, ftable, trans, panic,
          live, cwd, ofile, todo, found, left                    \* FileSystem

FS == INSTANCE FileSystem WITH None <- NoFile

FileSymmetry == Permutations(Procs)

filevars == <<dinode, dir, ref, busy, valid, inode, ftable, trans, panic,
              live, cwd, ofile, todo, found, left>>

MCInit == part \in {"table", "files"} /\ Init /\ FS!Init

MCNext ==
  /\ part' = part
  /\ \/ part = "table" /\ Next /\ UNCHANGED filevars
     \/ part = "files" /\ FS!Next /\ UNCHANGED vars
     \/ part = "table"                    \* all may be asleep
        /\ UNCHANGED <<vars, filevars>>

MCSpec == MCInit /\ [][MCNext]_<<part, vars, filevars>>

-----------------------------------------------------------------------------
(* FileSystem: no call keeps a reference, a lock or the transaction.       *)
RefsTrack == part = "files" => FS!RefsTrack

(* FileSystem: a name never outlives its file.                             *)
NamesExist == part = "files" => FS!NamesExist

(* FileSystem: of the panics of these calls only three can be reached.     *)
FewPanics == part = "files" => FS!FewPanics

==============================================================================
