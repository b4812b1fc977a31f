---------------------------- MODULE MCFileThreads ----------------------------
(* Instance of FileThreads for TLC.                                         *)
EXTENDS FileThreads, FileCalls

==============================================================================
