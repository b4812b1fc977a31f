----------------------------- MODULE MCProcTable -----------------------------
(***************************************************************************)
(* Instances of ProcTable: which calls the programs make.  init only forks *)
(* and waits.                                                              *)
(***************************************************************************)
EXTENDS ProcTable

InitCalls == {<<"fork", "init">>, <<"wait", "init">>}

(* Any program: every call in every thread.                                *)
AnyProgram == InitCalls
  \union ({"fork", "wait", "exit", "kill", "thread_create", "thread_join", "thread_exit"}
            \X {"main", "thread"})

(* threadTest: the main thread leaves with thread_exit, too.               *)
Detached == InitCalls
  \union {<<"thread_create", "main">>, <<"thread_exit", "main">>, <<"thread_exit", "thread">>}

(* Threads that create threads, and a main thread that joins them.         *)
Joined == InitCalls
  \union {<<"thread_create", "main">>, <<"thread_create", "thread">>,
          <<"thread_join", "main">>, <<"exit", "main">>}

=============================================================================
