------------------------------ MODULE FileCalls ------------------------------
(***************************************************************************)
(* The system calls that processes make on a small tree, a file x and      *)
(* directories d and d/e, for the instances of FileSystem.  A path that    *)
(* starts with "/" starts at the root, another one at the current          *)
(* directory.                                                              *)
(***************************************************************************)

Call(sys, path, arg) == [sys |-> sys, path |-> path, arg |-> arg, new |-> <<>>]
Link(path, new) == [Call("link", path, "none") EXCEPT !.new = new]

SomeCalls ==
  {Call("open", <<"x">>, "w"), Call("open", <<"/", "d">>, "w"),
   Call("create", <<"x">>, "w"), Call("make", <<"/", "d", "e">>, "dir"),
   Call("make", <<"/", "d">>, "dev"), Call("unlink", <<"/", "x">>, "none"),
   Call("unlink", <<"/", "d">>, "none"), Call("unlink", <<"/", "d", "e">>, "none"),
   Call("chdir", <<"/", "d">>, "none"), Call("chdir", <<"..">>, "none"),
   Call("chdir", <<"/", "d", "e">>, "none"),
   Call("exec", <<"x">>, "none"), Call("exit", <<>>, "none"),
   Link(<<"x">>, <<"/", "d", "x">>), Link(<<"/", "x">>, <<"/", "x">>)}

==============================================================================
