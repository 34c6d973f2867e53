------------------------------ MODULE MCShell ------------------------------
(* A small instance of Shell, Vfs and Tarfs for TLC. *)
EXTENDS Shell, TLC

File(path, size) == [path |-> path, type |-> "0", size |-> size, valid |-> TRUE]
Dir(path) == [path |-> path, type |-> "5", size |-> 0, valid |-> TRUE]

MCHeaders ==
  {Dir(<<"a">>), File(<<"a", "x">>, 1), File(<<"a", "x">>, 3), File(<<"y">>, 0),
   [path |-> <<"y">>, type |-> "2", size |-> 1, valid |-> TRUE],
   [Dir(<<"y">>) EXCEPT !.valid = FALSE]}

MCBanner == <<"a", "x">>

MCArchives == UNION {[1..n -> MCHeaders] : n \in 0..4}

=============================================================================
