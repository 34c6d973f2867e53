----------------------------- MODULE MCConsole -----------------------------
(* A small instance of Console for TLC: two threads, a screen of two lines *)
(* of three characters, and integers of 8 bits.                            *)
EXTENDS Console, TLC

BothThreads == Permutations(Threads)

MCArgument == <<"t", "e">>

MCFormats ==
  {<<"=", Conversion, Newline>>, <<String, Newline, Conversion, "%">>,
   <<Conversion, Unknown>>}

UntilOverlap == ~overlapped

=============================================================================
