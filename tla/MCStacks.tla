------------------------------ MODULE MCStacks ------------------------------
(* Small instances of Stacks for TLC. *)
EXTENDS Stacks, TLC

Symmetry == Permutations(Threads)

Region(a, l, t) == [addr |-> a, len |-> l, type |-> t]

(* Memory with a hole and a region beyond the limit, and memory that goes  *)
(* up to the limit: 9 and 13 pages after the kernel.                       *)
MCMaps ==
  {<<Region(0, 28, 1), Region(28, 8, 2), Region(36, 20, 1), Region(64, 8, 1)>>,
   <<Region(0, 4, 2), Region(4, 68, 1)>>}

=============================================================================
