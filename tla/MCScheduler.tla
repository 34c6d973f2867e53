---------------------------- MODULE MCScheduler ----------------------------
(* Small instances of Scheduler for TLC. *)
EXTENDS Scheduler

(* The tasks are interchangeable but for First: they are created in the    *)
(* order of their numbers, as nexttid counts.  Nothing has to be created,  *)
(* so no fairness condition misses the steps this leaves out.              *)
CreatedInOrder ==
  \A t, u \in Tasks : t < u /\ state[t] = "unborn" => state'[u] = "unborn"

=============================================================================
