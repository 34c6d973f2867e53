------------------------------ MODULE MCLocks ------------------------------
(* Small instances of Locks for TLC. *)
EXTENDS Locks

(* What is said of the mutex ends with the first contention or key: its    *)
(* states after that are not explored.  The semaphore's are, all of them.  *)
MutexUntilContended == kind = "semaphore" \/ ~(contended \/ keyed)

\* For the run that looks for the effect of sched_yield alone.
SemaphoreWithoutKeys == kind = "semaphore" /\ ~keyed

=============================================================================
