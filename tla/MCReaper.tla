------------------------------ MODULE MCReaper ------------------------------
(* A small instance of Reaper for TLC. *)
EXTENDS Reaper, TLC

\* The tasks but the first are interchangeable.
Symmetry == Permutations(Tasks \ {First})

(* Two walks at a time free memory twice, and two tasks in the page        *)
(* allocator corrupt its list: what the kernel does after that, or after a *)
(* key has changed EAX, is not explored.                                   *)
Explored == ~overlapped /\ PagesUndisturbed

\* Bound: tasks have waited for one of the semaphores, not for both.
OneContended == contended # Semaphores

=============================================================================
