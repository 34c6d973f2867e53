----------------------------- MODULE MCKeyboard -----------------------------
(* A small instance of Keyboard for TLC. *)
EXTENDS Keyboard

\* Like two keys of the french layout: nothing without, and with, shift.
MCBlank == {<<"two", 0>>, <<")", 1>>}

(* What a reader does after a key has spoiled its registers is not         *)
(* explored; what readers do after one of them has waited, or has got a    *)
(* key in the loop of the semaphore, is for three keys, and one does not   *)
(* come with the other.  Stray codes come while nobody is in kbd_getchar.   *)
Explored ==
  /\ ~clobbered
  /\ ~(contended /\ keyed)
  /\ contended \/ keyed => typed <= 3 /\ Len(delivered) <= 1
  /\ makes + breaks > 0 => \A r \in Readers : pc[r] = "idle"

=============================================================================
