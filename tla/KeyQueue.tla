------------------------------ MODULE KeyQueue ------------------------------
(***************************************************************************)
(* What the keyboard promises to its readers: the characters typed, in     *)
(* order, each one once; when Capacity of them wait, the next ones typed   *)
(* are lost.  It promises nothing any more once broken.                    *)
(***************************************************************************)
EXTENDS Integers, Sequences

CONSTANTS Chars, Capacity

VARIABLES
  queue,      \* characters typed and not read yet
  delivered,  \* the characters kbd_getchar has returned, in order
  broken      \* something happened after which all is possible

Init == queue = <<>> /\ delivered = <<>> /\ ~broken

Type ==
  /\ Len(queue) < Capacity
  /\ \E c \in Chars : queue' = Append(queue, c)
  /\ UNCHANGED delivered

Read ==
  /\ queue # <<>>
  /\ queue' = Tail(queue)
  /\ delivered' = Append(delivered, Head(queue))

Next ==
  \/ ~broken /\ ~broken' /\ (Type \/ Read)
  \/ broken'

Spec == Init /\ [][Next]_<<queue, delivered, broken>>

=============================================================================
