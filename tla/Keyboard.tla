------------------------------ MODULE Keyboard ------------------------------
(***************************************************************************)
(* The keyboard: irq1_handler and kbd_handle_key fill a ring buffer that   *)
(* the threads in kbd_getchar empty (kernel/input/keyboard.c and           *)
(* ringbuffer.c), behind a semaphore with the loop of Locks.               *)
(*                                                                         *)
(* The handler runs with interrupts off: one key is one step.  A reader is *)
(* interrupted between any two of its accesses to the buffer or the lock.  *)
(* head and tail are unsigned and wrap (Word is 2^32 in the kernel); the   *)
(* slot of a position is its remainder by nb_elems.                        *)
(*                                                                         *)
(* irq1_handler saves no register.  A key that comes while the reader      *)
(* itself executes changes EAX, ECX and EDX under it: in the loop of the   *)
(* semaphore EAX, in the C code (compiled without -O: every operand is     *)
(* loaded, changed and stored) whatever it was about to use.               *)
(***************************************************************************)
EXTENDS Integers, Sequences, FiniteSets

CONSTANTS
  Readers,     \* the tids of the threads that call kbd_getchar
  Regular,     \* keys of type REGULAR
  Shift,       \* keys of type MOD, whose modifier is shift
  Blank,       \* <<key, active modifier>> with no character (ascii = 0)
  nb_elems,    \* slots of the buffer
  Word,        \* head and tail are modulo Word
  Byte,        \* state_shift is a uint8_t, modulo Byte (256)
  MaxKeys,     \* bound: key strokes that give a character
  MaxStray,    \* bound: stray codes of the shift keys, of each kind
  None

ASSUME ReadersAssumption == Readers \subseteq Nat \ {0}
ASSUME BufferAssumption ==
  /\ nb_elems \in Nat \ {0}
  /\ Word \in Nat /\ Word > nb_elems /\ Word % nb_elems = 0
ASSUME KeysAssumption ==
  /\ Regular \cap Shift = {} /\ IsFiniteSet(Shift)
  /\ Blank \subseteq Regular \X {0, 1}
  /\ Byte \in Nat \ {0}
  /\ MaxKeys \in Nat /\ MaxStray \in Nat
  /\ None \notin Regular \X {0, 1}

VARIABLES
  head, tail, buffer,
  state_shift,
  pressed,    \* the shift keys the user holds down
  lock,       \* the semaphore of kbd_getchar
  pc, eax, thechar,
  spoiled,    \* readers whose registers a key has changed
  delivered,  \* history: what kbd_getchar returned, in order
  typed,      \* history: number of characters the user has typed
  makes,      \* history: make codes of shift that were no key going down
  breaks,     \* history: break codes of shift that were no key going up
  contended,  \* history: has a reader waited for the semaphore?
  keyed,      \* history: has a key come in the loop of the semaphore?
  clobbered   \* history: has a key come in the C code of kbd_getchar?

ring == <<head, tail, buffer>>
shift == <<state_shift, pressed, makes, breaks>>
calls == <<lock, pc, thechar, delivered, contended>>
disturbed == <<keyed, clobbered>>
vars == <<ring, shift, calls, typed, eax, spoiled, disturbed>>

Chars == (Regular \X {0, 1}) \ Blank

Labels == {"idle", "acquire", "free", "get_lock", "test", "while", "sleep",
           "get", "tail", "release", "eof"}

Init ==
  /\ head = 0
  /\ tail = 0
  /\ buffer = [i \in 0..(nb_elems - 1) |-> None]
  /\ state_shift = 0
  /\ pressed = {}
  /\ lock = 0
  /\ pc = [r \in Readers |-> "idle"]
  /\ eax = [r \in Readers |-> 0]
  /\ thechar = [r \in Readers |-> None]
  /\ spoiled = {}
  /\ delivered = <<>>
  /\ typed = 0
  /\ makes = 0
  /\ breaks = 0
  /\ contended = FALSE
  /\ keyed = FALSE
  /\ clobbered = FALSE

-----------------------------------------------------------------------------
(* The ring buffer.  Bad... are the mistakes the properties are tried on.  *)

Increment(counter) == (counter + 1) % Word

Slot(position) == position % nb_elems

ringbuffer_empty == head = tail

BadFull == (head - tail) % Word > nb_elems  \* one element too many

ringbuffer_full == (head - tail) % Word = nb_elems

\* ringbuffer_put; a character that finds the buffer full is lost.
ringbuffer_put(c) ==
  \/ /\ ~ringbuffer_full
     /\ buffer' = [buffer EXCEPT ![Slot(head)] = c]
     /\ head' = Increment(head)
  \/ /\ ringbuffer_full
     /\ UNCHANGED <<head, buffer>>

-----------------------------------------------------------------------------
(* kbd_handle_key.                                                         *)

get_active_mod == IF state_shift # 0 THEN 1 ELSE 0

\* A regular key with a character goes down, or repeats.
KeyDown(k) ==
  LET c == <<k, get_active_mod>> IN
  /\ c \in Chars
  /\ typed < MaxKeys
  /\ typed' = typed + 1
  /\ ringbuffer_put(c)
  /\ UNCHANGED <<tail, shift>>

(* A regular key goes up, or has no character, or the code belongs to no   *)
(* key (the prefixes E0 and E1 are such codes): nothing is done.           *)
KeyIgnored == UNCHANGED <<ring, shift, typed>>

\* add_mods
WithMod == (state_shift + 1) % Byte

ShiftDown(k) ==
  /\ k \in Shift \ pressed
  /\ pressed' = pressed \cup {k}
  /\ state_shift' = WithMod
  /\ UNCHANGED <<ring, typed, makes, breaks>>

\* remove_mods
BadWithoutMod == 0  \* one shift key up means no shift

WithoutMod == IF state_shift # 0 THEN state_shift - 1 ELSE 0

ShiftUp(k) ==
  /\ k \in pressed
  /\ pressed' = pressed \ {k}
  /\ state_shift' = WithoutMod
  /\ UNCHANGED <<ring, typed, makes, breaks>>

(* The codes of a shift key that are no key going down or up.  A keyboard  *)
(* repeats the make code of a key that is held down; around some of the    *)
(* keys with the prefix E0 it sends make and break codes of a shift, which *)
(* only the prefix, that nobody looks at, marks as false; and a key may    *)
(* have gone down before the handler was installed.                        *)
StrayMake ==
  /\ makes < MaxStray
  /\ makes' = makes + 1
  /\ state_shift' = WithMod
  /\ UNCHANGED <<ring, typed, pressed, breaks>>

StrayBreak ==
  /\ breaks < MaxStray
  /\ breaks' = breaks + 1
  /\ state_shift' = WithoutMod
  /\ UNCHANGED <<ring, typed, pressed, makes>>

kbd_handle_key ==
  \/ \E k \in Regular : KeyDown(k)
  \/ KeyIgnored
  \/ \E k \in Shift : ShiftDown(k) \/ ShiftUp(k)
  \/ StrayMake \/ StrayBreak

(* irq1_handler, over code outside kbd_getchar or over sched_sleep, where  *)
(* the registers are dead.                                                 *)
OverOther == UNCHANGED <<eax, spoiled, disturbed>>

\* Over the loop of the semaphore: EAX is 1, the argument of pic_send_eoi.
OverLoop(r) ==
  /\ pc[r] \in {"free", "get_lock", "test"}
  /\ eax' = [eax EXCEPT ![r] = 1]
  /\ keyed' = TRUE
  /\ UNCHANGED <<spoiled, clobbered>>

\* Over the C code.
OverCode(r) ==
  /\ pc[r] \in {"acquire", "while", "get", "tail", "release", "eof"}
  /\ spoiled' = spoiled \cup {r}
  /\ clobbered' = TRUE
  /\ UNCHANGED <<eax, keyed>>

Irq1 ==
  /\ kbd_handle_key
  /\ OverOther \/ \E r \in Readers : OverLoop(r) \/ OverCode(r)
  /\ UNCHANGED calls

-----------------------------------------------------------------------------
(* kbd_getchar, in the thread r.                                           *)

At(r, from, to) ==
  /\ pc[r] = from
  /\ pc' = [pc EXCEPT ![r] = to]
  /\ spoiled' = spoiled \ {r}
  /\ UNCHANGED <<shift, typed, disturbed, head, buffer>>

\* What r computes: value, unless its registers are spoiled.
Computed(r, value, Others) == IF r \in spoiled THEN Others ELSE {value}

Call(r) ==
  /\ At(r, "idle", "acquire")
  /\ UNCHANGED <<tail, lock, eax, thechar, delivered, contended>>

\* semaphore_acquire: tid goes to EAX.
Acquire(r) ==
  /\ At(r, "acquire", "free")
  /\ \E tid \in Computed(r, r, Readers \cup {0, 1}) : eax' = [eax EXCEPT ![r] = tid]
  /\ UNCHANGED <<tail, lock, thechar, delivered, contended>>

\* cmp $0, %0; je get_lock
Free(r) ==
  /\ lock = 0
  /\ At(r, "free", "get_lock")
  /\ UNCHANGED <<tail, lock, eax, thechar, delivered, contended>>

(* Else call sched_yield, which comes back with EAX = 0; jmp spin_lock.    *)
(* Nobody can tell the comparison from the call.                           *)
Yield(r) ==
  /\ lock # 0
  /\ At(r, "free", "free")
  /\ eax' = [eax EXCEPT ![r] = 0]
  /\ contended' = TRUE
  /\ UNCHANGED <<tail, lock, thechar, delivered>>

\* xchg %eax, %0
GetLock(r) ==
  /\ At(r, "get_lock", "test")
  /\ lock' = eax[r]
  /\ eax' = [eax EXCEPT ![r] = lock]
  /\ UNCHANGED <<tail, thechar, delivered, contended>>

\* cmp $0, %eax; jne spin_lock
BadAfterTest(r) == "while"  \* does not look at what xchg returned

AfterTest(r) == IF eax[r] = 0 THEN "while" ELSE "free"

Test(r) ==
  /\ At(r, "test", AfterTest(r))
  /\ UNCHANGED <<tail, lock, eax, thechar, delivered, contended>>

\* while(ringbuffer_empty(...))
While(r) ==
  /\ \E to \in Computed(r, IF ringbuffer_empty THEN "sleep" ELSE "get", {"sleep", "get"}) :
       At(r, "while", to)
  /\ UNCHANGED <<tail, lock, eax, thechar, delivered, contended>>

\* sched_sleep(1)
Sleep(r) ==
  /\ At(r, "sleep", "while")
  /\ UNCHANGED <<tail, lock, eax, thechar, delivered, contended>>

\* ringbuffer_get: its test, and its copy out of the slot
Get(r) ==
  /\ \E to \in Computed(r, IF ringbuffer_empty THEN "eof" ELSE "tail", {"eof", "tail"}),
        c \in Computed(r, buffer[Slot(tail)], Chars \cup {None}) :
       /\ At(r, "get", to)
       /\ thechar' = [thechar EXCEPT ![r] = IF to = "eof" THEN None ELSE c]
  /\ UNCHANGED <<tail, lock, eax, delivered, contended>>

\* rb->tail++
Advance(r) ==
  /\ At(r, "tail", "release")
  /\ tail' \in Computed(r, Increment(tail), 0..(Word - 1))
  /\ delivered' = Append(delivered, thechar[r])
  /\ UNCHANGED <<lock, eax, thechar, contended>>

\* semaphore_release, and the return
BadReleased == lock  \* forgets the semaphore

Released == 0

Release(r) ==
  /\ pc[r] \in {"release", "eof"}
  /\ At(r, pc[r], "idle")
  /\ lock' \in Computed(r, Released, {0, lock})
  /\ thechar' = [thechar EXCEPT ![r] = None]
  /\ UNCHANGED <<tail, eax, delivered, contended>>

Reader(r) ==
  \/ Acquire(r) \/ Free(r) \/ Yield(r) \/ GetLock(r) \/ Test(r)
  \/ While(r) \/ Sleep(r) \/ Get(r) \/ Advance(r) \/ Release(r)

Next == Irq1 \/ \E r \in Readers : Call(r) \/ Reader(r)

Spec == Init /\ [][Next]_vars

(* A thread inside kbd_getchar goes on: the scheduler runs it again, and   *)
(* wakes it up.                                                            *)
FairSpec == Spec /\ \A r \in Readers : WF_vars(Reader(r))

-----------------------------------------------------------------------------
(* Properties.                                                             *)

(* A key has changed the registers of a reader in the C code, or a reader  *)
(* has waited for the semaphore, after which two readers may get in at the *)
(* same time (Locks).                                                      *)
broken == clobbered \/ contended

\* The characters from tail to head, in the order they were put.
Contents ==
  [i \in 1..((head - tail) % Word) |-> buffer[Slot((tail + i - 1) % Word)]]

(* The ring buffer and its two counters, wherever they wrap and whenever   *)
(* the interrupt comes, behave like the queue: nothing is overwritten,     *)
(* lost once accepted, read twice or reordered.  This lasts until a key    *)
(* comes while a reader executes the C code of kbd_getchar itself, or a    *)
(* reader has to wait for the semaphore.                                   *)
Queue == INSTANCE KeyQueue WITH queue <- Contents, Capacity <- nb_elems
ImplementsQueue == Queue!Spec

(* Until then kbd_getchar does not return EOF: what the loop saw in the    *)
(* buffer is still there when ringbuffer_get looks, wherever the other     *)
(* readers are in the loop of the semaphore and keys come to them there.   *)
NeverEOF == ~broken => \A r \in Readers : pc[r] # "eof"

(* shift is active while a shift key is held, with both keys in any order, *)
(* as long as no stray break code came and add_mods has not wrapped the    *)
(* counter; and only then, as long as no stray make code came.             *)
ShiftTracksKeys ==
  /\ pressed # {} /\ breaks = 0 /\ makes + Cardinality(Shift) < Byte =>
       get_active_mod = 1
  /\ pressed = {} /\ makes = 0 => get_active_mod = 0

(* A character in the buffer reaches a reader that waits for one, and more *)
(* of them may be waiting for the semaphore; unless a key has come while a *)
(* reader executed in kbd_getchar, which may orphan the semaphore.  (The   *)
(* key that comes while the readers sleep is harmless.)                    *)
WaitingReaderServed ==
  (\E r \in Readers : pc[r] # "idle") /\ head # tail
     ~> keyed \/ clobbered \/ \E r \in Readers : pc[r] = "release"

=============================================================================
