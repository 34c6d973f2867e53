---------------------------- MODULE DeviceProofs ----------------------------
(***************************************************************************)
(* Proofs about the two devices.  Keyboard: for any number of readers and  *)
(* keys, any size of the buffer and any width of its counters.  Console,   *)
(* with Arithmetic: for any width of the integers, any screen, any number  *)
(* of threads and any formats.                                             *)
(***************************************************************************)
EXTENDS Keyboard, Console, Lemmas, FiniteSetTheorems, SequenceTheorems

-----------------------------------------------------------------------------
(* The keyboard.                                                           *)

Inside == {"while", "sleep", "get", "tail", "release"}

\* The types of the ring and of its readers; pc is never "eof".
Types ==
  /\ head \in 0..(Word - 1)
  /\ tail \in 0..(Word - 1)
  /\ buffer \in [0..(nb_elems - 1) -> Chars \cup {None}]
  /\ pc \in [Readers -> Labels \ {"eof"}]
  /\ thechar \in [Readers -> Chars \cup {None}]

\* head is ahead of tail by the number of elements.
Fill == (head - tail) % Word <= nb_elems

(* What a reader has seen is still true when it uses it: the buffer is not *)
(* empty, and the character it copied is the one at tail.                  *)
SeenHolds ==
  \A r \in Readers :
    /\ pc[r] \in {"get", "tail"} => head # tail
    /\ pc[r] = "tail" => thechar[r] = buffer[Slot(tail)]

RingSound == Types /\ Fill /\ SeenHolds

\* r is inside the semaphore, or has won the xchg.
HasLock(r) == pc[r] \in Inside \/ (pc[r] = "test" /\ eax[r] = 0)

(* One reader at most is inside, the lock is then taken, and nobody frees  *)
(* it by its xchg: EAX is a tid, or 1 after a key.                         *)
LockSound ==
  /\ lock \in Nat
  /\ eax \in [Readers -> Nat]
  /\ spoiled = {}
  /\ \A r, u \in Readers : HasLock(r) /\ HasLock(u) => r = u
  /\ \A r \in Readers : HasLock(r) => lock # 0
  /\ \A r \in Readers : pc[r] \in {"free", "get_lock"} => eax[r] # 0

Inv == ~broken => RingSound /\ LockSound

-----------------------------------------------------------------------------
(* The ring buffer.                                                        *)

LEMMA WordAssumption ==
  /\ nb_elems \in Nat \ {0} /\ Word \in Nat \ {0}
  /\ Word > nb_elems /\ Word % nb_elems = 0
  BY BufferAssumption

LEMMA SlotType == ASSUME NEW i \in Nat PROVE Slot(i) \in 0..(nb_elems - 1)
  BY WordAssumption DEF Slot

\* The number of elements.
Count == (head - tail) % Word

LEMMA DifferenceIs ==
  ASSUME NEW h \in 0..(Word - 1), NEW t \in 0..(Word - 1)
  PROVE  (h - t) % Word = IF h >= t THEN h - t ELSE h - t + Word
<1>1. Word \in Nat \ {0}  BY WordAssumption
<1> QED  BY <1>1, DifferenceModulo

LEMMA CountType ==
  ASSUME Types
  PROVE  /\ Count \in 0..(Word - 1)
         /\ Count = IF head >= tail THEN head - tail ELSE head - tail + Word
         /\ Count = 0 <=> head = tail
<1>1. head \in 0..(Word - 1) /\ tail \in 0..(Word - 1)  BY DEF Types
<1>2. Count = IF head >= tail THEN head - tail ELSE head - tail + Word
  BY <1>1, DifferenceIs DEF Count
<1> QED  BY <1>1, <1>2, WordAssumption

\* The slot of the i-th position after tail, wherever the counter wraps.
LEMMA SlotOf ==
  ASSUME Types, NEW i \in 0..nb_elems
  PROVE  Slot((tail + i) % Word) = (tail + i) % nb_elems
<1> DEFINE a == tail + i
<1>1. a \in 0..(2 * Word - 1)  BY WordAssumption DEF Types
<1>2. a % Word = IF a < Word THEN a ELSE a - Word
  BY <1>1, WordAssumption, WrapsOnce
<1>3. a >= Word => (a - Word) % nb_elems = a % nb_elems
  BY <1>1, WordAssumption, MultipleModulo
<1>4. Slot(a % Word) = a % nb_elems
  <2> HIDE DEF a
  <2>1. CASE a < Word  BY <1>1, <1>2, <2>1 DEF Slot
  <2>2. CASE a >= Word  BY <1>1, <1>2, <1>3, <2>2 DEF Slot
  <2> QED  BY <1>1, <2>1, <2>2, WordAssumption
<1> QED  BY <1>4

\* head is Count positions after tail.
LEMMA HeadPosition ==
  ASSUME Types PROVE head = (tail + Count) % Word
<1>1. tail + Count = head \/ tail + Count = head + Word
  BY CountType, WordAssumption DEF Types
<1>2. tail + Count \in 0..(2 * Word - 1)
  BY <1>1, WordAssumption DEF Types
<1> DEFINE a == tail + Count
<1> HIDE DEF a
<1>3. a % Word = IF a < Word THEN a ELSE a - Word
  BY <1>2, WrapsOnce, WordAssumption DEF a
<1>4. head = a % Word
  BY <1>1, <1>2, <1>3, WordAssumption DEF Types, a
<1> QED  BY <1>4 DEF a

\* A put goes to a slot that holds none of the elements.
LEMMA PutIsFree ==
  ASSUME Types, Count < nb_elems, NEW i \in 1..Count
  PROVE  Slot((tail + i - 1) % Word) # Slot(head)
<1>1. Count \in Nat /\ i - 1 \in 0..nb_elems /\ Count \in 0..nb_elems
  BY CountType, WordAssumption
<1>2. Slot(head) = (tail + Count) % nb_elems
  BY <1>1, HeadPosition, SlotOf
<1>3. Slot((tail + i - 1) % Word) = (tail + (i - 1)) % nb_elems
  <2>1. tail + i - 1 = tail + (i - 1)  BY <1>1 DEF Types
  <2> QED  BY <1>1, <2>1, SlotOf
<1> DEFINE x == tail + (i - 1)
           d == Count - (i - 1)
<1>4. x \in Nat /\ d \in 1..(nb_elems - 1) /\ x + d = tail + Count
  BY <1>1, WordAssumption DEF Types
<1> HIDE DEF x, d
<1>5. (x + d) % nb_elems # x % nb_elems
  BY <1>4, WordAssumption, DistinctModulo
<1> QED  BY <1>2, <1>3, <1>4, <1>5 DEF x

LEMMA IncrementIs ==
  ASSUME NEW i \in 0..(Word - 1)
  PROVE  Increment(i) = IF i + 1 < Word THEN i + 1 ELSE 0
<1> DEFINE a == i + 1
<1>1. a \in 0..(2 * Word - 1) /\ a <= Word  BY WordAssumption
<1>2. Increment(i) = a % Word  BY DEF Increment
<1> HIDE DEF a
<1>3. a % Word = IF a < Word THEN a ELSE a - Word
  BY <1>1, WrapsOnce, WordAssumption
<1> QED  BY <1>1, <1>2, <1>3, WordAssumption DEF a

\* How the two operations change the number of elements.
LEMMA CountAfterPut ==
  ASSUME Types, Count < nb_elems, head' = Increment(head), tail' = tail
  PROVE  Count' = Count + 1 /\ head' \in 0..(Word - 1)
<1>1. head' = IF head + 1 < Word THEN head + 1 ELSE 0
  BY IncrementIs DEF Types
<1>2. head' \in 0..(Word - 1)  BY <1>1, WordAssumption DEF Types
<1>3. Count' = IF head' >= tail THEN head' - tail ELSE head' - tail + Word
  <2>1. tail \in 0..(Word - 1)  BY DEF Types
  <2> QED  BY <1>2, <2>1, DifferenceIs DEF Count
<1> QED  BY <1>1, <1>2, <1>3, CountType, WordAssumption DEF Types

LEMMA CountAfterGet ==
  ASSUME Types, head # tail, tail' = Increment(tail), head' = head
  PROVE  Count' = Count - 1 /\ tail' \in 0..(Word - 1)
<1>1. tail' = IF tail + 1 < Word THEN tail + 1 ELSE 0
  BY IncrementIs DEF Types
<1>2. tail' \in 0..(Word - 1)  BY <1>1, WordAssumption DEF Types
<1>3. Count' = IF head >= tail' THEN head - tail' ELSE head - tail' + Word
  <2>1. head \in 0..(Word - 1)  BY DEF Types
  <2> QED  BY <1>2, <2>1, DifferenceIs DEF Count
<1> QED  BY <1>1, <1>2, <1>3, CountType, WordAssumption DEF Types

\* The elements as a sequence.
LEMMA ContentsType ==
  ASSUME Types
  PROVE  /\ Contents \in Seq(Chars \cup {None})
         /\ Len(Contents) = Count
         /\ \A i \in 1..Count : Contents[i] = buffer[Slot((tail + i - 1) % Word)]
<1>1. Count \in Nat  BY CountType
<1>2. Contents = [i \in 1..Count |-> buffer[Slot((tail + i - 1) % Word)]]
  BY DEF Contents, Count
<1>3. ASSUME NEW i \in 1..Count
      PROVE  buffer[Slot((tail + i - 1) % Word)] \in Chars \cup {None}
  <2>1. (tail + i - 1) % Word \in Nat  BY <1>1, WordAssumption DEF Types
  <2>2. Slot((tail + i - 1) % Word) \in 0..(nb_elems - 1)  BY <2>1, SlotType
  <2> QED  BY <2>2 DEF Types
<1> HIDE DEF Count
<1>4. Contents \in [1..Count -> Chars \cup {None}]  BY <1>2, <1>3
<1>5. Contents \in Seq(Chars \cup {None}) /\ Len(Contents) = Count
  BY <1>1, <1>4
<1> QED  BY <1>2, <1>5

\* ringbuffer_put appends.
LEMMA PutAppends ==
  ASSUME Types, Count < nb_elems, NEW c \in Chars,
         buffer' = [buffer EXCEPT ![Slot(head)] = c],
         head' = Increment(head), tail' = tail, Types'
  PROVE  Contents' = Append(Contents, c)
<1>1. Count' = Count + 1 /\ Count \in Nat  BY CountAfterPut, CountType
<1>2. Contents' = [i \in 1..Count' |-> buffer'[Slot((tail + i - 1) % Word)]]
  BY DEF Contents, Count, Slot
<1>3. ASSUME NEW i \in 1..Count
      PROVE  buffer'[Slot((tail + i - 1) % Word)] = Contents[i]
  <2>1. Slot((tail + i - 1) % Word) # Slot(head)  BY PutIsFree
  <2>2. (tail + i - 1) % Word \in Nat  BY <1>1, WordAssumption DEF Types
  <2>3. Slot((tail + i - 1) % Word) \in 0..(nb_elems - 1)  BY <2>2, SlotType
  <2>4. buffer'[Slot((tail + i - 1) % Word)] = buffer[Slot((tail + i - 1) % Word)]
    BY <2>1, <2>3 DEF Types
  <2> QED  BY <2>4, ContentsType
<1>4. buffer'[Slot((tail + (Count + 1) - 1) % Word)] = c
  <2>1. Slot((tail + (Count + 1) - 1) % Word) = Slot(head)
    <3>1. tail + (Count + 1) - 1 = tail + Count  BY <1>1 DEF Types
    <3> QED  BY <3>1, HeadPosition
  <2>2. head \in Nat  BY DEF Types
  <2>3. Slot(head) \in 0..(nb_elems - 1)  BY <2>2, SlotType
  <2> QED  BY <2>1, <2>3 DEF Types
<1>5. Contents \in Seq(Chars \cup {None}) /\ Len(Contents) = Count  BY ContentsType
<1> DEFINE new == Append(Contents, c)
<1>6. /\ new \in Seq(Chars \cup {None})
      /\ Len(new) = Count + 1
      /\ \A i \in 1..Count : new[i] = Contents[i]
      /\ new[Count + 1] = c
  BY <1>1, <1>5, AppendProperties
<1> HIDE DEF Contents, Count, Slot, new
<1>7. new = [i \in 1..(Count + 1) |-> new[i]]  BY <1>1, <1>6
<1>8. \A i \in 1..(Count + 1) : new[i] = buffer'[Slot((tail + i - 1) % Word)]
  <2>1. \A i \in 1..(Count + 1) : i \in 1..Count \/ i = Count + 1  BY <1>1
  <2> QED  BY <1>3, <1>4, <1>6, <2>1
<1> QED  BY <1>1, <1>2, <1>7, <1>8 DEF new

\* ringbuffer_get takes the first element.
LEMMA GetTakesFirst ==
  ASSUME Types, head # tail, buffer' = buffer, tail' = Increment(tail),
         head' = head
  PROVE  /\ Contents # <<>>
         /\ Head(Contents) = buffer[Slot(tail)]
         /\ Contents' = Tail(Contents)
<1>1. Count' = Count - 1 /\ Count \in Nat \ {0}  BY CountAfterGet, CountType
<1>2. Contents \in Seq(Chars \cup {None}) /\ Len(Contents) = Count  BY ContentsType
<1>3. Contents[1] = buffer[Slot(tail)]
  <2>1. (tail + 1 - 1) % Word = tail  BY WordAssumption DEF Types
  <2> QED  BY <1>1, <2>1, ContentsType
<1>4. Contents' = [i \in 1..Count' |-> buffer[Slot((tail' + i - 1) % Word)]]
  BY DEF Contents, Count, Slot
<1>5. ASSUME NEW i \in 1..(Count - 1)
      PROVE  buffer[Slot((tail' + i - 1) % Word)] = Contents[i + 1]
  <2>1. i + 1 \in 1..Count  BY <1>1
  <2>2. (tail' + i - 1) % Word = (tail + (i + 1) - 1) % Word
    <3>2. tail' = IF tail + 1 < Word THEN tail + 1 ELSE 0
      BY IncrementIs DEF Types
    <3>3. CASE tail + 1 < Word  BY <3>2, <3>3 DEF Types
    <3>4. CASE ~(tail + 1 < Word)
      <4>1. Count < Word /\ i < Word  BY <1>1, CountType, WordAssumption
      <4>2. tail' = 0 /\ tail + 1 = Word  BY <3>2, <3>4, WordAssumption DEF Types
      <4>3. tail + (i + 1) - 1 = i - 1 + Word /\ tail' + i - 1 = i - 1
        BY <4>2 DEF Types
      <4>4. i - 1 + Word \in 0..(2 * Word - 1) /\ i - 1 \in 0..(2 * Word - 1)
        BY <4>1, WordAssumption
      <4> DEFINE a == i - 1 + Word
                 b == i - 1
      <4> HIDE DEF a, b
      <4>a. a \in 0..(2 * Word - 1) /\ b \in 0..(2 * Word - 1) /\ b < Word
        BY <4>1, <4>4, WordAssumption DEF a, b
      <4>b. a % Word = IF a < Word THEN a ELSE a - Word
        BY <4>a, WrapsOnce, WordAssumption
      <4>5. b % Word = IF b < Word THEN b ELSE b - Word
        BY <4>a, WrapsOnce, WordAssumption
      <4>6. a % Word = b % Word  BY <4>1, <4>a, <4>b, <4>5, WordAssumption DEF a, b
      <4> QED  BY <4>3, <4>6 DEF a, b
    <3> QED  BY <3>3, <3>4
  <2> QED  BY <2>1, <2>2, ContentsType
<1> HIDE DEF Contents, Count, Slot
<1>6. /\ Tail(Contents) \in Seq(Chars \cup {None})
      /\ Len(Tail(Contents)) = Count - 1
      /\ \A i \in 1..(Count - 1) : Tail(Contents)[i] = Contents[i + 1]
  BY <1>1, <1>2
<1>7. Contents' = Tail(Contents)
  <2> DEFINE rest == Tail(Contents)
  <2>1. \A i \in 1..(Count - 1) : rest[i] = buffer[Slot((tail' + i - 1) % Word)]
    BY <1>5, <1>6
  <2>2. rest \in Seq(Chars \cup {None}) /\ Len(rest) = Count - 1  BY <1>6
  <2> HIDE DEF rest
  <2>3. rest = [i \in 1..(Count - 1) |-> rest[i]]  BY <1>1, <2>2
  <2> QED  BY <1>1, <1>4, <2>1, <2>3 DEF rest
<1>8. Contents # <<>> /\ Head(Contents) = Contents[1]  BY <1>1, <1>2
<1> QED  BY <1>3, <1>7, <1>8

-----------------------------------------------------------------------------
(* The invariant, action by action.                                        *)

LEMMA InitInv == Init => RingSound /\ LockSound
<1> SUFFICES ASSUME Init PROVE RingSound /\ LockSound  OBVIOUS
<1>1. Types  BY WordAssumption DEF Init, Types, Labels
<1>2. Fill  BY WordAssumption DEF Init, Fill
<1>3. SeenHolds  BY DEF Init, SeenHolds
<1>4. LockSound  BY DEF Init, LockSound, HasLock, Inside
<1> QED  BY <1>1, <1>2, <1>3, <1>4 DEF RingSound

\* ringbuffer_put touches neither what is counted nor what a reader has seen.
LEMMA PutStep ==
  ASSUME RingSound, NEW c \in Chars, ringbuffer_put(c), UNCHANGED <<tail, pc, thechar>>
  PROVE  RingSound'
<1> USE DEF RingSound
<1>1. CASE ringbuffer_full
  <2>1. UNCHANGED <<head, buffer>>  BY <1>1 DEF ringbuffer_put
  <2> QED  BY <2>1 DEF Types, Fill, SeenHolds, Slot
<1>2. CASE ~ringbuffer_full
  <2>1. /\ buffer' = [buffer EXCEPT ![Slot(head)] = c]
        /\ head' = Increment(head)
    BY <1>2 DEF ringbuffer_put
  <2>2. Count < nb_elems
    BY <1>2, CountType, WordAssumption DEF ringbuffer_full, Fill, Count
  <2>3. Count' = Count + 1 /\ head' \in 0..(Word - 1)  BY <2>1, <2>2, CountAfterPut
  <2>4. Types'
    <3>1. head \in Nat  BY DEF Types
    <3>2. Slot(head) \in 0..(nb_elems - 1)  BY <3>1, SlotType
    <3>3. buffer' \in [0..(nb_elems - 1) -> Chars \cup {None}]  BY <2>1, <3>2 DEF Types
    <3> QED  BY <2>3, <3>3 DEF Types
  <2>5. Fill'  BY <2>2, <2>3, CountType, WordAssumption DEF Fill, Count
  <2>6. SeenHolds'
    <3> SUFFICES ASSUME NEW r \in Readers, pc[r] \in {"get", "tail"}
                 PROVE  /\ head' # tail'
                        /\ pc[r] = "tail" => thechar[r] = buffer'[Slot(tail)]
      BY DEF SeenHolds, Slot
    <3>1. Count \in Nat \ {0}  BY CountType DEF SeenHolds
    <3>2. head' # tail'
      <4>1. head' \in 0..(Word - 1) /\ tail' \in 0..(Word - 1)  BY <2>3 DEF Types
      <4>2. head' = tail' => Count' = 0  BY <4>1, WordAssumption DEF Count
      <4> QED  BY <2>3, <3>1, <4>2
    <3>3. buffer'[Slot(tail)] = buffer[Slot(tail)]
      <4>1. 1 \in 1..Count  BY <3>1
      <4>2. (tail + 1 - 1) % Word = tail  BY WordAssumption DEF Types
      <4>3. Slot(tail) # Slot(head)  BY <2>2, <4>1, <4>2, PutIsFree
      <4>4. tail \in Nat  BY DEF Types
      <4>5. Slot(tail) \in 0..(nb_elems - 1)  BY <4>4, SlotType
      <4> QED  BY <2>1, <4>3, <4>5 DEF Types
    <3> QED  BY <3>2, <3>3 DEF SeenHolds
  <2> QED  BY <2>4, <2>5, <2>6
<1> QED  BY <1>1, <1>2

\* Every key but one with a character leaves the ring alone.
LEMMA KeyCases ==
  ASSUME kbd_handle_key
  PROVE  \/ UNCHANGED ring
         \/ \E c \in Chars : ringbuffer_put(c) /\ UNCHANGED tail
<1>1. ASSUME NEW k \in Regular, KeyDown(k)
      PROVE  \E c \in Chars : ringbuffer_put(c) /\ UNCHANGED tail
  <2> DEFINE c == <<k, get_active_mod>>
  <2>1. c \in Chars /\ ringbuffer_put(c) /\ UNCHANGED tail  BY <1>1 DEF KeyDown
  <2> HIDE DEF c
  <2> QED  BY <2>1
<1>2. ASSUME KeyIgnored PROVE UNCHANGED ring  BY <1>2 DEF KeyIgnored
<1>3. ASSUME NEW k \in Shift, ShiftDown(k) \/ ShiftUp(k) PROVE UNCHANGED ring
  BY <1>3 DEF ShiftDown, ShiftUp
<1>4. ASSUME StrayMake \/ StrayBreak PROVE UNCHANGED ring
  BY <1>4 DEF StrayMake, StrayBreak
<1> QED  BY <1>1, <1>2, <1>3, <1>4 DEF kbd_handle_key

LEMMA Irq1Step ==
  ASSUME RingSound, LockSound, Irq1, ~broken' PROVE RingSound' /\ LockSound'
<1>1. UNCHANGED calls  BY DEF Irq1
<1>2. RingSound'
  <2>1. CASE UNCHANGED ring
    BY <1>1, <2>1 DEF RingSound, Types, Fill, SeenHolds, ring, calls, Slot
  <2>2. ASSUME NEW c \in Chars, ringbuffer_put(c) /\ UNCHANGED tail PROVE RingSound'
    BY <1>1, <2>2, PutStep DEF calls
  <2>3. kbd_handle_key  BY DEF Irq1
  <2> QED  BY <2>1, <2>2, <2>3, KeyCases
<1>3. LockSound'
  <2>1. CASE OverOther
    BY <1>1, <2>1 DEF OverOther, LockSound, HasLock, calls
  <2>2. ASSUME NEW r \in Readers, OverLoop(r) PROVE LockSound'
    <3>1. /\ eax' = [eax EXCEPT ![r] = 1] /\ UNCHANGED <<spoiled, pc, lock>>
          /\ pc[r] \in {"free", "get_lock", "test"}
      BY <1>1, <2>2 DEF OverLoop, calls
    <3>2. ASSUME NEW u \in Readers, HasLock(u)' PROVE HasLock(u)
      BY <3>1, <3>2 DEF HasLock, LockSound
    <3> QED  BY <3>1, <3>2 DEF LockSound
  <2>3. ASSUME NEW r \in Readers, OverCode(r) PROVE FALSE
    BY <2>3 DEF OverCode, broken
  <2> QED  BY <2>1, <2>2, <2>3 DEF Irq1
<1> QED  BY <1>2, <1>3

\* Nobody's registers are spoiled: everybody computes what the code says.
LEMMA ComputedIs ==
  ASSUME LockSound, NEW r, NEW v, NEW S PROVE Computed(r, v, S) = {v}
  BY DEF LockSound, Computed

LEMMA RingStep ==
  ASSUME RingSound, LockSound, NEW r \in Readers, Call(r) \/ Reader(r), ~broken'
  PROVE  RingSound'
<1> USE DEF RingSound, Types, SeenHolds, Labels, Slot
<1>1. CASE Call(r)
  BY <1>1 DEF Call, At, Fill
<1>2. CASE Acquire(r) \/ Free(r) \/ Yield(r) \/ GetLock(r) \/ Sleep(r)
  BY <1>2 DEF Acquire, Free, Yield, GetLock, Sleep, At, Fill
<1>3. CASE Test(r)
  BY <1>3 DEF Test, AfterTest, At, Fill
<1>4. CASE While(r)
  <2> DEFINE to == IF ringbuffer_empty THEN "sleep" ELSE "get"
  <2>1. Computed(r, to, {"sleep", "get"}) = {to}  BY ComputedIs
  <2>2. pc' = [pc EXCEPT ![r] = to] /\ UNCHANGED <<head, buffer, tail, thechar>>
    BY <1>4, <2>1 DEF While, At
  <2> QED  BY <2>2 DEF ringbuffer_empty, Fill
<1>5. CASE Get(r)
  <2>1. pc[r] = "get"  BY <1>5 DEF Get, At
  <2>2. ~ringbuffer_empty  BY <2>1 DEF ringbuffer_empty
  <2>a. /\ Computed(r, "tail", {"eof", "tail"}) = {"tail"}
        /\ Computed(r, buffer[Slot(tail)], Chars \cup {None}) = {buffer[Slot(tail)]}
    BY ComputedIs
  <2>b. (IF ringbuffer_empty THEN "eof" ELSE "tail") = "tail"  BY <2>2
  <2>3. /\ pc' = [pc EXCEPT ![r] = "tail"]
        /\ thechar' = [thechar EXCEPT ![r] = buffer[Slot(tail)]]
        /\ UNCHANGED <<head, buffer, tail>>
    BY <1>5, <2>a, <2>b DEF Get, At
  <2>4. buffer[Slot(tail)] \in Chars \cup {None}
    <3>1. tail \in Nat  OBVIOUS
    <3> QED  BY <3>1, SlotType
  <2>5. Types'  BY <2>3, <2>4
  <2>6. Fill'  BY <2>3 DEF Fill
  <2>7. SeenHolds'  BY <2>1, <2>3
  <2> QED  BY <2>5, <2>6, <2>7
<1>6. CASE Advance(r)
  <2>1. /\ pc[r] = "tail" /\ pc' = [pc EXCEPT ![r] = "release"]
        /\ tail' = Increment(tail)
        /\ UNCHANGED <<head, buffer, thechar>>
    BY <1>6, ComputedIs DEF Advance, At
  <2>2. Count' = Count - 1 /\ tail' \in 0..(Word - 1)
    BY <2>1, CountAfterGet
  <2>3. Types'  BY <2>1, <2>2
  <2>4. Fill'  BY <2>2, CountType, WordAssumption DEF Fill, Count
  <2>5. \A u \in Readers : u # r => pc[u] \notin {"get", "tail"}
    BY <2>1 DEF LockSound, HasLock, Inside
  <2>6. SeenHolds'  BY <2>1, <2>5
  <2> QED  BY <2>3, <2>4, <2>6
<1>7. CASE Release(r)
  <2>1. /\ pc' = [pc EXCEPT ![r] = "idle"]
        /\ thechar' = [thechar EXCEPT ![r] = None]
        /\ UNCHANGED <<head, buffer, tail>>
    BY <1>7 DEF Release, At
  <2> QED  BY <2>1 DEF Fill
<1> QED  BY <1>1, <1>2, <1>3, <1>4, <1>5, <1>6, <1>7 DEF Reader

LEMMA LockStep ==
  ASSUME RingSound, LockSound, NEW r \in Readers, Call(r) \/ Reader(r), ~broken'
  PROVE  LockSound'
<1> USE DEF LockSound, HasLock, Inside
<1>0. pc \in [Readers -> Labels \ {"eof"}]  BY DEF RingSound, Types
<1>a. r \in Nat \ {0}  BY ReadersAssumption
<1>1. CASE Call(r)
  BY <1>0, <1>1 DEF Call, At
<1>2. CASE Acquire(r)
  <2>a. Computed(r, r, Readers \cup {0, 1}) = {r}  BY ComputedIs
  <2>1. /\ pc' = [pc EXCEPT ![r] = "free"] /\ eax' = [eax EXCEPT ![r] = r]
        /\ pc[r] = "acquire" /\ UNCHANGED lock /\ spoiled' = {}
    BY <1>2, <2>a DEF Acquire, At
  <2> QED  BY <1>0, <1>a, <2>1
<1>3. CASE Free(r)
  BY <1>0, <1>3 DEF Free, At
<1>4. CASE Yield(r)
  BY <1>4 DEF Yield, broken
<1>5. CASE GetLock(r)
  <2>1. /\ pc' = [pc EXCEPT ![r] = "test"] /\ eax' = [eax EXCEPT ![r] = lock]
        /\ pc[r] = "get_lock" /\ lock' = eax[r] /\ spoiled' = {}
    BY <1>5 DEF GetLock, At
  <2>2. lock' # 0 /\ lock' \in Nat /\ eax' \in [Readers -> Nat]  BY <2>1
  <2>3. ASSUME NEW u \in Readers, u # r PROVE HasLock(u)' <=> HasLock(u)
    BY <1>0, <2>1, <2>3
  <2>4. HasLock(r)' => lock = 0  BY <1>0, <2>1
  <2>5. \A u, v \in Readers : HasLock(u)' /\ HasLock(v)' => u = v
    BY <2>3, <2>4
  <2>6. \A u \in Readers : pc'[u] \in {"free", "get_lock"} => eax'[u] # 0
    BY <1>0, <2>1
  <2> QED  BY <2>1, <2>2, <2>5, <2>6
<1>6. CASE Test(r)
  <2>1. /\ pc' = [pc EXCEPT ![r] = IF eax[r] = 0 THEN "while" ELSE "free"]
        /\ pc[r] = "test" /\ UNCHANGED <<lock, eax>> /\ spoiled' = {}
    BY <1>6 DEF Test, AfterTest, At
  <2>2. ASSUME NEW u \in Readers PROVE HasLock(u)' <=> HasLock(u)
    BY <1>0, <2>1
  <2>3. \A u \in Readers : pc'[u] \in {"free", "get_lock"} => eax'[u] # 0
    BY <1>0, <2>1
  <2> QED  BY <2>1, <2>2, <2>3
<1>7. CASE While(r) \/ Sleep(r) \/ Get(r) \/ Advance(r)
  <2>1. /\ UNCHANGED <<lock, eax>> /\ spoiled' = {}
        /\ pc[r] \in Inside
        /\ \E l \in Inside \cup {"eof"} : pc' = [pc EXCEPT ![r] = l]
    <3>1. CASE While(r)
      <4>1. Computed(r, IF ringbuffer_empty THEN "sleep" ELSE "get", {"sleep", "get"})
              \subseteq {"sleep", "get"}
        BY DEF Computed
      <4> QED  BY <3>1, <4>1 DEF While, At
    <3>2. CASE Get(r)
      <4>1. Computed(r, IF ringbuffer_empty THEN "eof" ELSE "tail", {"eof", "tail"})
              \subseteq {"eof", "tail"}
        BY DEF Computed
      <4> QED  BY <3>2, <4>1 DEF Get, At
    <3>3. CASE Sleep(r) \/ Advance(r)  BY <3>3 DEF Sleep, Advance, At
    <3> QED  BY <1>7, <3>1, <3>2, <3>3
  <2>2. ASSUME NEW u \in Readers, HasLock(u)' PROVE HasLock(u)
    BY <1>0, <2>1, <2>2
  <2>3. \A u \in Readers : pc'[u] \in {"free", "get_lock"} => eax'[u] # 0
    BY <1>0, <2>1
  <2> QED  BY <2>1, <2>2, <2>3
<1>8. CASE Release(r)
  <2>1. /\ pc' = [pc EXCEPT ![r] = "idle"] /\ pc[r] = "release"
        /\ lock' = 0 /\ UNCHANGED eax /\ spoiled' = {}
    BY <1>0, <1>8, ComputedIs DEF Release, Released, At
  <2>2. ASSUME NEW u \in Readers PROVE ~HasLock(u)'
    BY <1>0, <2>1
  <2>3. \A u \in Readers : pc'[u] \in {"free", "get_lock"} => eax'[u] # 0
    BY <1>0, <2>1
  <2> QED  BY <2>1, <2>2, <2>3
<1> QED  BY <1>1, <1>2, <1>3, <1>4, <1>5, <1>6, <1>7, <1>8 DEF Reader

\* What is broken stays broken.
LEMMA BrokenStays == [Next]_vars /\ broken => broken'
<1> SUFFICES ASSUME [Next]_vars, broken PROVE broken'  OBVIOUS
<1>1. CASE Irq1
  BY <1>1 DEF Irq1, OverOther, OverLoop, OverCode, calls, disturbed, broken
<1>2. ASSUME NEW r \in Readers, Call(r) \/ Reader(r) PROVE broken'
  BY <1>2 DEF Reader, Call, Acquire, Free, Yield, GetLock, Test, While, Sleep, Get,
     Advance, Release, At, disturbed, broken
<1>3. CASE UNCHANGED vars  BY <1>3 DEF vars, calls, disturbed, broken
<1> QED  BY <1>1, <1>2, <1>3 DEF Next

LEMMA InvStep == Inv /\ [Next]_vars => Inv'
<1> SUFFICES ASSUME Inv, [Next]_vars, ~broken' PROVE RingSound' /\ LockSound'
  BY DEF Inv
<1>0. RingSound /\ LockSound  BY BrokenStays DEF Inv
<1>1. CASE Irq1  BY <1>0, <1>1, Irq1Step
<1>2. ASSUME NEW r \in Readers, Call(r) \/ Reader(r) PROVE RingSound' /\ LockSound'
  BY <1>0, <1>2, RingStep, LockStep
<1>3. CASE UNCHANGED vars
  BY <1>0, <1>3 DEF vars, ring, calls, RingSound, Types, Fill, SeenHolds, Slot,
     LockSound, HasLock
<1> QED  BY <1>1, <1>2, <1>3 DEF Next

LEMMA Invariance == Spec => []Inv
<1>1. Init => Inv  BY InitInv DEF Inv
<1> QED  BY <1>1, InvStep, PTL DEF Spec

-----------------------------------------------------------------------------
(* The theorems.                                                           *)

(* Until a key comes while a reader executes the C code of kbd_getchar, or *)
(* a reader has to wait for the semaphore, kbd_getchar does not return     *)
(* EOF: between its loop and ringbuffer_get, and inside that, no other     *)
(* reader can empty the buffer, wherever in the loop of the semaphore the  *)
(* others are and whatever keys do to their EAX there.                     *)
THEOREM NoEOF == Spec => []NeverEOF
<1>1. Inv => NeverEOF  BY DEF Inv, RingSound, Types, Labels, NeverEOF
<1> QED  BY <1>1, Invariance, PTL

\* One step of the keyboard is a step of the queue, or none.
LEMMA QueueStep ==
  Inv /\ [Next]_vars => [Queue!Next]_<<Contents, delivered, broken>>
<1> SUFFICES ASSUME Inv, [Next]_vars, ~broken'
             PROVE  \/ Queue!Type \/ Queue!Read
                    \/ UNCHANGED <<Contents, delivered>>
  <2> SUFFICES ASSUME Inv, [Next]_vars
               PROVE  [Queue!Next]_<<Contents, delivered, broken>>
    OBVIOUS
  <2>1. broken => broken'  BY BrokenStays
  <2>2. CASE broken'  BY <2>2 DEF Queue!Next
  <2>3. CASE ~broken'
    <3>1. ~broken  BY <2>1, <2>3
    <3>2. UNCHANGED broken  BY <3>1, <2>3 DEF broken
    <3> QED  BY <2>3, <3>1, <3>2 DEF Queue!Next
  <2> QED  BY <2>2, <2>3
<1>0. RingSound /\ LockSound  BY BrokenStays DEF Inv
<1>1. ASSUME UNCHANGED <<ring, delivered>> PROVE UNCHANGED <<Contents, delivered>>
  BY <1>1 DEF ring, Contents, Slot
<1>2. CASE Irq1
  <2>1. UNCHANGED delivered  BY <1>2 DEF Irq1, calls
  <2>2. CASE UNCHANGED ring  BY <1>1, <2>1, <2>2
  <2>3. ASSUME NEW c \in Chars, ringbuffer_put(c) /\ UNCHANGED tail
        PROVE  Queue!Type \/ UNCHANGED <<Contents, delivered>>
    <3>1. CASE ringbuffer_full
      BY <1>1, <2>1, <2>3, <3>1 DEF ringbuffer_put, ring
    <3>2. CASE ~ringbuffer_full
      <4>1. /\ buffer' = [buffer EXCEPT ![Slot(head)] = c]
            /\ head' = Increment(head) /\ tail' = tail
        BY <2>3, <3>2 DEF ringbuffer_put
      <4>2. Count < nb_elems
        BY <1>0, <3>2, CountType, WordAssumption DEF RingSound, ringbuffer_full, Fill, Count
      <4>3. Types'
        <5>1. UNCHANGED <<pc, thechar>>  BY <1>2 DEF Irq1, calls
        <5> QED  BY <1>0, <2>3, <5>1, PutStep DEF RingSound
      <4>4. Contents' = Append(Contents, c)
        BY <1>0, <4>1, <4>2, <4>3, PutAppends DEF RingSound
      <4>5. Len(Contents) < nb_elems  BY <1>0, <4>2, ContentsType DEF RingSound
      <4> QED  BY <2>1, <4>4, <4>5 DEF Queue!Type
    <3> QED  BY <3>1, <3>2
  <2>4. kbd_handle_key  BY <1>2 DEF Irq1
  <2> QED  BY <2>2, <2>3, <2>4, KeyCases
<1>3. ASSUME NEW r \in Readers, Advance(r) PROVE Queue!Read
  <2>1. /\ pc[r] = "tail" /\ tail' = Increment(tail)
        /\ UNCHANGED <<head, buffer>>
        /\ delivered' = Append(delivered, thechar[r])
    BY <1>0, <1>3, ComputedIs DEF Advance, At
  <2>2. head # tail /\ thechar[r] = buffer[Slot(tail)]
    BY <1>0, <2>1 DEF RingSound, SeenHolds
  <2>3. /\ Contents # <<>>
        /\ Head(Contents) = thechar[r]
        /\ Contents' = Tail(Contents)
    BY <1>0, <2>1, <2>2, GetTakesFirst DEF RingSound
  <2> QED  BY <2>1, <2>3 DEF Queue!Read
<1>4. ASSUME NEW r \in Readers, Call(r) \/ Reader(r), ~Advance(r)
      PROVE  UNCHANGED <<ring, delivered>>
  BY <1>4 DEF Call, Reader, Acquire, Free, Yield, GetLock, Test, While, Sleep, Get,
     Release, At, ring
<1>5. ASSUME UNCHANGED vars PROVE UNCHANGED <<ring, delivered>>
  BY <1>5 DEF vars, calls
<1> QED  BY <1>1, <1>2, <1>3, <1>4, <1>5 DEF Next

(* The ring buffer between the key interrupt and the readers implements    *)
(* the bounded queue, until it is broken in one of the two ways of         *)
(* NeverEOF: kbd_getchar returns what ringbuffer_put accepted, in order    *)
(* and once, across the wrap of head and tail.                             *)
THEOREM Refinement == Spec => ImplementsQueue
<1>1. Init => Queue!Init
  <2> SUFFICES ASSUME Init PROVE Queue!Init  OBVIOUS
  <2>1. Types  BY InitInv DEF RingSound
  <2>2. Len(Contents) = 0 /\ Contents \in Seq(Chars \cup {None})
    BY <2>1, ContentsType, CountType DEF Init
  <2>3. Contents = <<>>  BY <2>2
  <2> QED  BY <2>3 DEF Init, Queue!Init, broken
<1> QED  BY <1>1, Invariance, QueueStep, PTL DEF Spec, ImplementsQueue, Queue!Spec

-----------------------------------------------------------------------------
(* The shift keys.  Without stray make codes the counter is at most the    *)
(* number of keys that are down, and it exceeds it by their number at      *)
(* most; without stray break codes, and until the counter wraps, it is at  *)
(* least that number.                                                      *)
ShiftCounted ==
  /\ state_shift \in 0..(Byte - 1)
  /\ makes \in Nat /\ breaks \in Nat
  /\ pressed \in SUBSET Shift
  /\ state_shift <= Cardinality(pressed) + makes
  /\ breaks = 0 /\ makes + Cardinality(Shift) < Byte =>
       Cardinality(pressed) <= state_shift

\* The number of pressed keys, with one more and one less.
LEMMA PressedCount ==
  ASSUME NEW P \in SUBSET Shift
  PROVE  /\ Cardinality(P) \in Nat /\ Cardinality(Shift) \in Nat
         /\ Cardinality(P) <= Cardinality(Shift)
         /\ Cardinality(P) = 0 <=> P = {}
         /\ \A k \in Shift \ P : Cardinality(P \cup {k}) = Cardinality(P) + 1
         /\ \A k \in P : Cardinality(P \ {k}) = Cardinality(P) - 1
<1>1. IsFiniteSet(Shift)  BY KeysAssumption
<1>2. IsFiniteSet(P) /\ Cardinality(P) <= Cardinality(Shift)  BY <1>1, FS_Subset
<1>3. Cardinality(P) \in Nat /\ Cardinality(Shift) \in Nat  BY <1>1, <1>2, FS_CardinalityType
<1>4. Cardinality(P) = 0 <=> P = {}  BY <1>2, FS_EmptySet
<1>5. \A k \in Shift \ P : Cardinality(P \cup {k}) = Cardinality(P) + 1
  BY <1>2, FS_AddElement
<1>6. \A k \in P : Cardinality(P \ {k}) = Cardinality(P) - 1
  BY <1>2, FS_RemoveElement
<1> QED  BY <1>2, <1>3, <1>4, <1>5, <1>6

\* shift is active while a shift key is down, whatever the order of the two
\* keys in add_mods and remove_mods, without stray break codes and until stray
\* make codes wrap the counter; and only then, without stray make codes.
THEOREM ShiftCorrect == Spec => []ShiftTracksKeys
<1> USE KeysAssumption
<1>1. Init => ShiftCounted
  <2> SUFFICES ASSUME Init PROVE ShiftCounted  OBVIOUS
  <2>1. pressed \in SUBSET Shift /\ pressed = {}  BY DEF Init
  <2>2. Cardinality(pressed) = 0  BY <2>1, PressedCount
  <2> QED  BY <2>1, <2>2 DEF Init, ShiftCounted
<1>2. ShiftCounted /\ [Next]_vars => ShiftCounted'
  <2> SUFFICES ASSUME ShiftCounted, [Next]_vars PROVE ShiftCounted'  OBVIOUS
  <2>1. ASSUME UNCHANGED shift PROVE ShiftCounted'
    BY <2>1 DEF ShiftCounted, shift
  <2> DEFINE n == Cardinality(pressed)
             m == Cardinality(Shift)
  <2>2. n \in Nat /\ m \in Nat /\ n <= m  BY PressedCount DEF ShiftCounted
  <2>a. WithMod = IF state_shift + 1 = Byte THEN 0 ELSE state_shift + 1
    <3>1. state_shift + 1 \in 1..Byte  BY DEF ShiftCounted
    <3> QED  BY <3>1 DEF WithMod
  <2>3. ASSUME NEW k \in Shift, ShiftDown(k) PROVE ShiftCounted'
    <3>1. /\ pressed' \in SUBSET Shift /\ UNCHANGED <<makes, breaks>>
          /\ state_shift' = WithMod
      BY <2>3 DEF ShiftDown, ShiftCounted
    <3>2. Cardinality(pressed') = n + 1
      BY <2>3, PressedCount DEF ShiftDown, ShiftCounted
    <3>3. Cardinality(pressed') <= m  BY <3>1, PressedCount
    <3> HIDE DEF n, m
    <3>4. state_shift' \in 0..(Byte - 1)  BY <3>1, <2>a DEF ShiftCounted
    <3>5. state_shift' <= Cardinality(pressed') + makes'
      BY <3>1, <3>2, <2>a, <2>2 DEF ShiftCounted, n
    <3>6. breaks' = 0 /\ makes' + m < Byte => Cardinality(pressed') <= state_shift'
      BY <3>1, <3>2, <3>3, <2>a, <2>2 DEF ShiftCounted, n, m
    <3> QED  BY <3>1, <3>4, <3>5, <3>6 DEF ShiftCounted, m
  <2>4. ASSUME NEW k, ShiftUp(k) PROVE ShiftCounted'
    <3>1. /\ k \in pressed /\ pressed' = pressed \ {k}
          /\ state_shift' = IF state_shift # 0 THEN state_shift - 1 ELSE 0
          /\ UNCHANGED <<makes, breaks>>
      BY <2>4 DEF ShiftUp, WithoutMod
    <3>2. Cardinality(pressed') = n - 1 /\ n \in Nat \ {0}
      BY <3>1, <2>2, PressedCount DEF ShiftCounted
    <3> HIDE DEF n, m
    <3> QED  BY <3>1, <3>2, <2>2 DEF ShiftCounted, n, m
  <2>5. ASSUME StrayMake PROVE ShiftCounted'
    <3>1. /\ UNCHANGED <<pressed, breaks>> /\ makes' = makes + 1
          /\ state_shift' = WithMod
      BY <2>5 DEF StrayMake
    <3> HIDE DEF n, m
    <3>2. state_shift' \in 0..(Byte - 1)  BY <3>1, <2>a DEF ShiftCounted
    <3>3. state_shift' <= n + makes'
      BY <3>1, <2>a, <2>2 DEF ShiftCounted, n
    <3>4. breaks' = 0 /\ makes' + m < Byte => n <= state_shift'
      BY <3>1, <2>a, <2>2 DEF ShiftCounted, n, m
    <3> QED  BY <3>1, <3>2, <3>3, <3>4 DEF ShiftCounted, n, m
  <2>6. ASSUME StrayBreak PROVE ShiftCounted'
    <3>1. /\ UNCHANGED <<pressed, makes>> /\ breaks' = breaks + 1
          /\ state_shift' = IF state_shift # 0 THEN state_shift - 1 ELSE 0
      BY <2>6 DEF StrayBreak, WithoutMod
    <3> HIDE DEF n, m
    <3> QED  BY <3>1, <2>2 DEF ShiftCounted, n, m
  <2>7. ASSUME NEW r \in Readers, Call(r) \/ Reader(r) PROVE UNCHANGED shift
    BY <2>7 DEF Reader, Call, Acquire, Free, Yield, GetLock, Test, While, Sleep, Get,
       Advance, Release, At
  <2>8. ASSUME NEW k \in Regular, KeyDown(k) PROVE UNCHANGED shift
    BY <2>8 DEF KeyDown
  <2>9. ASSUME KeyIgnored \/ UNCHANGED vars PROVE UNCHANGED shift
    BY <2>9 DEF KeyIgnored, vars
  <2> QED
    BY <2>1, <2>3, <2>4, <2>5, <2>6, <2>7, <2>8, <2>9 DEF Next, Irq1, kbd_handle_key
<1>3. ShiftCounted => ShiftTracksKeys
  <2> SUFFICES ASSUME ShiftCounted PROVE ShiftTracksKeys  OBVIOUS
  <2>1. /\ Cardinality(pressed) \in Nat
        /\ Cardinality(pressed) = 0 <=> pressed = {}
    BY PressedCount DEF ShiftCounted
  <2> QED  BY <2>1 DEF ShiftCounted, ShiftTracksKeys, get_active_mod
<1> QED  BY <1>1, <1>2, <1>3, PTL DEF Spec

-----------------------------------------------------------------------------
(* Powers.                                                                 *)

\* The equation that Power chooses its function by.
IsPower(p, b, k) == p = [i \in 0..k |-> IF i = 0 THEN 1 ELSE b * p[i - 1]]

LEMMA PowerIsPower ==
  ASSUME NEW b \in Nat \ {0}, NEW k \in Nat
  PROVE  \E p \in [0..k -> Nat \ {0}] :
           /\ Power(b, k) = p[k]
           /\ p[0] = 1 /\ \A i \in 1..k : p[i] = b * p[i - 1]
<1> DEFINE V == Nat \ {0}
           g == [i \in 1..k |-> [x \in V |-> b * x]]
<1>1. \E p : IsPower(p, b, k)
  <2>1. \A x \in V : b * x \in V
    <3> SUFFICES ASSUME NEW x \in V PROVE b * x \in V  OBVIOUS
    <3>1. b * x \in Nat  OBVIOUS
    <3>2. b * x # 0  OBVIOUS
    <3> QED  BY <3>1, <3>2
  <2>2. \A i \in 1..k : \A x \in V : g[i][x] = b * x  OBVIOUS
  <2>3. PICK f : Recursion(f, 1, g, k, V)
    <3>1. StepsIn(g, k, V) /\ 1 \in V  BY <2>1, <2>2 DEF StepsIn
    <3> HIDE DEF g, V
    <3> QED  BY <3>1, RecursionExists
  <2>4. f \in [0..k -> V] /\ f[0] = 1 /\ \A i \in 1..k : f[i] = b * f[i - 1]
    <3> HIDE DEF g, V
    <3>1. \A i \in 1..k : i - 1 \in 0..k  OBVIOUS
    <3> QED  BY <2>2, <2>3, <3>1 DEF Recursion
  <2>5. f = [i \in 0..k |-> IF i = 0 THEN 1 ELSE b * f[i - 1]]
    <3> DEFINE h == [i \in 0..k |-> IF i = 0 THEN 1 ELSE b * f[i - 1]]
    <3>1. \A i \in 0..k : f[i] = h[i]  BY <2>4
    <3>2. DOMAIN f = 0..k /\ f = [i \in DOMAIN f |-> f[i]]  BY <2>4
    <3> QED  BY <3>1, <3>2
  <2> QED  BY <2>5 DEF IsPower
<1> DEFINE p == CHOOSE f : IsPower(f, b, k)
<1>2. IsPower(p, b, k) /\ Power(b, k) = p[k]  BY <1>1 DEF Power, IsPower
<1> HIDE DEF p
<1>3. p[0] = 1 /\ \A i \in 1..k : p[i] = b * p[i - 1]  BY <1>2 DEF IsPower
<1> DEFINE Bad == {i \in 0..k : p[i] \notin V}
<1>4. Bad = {}
  <2> SUFFICES ASSUME Bad # {} PROVE FALSE  OBVIOUS
  <2>1. PICK i \in Bad : \A j \in Bad : i <= j
    <3>1. Bad \in SUBSET Nat  OBVIOUS
    <3> HIDE DEF Bad
    <3> QED  BY <3>1, LeastElement
  <2>2. i # 0  BY <1>3
  <2>3. i \in 1..k /\ i - 1 \in 0..k /\ ~(i <= i - 1)  BY <2>2
  <2>4. p[i - 1] \in V  BY <2>1, <2>3
  <2>5. p[i] = b * p[i - 1]  BY <1>3, <2>3
  <2>6. \A x \in V : b * x \in V
    <3> SUFFICES ASSUME NEW x \in V PROVE b * x \in V  OBVIOUS
    <3>1. b * x \in Nat  OBVIOUS
    <3>2. b * x # 0  OBVIOUS
    <3> QED  BY <3>1, <3>2
  <2> QED  BY <2>4, <2>5, <2>6
<1>5. p \in [0..k -> V]
  <2>1. p = [i \in 0..k |-> p[i]]  BY <1>2 DEF IsPower
  <2> QED  BY <1>4, <2>1
<1> QED  BY <1>2, <1>3, <1>5

\* The equations of Power.
LEMMA PowerSteps ==
  ASSUME NEW b \in Nat \ {0}, NEW k \in Nat
  PROVE  /\ Power(b, k) \in Nat \ {0}
         /\ Power(b, 0) = 1
         /\ Power(b, k + 1) = b * Power(b, k)
<1>1. PICK p \in [0..k -> Nat \ {0}] :
        /\ Power(b, k) = p[k]
        /\ p[0] = 1 /\ \A i \in 1..k : p[i] = b * p[i - 1]
  BY PowerIsPower
<1>2. PICK q \in [0..(k + 1) -> Nat \ {0}] :
        /\ Power(b, k + 1) = q[k + 1]
        /\ q[0] = 1 /\ \A i \in 1..(k + 1) : q[i] = b * q[i - 1]
  <2>1. k + 1 \in Nat  OBVIOUS
  <2> QED  BY <2>1, PowerIsPower
<1>3. Power(b, 0) = 1
  <2>1. 0 \in Nat  OBVIOUS
  <2>2. PICK r \in [0..0 -> Nat \ {0}] :
          /\ Power(b, 0) = r[0]
          /\ r[0] = 1 /\ \A i \in 1..0 : r[i] = b * r[i - 1]
    BY <2>1, PowerIsPower
  <2> QED  BY <2>2
<1> DEFINE Bad == {i \in 0..k : p[i] # q[i]}
<1>4. Bad = {}
  <2> SUFFICES ASSUME Bad # {} PROVE FALSE  OBVIOUS
  <2>1. PICK i \in Bad : \A j \in Bad : i <= j
    <3>1. Bad \in SUBSET Nat  OBVIOUS
    <3> HIDE DEF Bad
    <3> QED  BY <3>1, LeastElement
  <2>2. i # 0  BY <1>1, <1>2
  <2>3. i \in 1..k /\ i \in 1..(k + 1) /\ i - 1 \in 0..k /\ ~(i <= i - 1)  BY <2>2
  <2>4. p[i - 1] = q[i - 1]  BY <2>1, <2>3
  <2>5. p[i] = b * p[i - 1] /\ q[i] = b * q[i - 1]  BY <1>1, <1>2, <2>3
  <2> QED  BY <2>4, <2>5
<1>5. p[k] = q[k] /\ k + 1 \in 1..(k + 1) /\ (k + 1) - 1 = k
  <2>1. \A i \in 0..k : p[i] = q[i]  BY <1>4
  <2>2. k \in 0..k /\ k + 1 \in 1..(k + 1) /\ (k + 1) - 1 = k  OBVIOUS
  <2> QED  BY <2>1, <2>2
<1>6. q[k + 1] = b * q[k]  BY <1>2, <1>5
<1> QED  BY <1>1, <1>2, <1>3, <1>5, <1>6

LEMMA PowerSum ==
  ASSUME NEW b \in Nat \ {0}, NEW i \in Nat, NEW j \in Nat
  PROVE  Power(b, i + j) = Power(b, i) * Power(b, j)
<1> DEFINE Good(m) == Power(b, i + m) = Power(b, i) * Power(b, m)
           Bad == {m \in Nat : ~Good(m)}
<1>1. Good(0)
  <2>1. Power(b, 0) = 1 /\ Power(b, i) \in Nat /\ i + 0 = i  BY PowerSteps
  <2>2. Power(b, i) * 1 = Power(b, i)  BY <2>1
  <2> QED  BY <2>1, <2>2
<1>2. ASSUME NEW m \in Nat, Good(m) PROVE Good(m + 1)
  <2> DEFINE P == Power(b, i)
             Q == Power(b, m)
             R == Power(b, i + m)
  <2>1. i + m \in Nat /\ i + (m + 1) = (i + m) + 1  OBVIOUS
  <2>2. Power(b, (i + m) + 1) = b * R /\ Power(b, m + 1) = b * Q
        /\ P \in Nat /\ Q \in Nat /\ R \in Nat
    BY <2>1, PowerSteps
  <2>3. R = P * Q  BY <1>2
  <2> HIDE DEF P, Q, R
  <2>4. b * (P * Q) = P * (b * Q)  BY <2>2
  <2> QED  BY <2>1, <2>2, <2>3, <2>4 DEF P
<1> HIDE DEF Good
<1>3. Bad = {}
  <2> SUFFICES ASSUME Bad # {} PROVE FALSE  OBVIOUS
  <2>1. PICK m \in Bad : \A k \in Bad : m <= k
    <3>1. Bad \in SUBSET Nat  OBVIOUS
    <3> HIDE DEF Bad
    <3> QED  BY <3>1, LeastElement
  <2>2. m # 0  BY <1>1
  <2>3. m - 1 \in Nat /\ (m - 1) + 1 = m /\ ~(m <= m - 1)  BY <2>2
  <2>4. Good(m - 1)  BY <2>1, <2>3
  <2>5. Good(m)  BY <1>2, <2>3, <2>4
  <2> QED  BY <2>5
<1> QED  BY <1>3 DEF Good

LEMMA PowerOrder ==
  ASSUME NEW b \in Nat \ {0}, NEW i \in Nat, NEW j \in Nat, i <= j
  PROVE  Power(b, i) <= Power(b, j)
<1> DEFINE P == Power(b, i)
           Q == Power(b, j - i)
<1>1. j - i \in Nat /\ i + (j - i) = j  OBVIOUS
<1>2. P \in Nat \ {0} /\ Q \in Nat \ {0}  BY <1>1, PowerSteps
<1>3. Power(b, j) = P * Q
  <2>1. Power(b, i + (j - i)) = P * Q  BY <1>1, PowerSum
  <2> QED  BY <1>1, <2>1
<1> HIDE DEF P, Q
<1>4. P <= P * Q  BY <1>2
<1> QED  BY <1>3, <1>4 DEF P


-----------------------------------------------------------------------------
(* The number of leading zeros.                                            *)

\* One shift of nlz.
ShiftStep(i, p) ==
  LET k == Power(2, Shifts - i)
  IN IF p[1] < Power(2, HalfBits - k)
       THEN <<p[1] * Power(2, k), p[2] + k>> ELSE p

\* What nlz has after each shift.
IsShifting(f, x) ==
  f = [i \in 0..Shifts |-> IF i = 0 THEN <<x, 0>> ELSE ShiftStep(i, f[i - 1])]

LEMMA ShiftingExists ==
  ASSUME NEW x \in Nat
  PROVE  \E f : IsShifting(f, x)
<1> DEFINE V == Nat \X Nat
           g == [i \in 1..Shifts |-> [p \in V |-> ShiftStep(i, p)]]
<1>1. ASSUME NEW i \in 1..Shifts, NEW p \in V PROVE ShiftStep(i, p) \in V
  <2> DEFINE k == Power(2, Shifts - i)
             q == Power(2, k)
  <2>1. Shifts - i \in Nat  BY ShiftsAssumption
  <2>2. k \in Nat \ {0}  BY <2>1, PowerSteps
  <2>3. q \in Nat \ {0}
    <3>1. k \in Nat /\ 2 \in Nat \ {0}  BY <2>2
    <3> HIDE DEF k
    <3> QED  BY ONLY <3>1, PowerSteps
  <2>4. p[1] \in Nat /\ p[2] \in Nat  OBVIOUS
  <2>5. ShiftStep(i, p) = <<p[1] * q, p[2] + k>> \/ ShiftStep(i, p) = p
    BY DEF ShiftStep
  <2> HIDE DEF q, k
  <2>6. p[1] * q \in Nat /\ p[2] + k \in Nat  BY <2>2, <2>3, <2>4
  <2> QED  BY <2>5, <2>6
<1>2. \A i \in 1..Shifts : \A p \in V : g[i][p] = ShiftStep(i, p)  OBVIOUS
<1>3. PICK f : Recursion(f, <<x, 0>>, g, Shifts, V)
  <2>1. StepsIn(g, Shifts, V) /\ <<x, 0>> \in V  BY <1>1, <1>2 DEF StepsIn
  <2>2. Shifts \in Nat  BY ShiftsAssumption
  <2> HIDE DEF g, V
  <2> QED  BY <2>1, <2>2, RecursionExists
<1>4. f \in [0..Shifts -> V] /\ f[0] = <<x, 0>>
      /\ \A i \in 1..Shifts : f[i] = ShiftStep(i, f[i - 1])
  <2>1. Shifts \in Nat  BY ShiftsAssumption
  <2>2. \A i \in 1..Shifts : i - 1 \in 0..Shifts  BY <2>1
  <2> HIDE DEF g, V
  <2> QED  BY <1>2, <1>3, <2>2 DEF Recursion
<1>5. f = [i \in 0..Shifts |-> IF i = 0 THEN <<x, 0>> ELSE ShiftStep(i, f[i - 1])]
  <2> DEFINE h == [i \in 0..Shifts |-> IF i = 0 THEN <<x, 0>> ELSE ShiftStep(i, f[i - 1])]
  <2>1. \A i \in 0..Shifts : f[i] = h[i]
    <3>1. Shifts \in Nat  BY ShiftsAssumption
    <3>2. \A i \in 0..Shifts : i = 0 \/ i \in 1..Shifts  BY <3>1
    <3> QED  BY <1>4, <3>2
  <2>2. DOMAIN f = 0..Shifts /\ f = [i \in DOMAIN f |-> f[i]]  BY <1>4
  <2> QED  BY <2>1, <2>2
<1> QED  BY <1>5 DEF IsShifting

\* The sizes: HalfBits is at least 4.
LEMMA Sizes ==
  /\ HalfBits \in Nat /\ HalfBits >= 4
  /\ Half \in Nat /\ Half >= 16
  /\ Half = 2 * Power(2, HalfBits - 1)
  /\ Whole \in Nat /\ Whole >= 2 * Half
<1>1. Shifts \in Nat /\ 2 \in Nat /\ 2 <= Shifts /\ 4 \in Nat  BY ShiftsAssumption
<1>2. Power(2, 2) = 4 /\ Power(2, 4) = 16
  <2>1. 0 \in Nat /\ 1 \in Nat /\ 2 \in Nat /\ 3 \in Nat /\ 2 \in Nat \ {0}
        /\ 0 + 1 = 1 /\ 1 + 1 = 2 /\ 2 + 1 = 3 /\ 3 + 1 = 4  OBVIOUS
  <2>2. Power(2, 0) = 1 /\ Power(2, 0 + 1) = 2 * Power(2, 0)  BY <2>1, PowerSteps
  <2>3. Power(2, 1) = 2  BY <2>1, <2>2
  <2>4. Power(2, 1 + 1) = 2 * Power(2, 1)  BY <2>1, PowerSteps
  <2>5. Power(2, 2) = 4  BY <2>1, <2>3, <2>4
  <2>6. Power(2, 2 + 1) = 2 * Power(2, 2)  BY <2>1, PowerSteps
  <2>7. Power(2, 3) = 8  BY <2>1, <2>5, <2>6
  <2>8. Power(2, 3 + 1) = 2 * Power(2, 3)  BY <2>1, PowerSteps
  <2> QED  BY <2>1, <2>5, <2>7, <2>8
<1>3. HalfBits \in Nat \ {0} /\ HalfBits >= 4
  <2>1. Power(2, 2) <= Power(2, Shifts)  BY <1>1, PowerOrder
  <2>2. Power(2, Shifts) \in Nat \ {0}  BY <1>1, PowerSteps
  <2> QED  BY <1>2, <2>1, <2>2 DEF HalfBits
<1>4. Half \in Nat /\ Half >= 16
  <2>1. Power(2, 4) <= Power(2, HalfBits)  BY <1>1, <1>3, PowerOrder
  <2>2. Power(2, HalfBits) \in Nat \ {0}  BY <1>3, PowerSteps
  <2> QED  BY <1>2, <2>1, <2>2 DEF Half
<1>5. Half = 2 * Power(2, HalfBits - 1)
  <2>1. HalfBits - 1 \in Nat /\ (HalfBits - 1) + 1 = HalfBits  BY <1>3
  <2>2. Power(2, (HalfBits - 1) + 1) = 2 * Power(2, HalfBits - 1)  BY <2>1, PowerSteps
  <2> QED  BY <2>1, <2>2 DEF Half
<1>6. Whole \in Nat /\ Whole >= 2 * Half
  <2>1. \A h \in Nat : h >= 16 => h * h \in Nat /\ h * h >= 2 * h
    <3> SUFFICES ASSUME NEW h \in Nat, h >= 16 PROVE h * h \in Nat /\ h * h >= 2 * h
      OBVIOUS
    <3>1. (h - 2) * h >= 0  OBVIOUS
    <3>2. (h - 2) * h = h * h - 2 * h  OBVIOUS
    <3> QED  BY <3>1, <3>2
  <2> HIDE DEF Half
  <2> QED  BY <1>4, <2>1 DEF Whole
<1> QED  BY <1>3, <1>4, <1>5, <1>6

\* What holds before the shift by k / 2: p[1] is x shifted by p[2], and none of
\* its first k bits are left to look at but k.
Shifting(p, x, k) ==
  /\ k \in 1..HalfBits /\ p[2] \in 0..(HalfBits - k)
  /\ p[1] = x * Power(2, p[2])
  /\ p[1] \in Nat /\ p[1] < Half /\ p[1] >= Power(2, HalfBits - k)

LEMMA ShiftKeeps ==
  ASSUME NEW x \in Nat, NEW i \in 1..Shifts, NEW p,
         Shifting(p, x, Power(2, Shifts - (i - 1)))
  PROVE  Shifting(ShiftStep(i, p), x, Power(2, Shifts - i))
<1> DEFINE k == Power(2, Shifts - i)
           K == Power(2, Shifts - (i - 1))
           y == p[1]
           c == p[2]
           A == Power(2, HalfBits - K)
           B == Power(2, HalfBits - k)
           S == Power(2, k)
           C == Power(2, c)
<1>0. Shifts \in Nat /\ HalfBits \in Nat  BY ShiftsAssumption, Sizes
<1>1. K = 2 * k /\ k \in Nat \ {0}
  <2>1. Shifts - i \in Nat /\ (Shifts - i) + 1 = Shifts - (i - 1)  BY <1>0
  <2> QED  BY <2>1, PowerSteps
<1>2. K \in 1..HalfBits /\ c \in 0..(HalfBits - K) /\ y = x * C /\ y \in Nat
      /\ y < Half /\ y >= A
  BY DEF Shifting
<1>3. ShiftStep(i, p) = IF y < B THEN <<y * S, c + k>> ELSE p  BY DEF ShiftStep
<1> HIDE DEF K, k, y, c
<1>4. HalfBits - K \in Nat /\ HalfBits - k \in Nat /\ c \in Nat /\ c + k \in Nat
      /\ HalfBits - k = (HalfBits - K) + k /\ HalfBits = (HalfBits - k) + k
      /\ k \in 1..HalfBits /\ c \in 0..(HalfBits - k) /\ c + k \in 0..(HalfBits - k)
  BY <1>0, <1>1, <1>2
<1>5. A \in Nat \ {0} /\ B \in Nat \ {0} /\ S \in Nat \ {0} /\ C \in Nat \ {0}
  BY <1>1, <1>4, PowerSteps
<1>6. B = A * S
  <2>1. Power(2, (HalfBits - K) + k) = A * S  BY <1>1, <1>4, PowerSum
  <2> QED  BY <1>4, <2>1
<1>7. Half = B * S
  <2>1. Power(2, (HalfBits - k) + k) = B * S  BY <1>1, <1>4, PowerSum
  <2> QED  BY <1>4, <2>1 DEF Half
<1>8. Power(2, c + k) = C * S  BY <1>1, <1>4, PowerSum
<1>9. CASE y < B
  <2>1. ShiftStep(i, p) = <<y * S, c + k>>  BY <1>3, <1>9
  <2> HIDE DEF A, B, S, C
  <2>2. y * S \in Nat /\ y * S = x * (C * S)  BY <1>2, <1>5
  <2>3. y * S < B * S  BY <1>2, <1>5, <1>9, MultipleOrder
  <2>4. A * S <= y * S  BY <1>2, <1>5, MultipleOrder
  <2>5. <<y * S, c + k>>[1] = y * S /\ <<y * S, c + k>>[2] = c + k  OBVIOUS
  <2>6. Shifting(<<y * S, c + k>>, x, k)
    BY <1>4, <1>6, <1>7, <1>8, <2>2, <2>3, <2>4, <2>5 DEF Shifting, B
  <2> QED  BY <2>1, <2>6 DEF k
<1>10. CASE ~(y < B)
  <2>1. ShiftStep(i, p) = p  BY <1>3, <1>10
  <2>2. y >= B
    <3> HIDE DEF B
    <3> QED  BY <1>2, <1>5, <1>10
  <2>3. Shifting(p, x, k)  BY <1>2, <1>4, <2>2 DEF Shifting, y, c
  <2> QED  BY <2>1, <2>3 DEF k
<1> QED  BY <1>9, <1>10

LEMMA nlzCounts ==
  ASSUME NEW x \in 1..(Half - 1)
  PROVE  \E s \in 0..(HalfBits - 1) :
           /\ nlz(x) = s
           /\ Power(2, HalfBits - 1) <= x * Power(2, s)
           /\ x * Power(2, s) < Half
<1> DEFINE f == CHOOSE h : IsShifting(h, x)
<1>0. Shifts \in Nat /\ HalfBits \in Nat /\ HalfBits >= 4 /\ Half \in Nat /\ x \in Nat
      /\ Half >= 16
  BY ShiftsAssumption, Sizes
<1>1. IsShifting(f, x)  BY <1>0, ShiftingExists
<1>2. nlz(x) = f[Shifts][2]  BY DEF nlz, IsShifting, ShiftStep
<1> HIDE DEF f
<1> DEFINE Bad == {i \in 0..Shifts : ~Shifting(f[i], x, Power(2, Shifts - i))}
<1>3. f[0] = <<x, 0>> /\ \A i \in 1..Shifts : f[i] = ShiftStep(i, f[i - 1])
  <2>1. 0 \in 0..Shifts /\ \A i \in 1..Shifts : i \in 0..Shifts /\ i # 0  BY <1>0
  <2> QED  BY <1>1, <2>1 DEF IsShifting
<1>4. 0 \notin Bad
  <2>1. Shifts - 0 = Shifts /\ Power(2, Shifts) = HalfBits /\ HalfBits - HalfBits = 0
    BY <1>0 DEF HalfBits
  <2>2. Power(2, 0) = 1  BY <1>0, PowerSteps
  <2>3. f[0][1] = x /\ f[0][2] = 0  BY <1>3
  <2>4. x * Power(2, 0) = x /\ x >= 1 /\ x < Half  BY <1>0, <2>2
  <2>5. HalfBits \in 1..HalfBits /\ 0 \in 0..(HalfBits - HalfBits)  BY <1>0
  <2>6. Shifting(f[0], x, HalfBits)
    BY <1>0, <2>1, <2>2, <2>3, <2>4, <2>5 DEF Shifting
  <2> QED  BY <2>1, <2>6
<1>5. Bad = {}
  <2> SUFFICES ASSUME Bad # {} PROVE FALSE  OBVIOUS
  <2>1. PICK i \in Bad : \A j \in Bad : i <= j
    <3>1. Bad \in SUBSET Nat  OBVIOUS
    <3> HIDE DEF Bad
    <3> QED  BY <3>1, LeastElement
  <2>2. i \in 0..Shifts /\ i # 0 /\ ~Shifting(f[i], x, Power(2, Shifts - i))  BY <1>4
  <2>3. i \in 1..Shifts /\ i - 1 \in 0..Shifts /\ ~(i <= i - 1)  BY <1>0, <2>2
  <2>4. i - 1 \notin Bad  BY <2>1, <2>3
  <2>5. Shifting(f[i - 1], x, Power(2, Shifts - (i - 1)))  BY <2>3, <2>4
  <2> HIDE DEF Bad
  <2>6. Shifting(ShiftStep(i, f[i - 1]), x, Power(2, Shifts - i))
    BY <1>0, <2>3, <2>5, ShiftKeeps
  <2>7. f[i] = ShiftStep(i, f[i - 1])  BY <1>3, <2>3
  <2> QED  BY <2>2, <2>6, <2>7
<1>6. Shifting(f[Shifts], x, 1)
  <2>1. Shifts \in 0..Shifts /\ Shifts - Shifts = 0  BY <1>0
  <2>2. Shifting(f[Shifts], x, Power(2, Shifts - Shifts))  BY <1>5, <2>1
  <2>3. Power(2, 0) = 1  BY <1>0, PowerSteps
  <2> QED  BY <2>1, <2>2, <2>3
<1> DEFINE s == f[Shifts][2]
<1>7. s \in 0..(HalfBits - 1) /\ Power(2, HalfBits - 1) <= x * Power(2, s)
      /\ x * Power(2, s) < Half
  BY <1>6 DEF Shifting
<1> QED  BY <1>2, <1>7

-----------------------------------------------------------------------------
(* Division.                                                               *)

\* What quotient and remainder are.
IsQuotient(a, n, q, r) ==
  /\ q \in Int /\ r \in 0..(n - 1)
  /\ q * n <= a /\ a < q * n + n
  /\ r = a - q * n /\ a = q * n + r
  /\ a >= 0 => q \in Nat

LEMMA QuotientBounds ==
  ASSUME NEW n \in Nat \ {0}, NEW a \in Int
  PROVE  IsQuotient(a, n, a \div n, a % n)
<1> DEFINE q == a \div n
           r == a % n
           p == q * n
<1>1. a = n * q + r /\ r \in 0..(n - 1) /\ q \in Int  OBVIOUS
<1> HIDE DEF q, r
<1>2. p \in Int /\ a = p + r
  <2>1. q * n = n * q /\ q * n \in Int  BY <1>1
  <2> QED  BY <1>1, <2>1
<1>3. a >= 0 => q >= 0
  <2> SUFFICES ASSUME a >= 0, q < 0 PROVE FALSE  BY <1>1
  <2>1. (q + 1) * n <= 0  BY <1>1
  <2>2. (q + 1) * n = q * n + n  BY <1>1
  <2>3. p + n <= 0  BY <2>1, <2>2
  <2> HIDE DEF p
  <2> QED  BY <1>1, <1>2, <2>3
<1>4. p <= a /\ a < p + n /\ r = a - p
  <2> HIDE DEF p
  <2> QED  BY <1>1, <1>2
<1>5. IsQuotient(a, n, q, r)  BY <1>1, <1>2, <1>3, <1>4 DEF IsQuotient
<1> QED  BY <1>5 DEF q, r

LEMMA QuotientIs ==
  ASSUME NEW n \in Nat \ {0}, NEW a \in Int, NEW q \in Int, q * n <= a, a < q * n + n
  PROVE  a \div n = q /\ a % n = a - q * n
<1> DEFINE r == a - q * n
<1>1. q * n \in Int  OBVIOUS
<1>2. r \in 0..(n - 1) /\ a = q * n + r  BY <1>1
<1> HIDE DEF r
<1>3. (q * n + r) \div n = q /\ (q * n + r) % n = r  BY <1>2, QuotientRemainder
<1> QED  BY <1>2, <1>3 DEF r

\* The school division by one digit: the remainder of the first digit is less
\* than e, so the second quotient is a digit too.
LEMMA NarrowDivision ==
  ASSUME NEW H \in Nat \ {0}, NEW e \in Nat \ {0}, NEW m \in Nat
  PROVE  \E z \in Nat :
           /\ z = H * ((m \div H) % e) + (m % H)
           /\ z \div e \in Nat /\ z \div e < H
           /\ m \div e = z \div e + H * ((m \div H) \div e)
<1> DEFINE m1 == m \div H
           m0 == m % H
           q1 == m1 \div e
           r == m1 % e
           z == H * r + m0
           q0 == z \div e
<1>1. m1 \in Nat /\ m0 \in 0..(H - 1) /\ m = m1 * H + m0
  <2>1. IsQuotient(m, H, m1, m0)  BY QuotientBounds
  <2> HIDE DEF m1, m0
  <2> QED  BY <2>1 DEF IsQuotient
<1> HIDE DEF m1, m0
<1>2. q1 \in Nat /\ r \in 0..(e - 1) /\ m1 = q1 * e + r
  <2>1. IsQuotient(m1, e, q1, r)  BY <1>1, QuotientBounds
  <2> HIDE DEF q1, r
  <2> QED  BY <1>1, <2>1 DEF IsQuotient
<1> HIDE DEF q1, r
<1>3. z \in Nat
  <2>1. H * r \in Nat  BY <1>2
  <2> QED  BY <1>1, <2>1
<1>4. z < H * e
  <2>1. r <= e - 1 /\ r \in Int /\ e - 1 \in Int  BY <1>2
  <2>2. r * H <= (e - 1) * H  BY <2>1, MultipleOrder
  <2>3. r * H = H * r /\ (e - 1) * H = H * e - H  BY <1>2
  <2>4. H * r \in Int /\ H * e \in Int  BY <1>2
  <2>5. H * r <= H * e - H  BY <2>2, <2>3
  <2> DEFINE x == H * r
             y == H * e
  <2> HIDE DEF x, y
  <2>6. x + m0 < y  BY <1>1, <2>4, <2>5 DEF x, y
  <2> QED  BY <2>6 DEF x, y
<1>5. m = (H * q1) * e + z
  <2>1. m = (q1 * e + r) * H + m0  BY <1>1, <1>2
  <2>2. (q1 * e + r) * H = (H * q1) * e + H * r  BY <1>2
  <2>3. (H * q1) * e \in Int /\ H * r \in Int  BY <1>2
  <2>4. m = ((H * q1) * e + H * r) + m0  BY <2>1, <2>2
  <2> QED  BY <1>1, <2>3, <2>4
<1> HIDE DEF z
<1>6. q0 \in Nat /\ q0 * e <= z /\ z < q0 * e + e
  <2>1. IsQuotient(z, e, q0, z % e)  BY <1>3, QuotientBounds
  <2> HIDE DEF q0
  <2> QED  BY <1>3, <2>1 DEF IsQuotient
<1> HIDE DEF q0
<1>7. q0 < H
  <2>1. q0 * e < H * e
    <3>1. q0 * e \in Int /\ H * e \in Int  BY <1>6
    <3> QED  BY <1>3, <1>4, <1>6, <3>1
  <2> QED  BY <1>6, <2>1, MultipleOrder
<1>8. m \div e = q0 + H * q1
  <2> DEFINE x == H * q1
             u == x * e
             w == q0 * e
  <2>1. x \in Nat /\ u \in Int /\ w \in Int  BY <1>2, <1>6
  <2>2. (q0 + x) * e = u + w
    <3> HIDE DEF x
    <3> QED  BY <1>6, <2>1
  <2>3. u + w <= m /\ m < (u + w) + e
    <3>1. m = u + z /\ w <= z /\ z < w + e  BY <1>5, <1>6
    <3> HIDE DEF u, w
    <3> QED  BY <1>3, <2>1, <3>1
  <2> HIDE DEF x, u, w
  <2>4. q0 + x \in Int /\ (q0 + x) * e <= m /\ m < (q0 + x) * e + e
    BY <1>6, <2>1, <2>2, <2>3
  <2>5. m \div e = q0 + x  BY <2>4, QuotientIs
  <2> QED  BY <2>5 DEF x
<1>9. z \in Nat /\ q0 \in Nat /\ q0 < H /\ m \div e = q0 + H * q1
  BY <1>3, <1>6, <1>7, <1>8
<1>10. z = H * ((m \div H) % e) + (m % H)  BY DEF z, r, m0, m1
<1>11. q0 = z \div e /\ q1 = (m \div H) \div e  BY DEF q0, q1, m1
<1> QED  BY ONLY <1>9, <1>10, <1>11

\* With e normalised, its first digit gives a quotient that is one too large at
\* most: e is 2 * C * v and a rest delta.
LEMMA WideDivision ==
  ASSUME NEW H \in Nat \ {0}, NEW B \in Nat \ {0}, NEW C \in Nat \ {0},
         H = 2 * (B * C), NEW v \in Nat, v >= B * C, NEW delta \in 0..(2 * C - 1),
         NEW e \in Nat, e = v * (2 * C) + delta, NEW m \in Nat, e <= m, m < H * H
  PROVE  /\ (m \div 2) \div v \in Nat /\ (m \div 2) \div v < H
         /\ m \div e \in Nat \ {0}
         /\ ((m \div 2) \div v) \div C \in {m \div e, m \div e + 1}
<1> DEFINE h == m \div 2
           p == h \div v
           q == p \div C
           Q == m \div e
           D == v * (2 * C)
           G == B * C
<1>1. G \in Nat \ {0} /\ v \in Nat \ {0} /\ D \in Nat \ {0} /\ e \in Nat \ {0} /\ e = D + delta
  <2>1. G \in Nat \ {0}
    <3>1. G \in Nat  OBVIOUS
    <3>2. G # 0  OBVIOUS
    <3> QED  BY <3>1, <3>2
  <2>2. v \in Nat \ {0}
    <3> HIDE DEF G
    <3>1. v >= G  BY DEF G
    <3> QED  BY <2>1, <3>1
  <2>3. D \in Nat \ {0}
    <3>1. D \in Nat  OBVIOUS
    <3>2. D # 0  BY <2>2
    <3> QED  BY <3>1, <3>2
  <2> HIDE DEF D
  <2>4. e = D + delta  BY DEF D
  <2> QED  BY <2>1, <2>2, <2>3, <2>4
<1>2. h \in Nat /\ 2 * h <= m /\ m <= 2 * h + 1  OBVIOUS
<1> HIDE DEF h
<1>3. p \in Nat /\ p * v <= h /\ h < p * v + v
  <2>0. h \in Int /\ v \in Nat \ {0}  BY <1>1, <1>2
  <2>1. IsQuotient(h, v, p, h % v)  BY ONLY <2>0, QuotientBounds
  <2> HIDE DEF p
  <2> QED  BY <1>1, <1>2, <2>1 DEF IsQuotient
<1>4. p < H
  <2>1. 2 * h < H * H
    <3>1. H * H \in Nat  OBVIOUS
    <3> QED  BY <1>2, <3>1
  <2>2. H * H = 2 * (G * H)
    <3>1. H = 2 * G  OBVIOUS
    <3> HIDE DEF G
    <3>2. (2 * G) * H = 2 * (G * H)  BY <1>1
    <3> QED  BY <3>1, <3>2
  <2>3. G * H <= v * H
    <3>1. v >= G  OBVIOUS
    <3> HIDE DEF G
    <3> QED  BY <1>1, <3>1, MultipleOrder
  <2>4. h < v * H
    <3>1. G * H \in Int /\ v * H \in Int  OBVIOUS
    <3>2. h < G * H  BY <1>2, <2>1, <2>2, <3>1
    <3> HIDE DEF G
    <3> QED  BY <1>2, <2>3, <3>1, <3>2
  <2> HIDE DEF p
  <2>5. p * v < H * v
    <3>1. v * H = H * v /\ p * v \in Int /\ H * v \in Int  BY <1>3
    <3> QED  BY <1>2, <1>3, <2>4, <3>1
  <2> QED  BY <1>1, <1>3, <2>5, MultipleOrder
<1> HIDE DEF p
<1>5. q \in Nat /\ q * C <= p /\ p < q * C + C
  <2>0. p \in Int /\ C \in Nat \ {0}  BY <1>3
  <2>1. IsQuotient(p, C, q, p % C)  BY ONLY <2>0, QuotientBounds
  <2> HIDE DEF q
  <2> QED  BY <1>3, <2>1 DEF IsQuotient
<1> HIDE DEF q
<1>6. q * D <= m
  <2>1. (q * C) * v <= p * v  BY <1>1, <1>3, <1>5, MultipleOrder
  <2>2. q * D = 2 * ((q * C) * v) /\ (q * C) * v \in Int /\ p * v \in Int /\ q * D \in Int
    BY <1>1, <1>3, <1>5
  <2> DEFINE x == (q * C) * v
             y == p * v
             w == q * D
  <2>3. x <= y /\ w = 2 * x /\ x \in Int /\ y \in Int /\ y <= h  BY <1>3, <2>1, <2>2
  <2> HIDE DEF x, y, w
  <2>4. w <= m  BY <1>2, <2>3
  <2> QED  BY <2>4 DEF w
<1>7. m < (q + 1) * D
  <2>1. p + 1 <= (q + 1) * C
    <3>1. q * C \in Int /\ (q + 1) * C = q * C + C  BY <1>5
    <3> QED  BY <1>3, <1>5, <3>1
  <2>2. (p + 1) * v <= ((q + 1) * C) * v
    <3>1. p + 1 \in Int /\ (q + 1) * C \in Int  BY <1>3, <1>5
    <3> DEFINE x == p + 1
               y == (q + 1) * C
    <3>2. x <= y /\ x \in Int /\ y \in Int  BY <2>1, <3>1
    <3> HIDE DEF x, y
    <3>3. x * v <= y * v  BY <1>1, <3>2, MultipleOrder
    <3> QED  BY <3>3 DEF x, y
  <2>3. (q + 1) * D = 2 * (((q + 1) * C) * v) /\ ((q + 1) * C) * v \in Int
        /\ (p + 1) * v = p * v + v /\ p * v \in Int /\ (q + 1) * D \in Int
    BY <1>1, <1>3, <1>5
  <2> DEFINE x == ((q + 1) * C) * v
             y == p * v
             w == (q + 1) * D
  <2>4. y + v <= x /\ w = 2 * x /\ x \in Int /\ y \in Int /\ h < y + v
    BY <1>3, <2>2, <2>3
  <2> HIDE DEF x, y, w
  <2>5. m < w  BY <1>1, <1>2, <2>4
  <2> QED  BY <2>5 DEF w
<1>8. Q \in Nat /\ Q * e <= m /\ m < Q * e + e
  <2>0. m \in Int /\ e \in Nat \ {0}  BY <1>1
  <2>1. IsQuotient(m, e, Q, m % e)  BY ONLY <2>0, QuotientBounds
  <2> HIDE DEF Q
  <2> QED  BY <1>1, <2>1 DEF IsQuotient
<1> HIDE DEF Q
<1>9. Q # 0
  <2> SUFFICES ASSUME Q = 0 PROVE FALSE  OBVIOUS
  <2>1. Q * e = 0  BY <1>1
  <2> QED  BY <1>1, <1>8, <2>1
<1> HIDE DEF D
<1>10. Q <= q
  <2>1. Q * D <= Q * e
    <3>1. Q * e = Q * D + Q * delta /\ Q * D \in Int /\ Q * delta \in Nat
      BY <1>1, <1>8
    <3> QED  BY <3>1
  <2>2. Q * D < (q + 1) * D
    <3>1. Q * D \in Int /\ (q + 1) * D \in Int /\ Q * e \in Int  BY <1>1, <1>5, <1>8
    <3> QED  BY <1>7, <1>8, <2>1, <3>1
  <2>3. Q < q + 1
    <3>1. q + 1 \in Int /\ Q \in Int  BY <1>5, <1>8
    <3> QED  BY <1>1, <2>2, <3>1, MultipleOrder
  <2> QED  BY <1>5, <1>8, <2>3
<1>11. D >= H * C
  <2>1. H * C = G * (2 * C)  BY <1>1
  <2>2. G * (2 * C) <= v * (2 * C)
    <3>1. v >= G /\ 2 * C \in Nat \ {0}  OBVIOUS
    <3> HIDE DEF G
    <3> QED  BY <1>1, <3>1, MultipleOrder
  <2> QED  BY <2>1, <2>2 DEF D
<1>12. Q + 1 <= 2 * B
  <2>1. Q * (H * C) <= Q * D
    <3>1. Q * (D - H * C) >= 0
      <4>1. D - H * C \in Nat  BY <1>1, <1>11
      <4> QED  BY <1>8, <4>1
    <3>2. Q * (D - H * C) = Q * D - Q * (H * C) /\ Q * D \in Int /\ Q * (H * C) \in Int
      BY <1>1, <1>8
    <3> QED  BY <3>1, <3>2
  <2>2. Q * D <= Q * e
    <3>1. Q * e = Q * D + Q * delta /\ Q * D \in Int /\ Q * delta \in Nat
      BY <1>1, <1>8
    <3> QED  BY <3>1
  <2>3. Q * (H * C) < H * H
    <3>1. Q * (H * C) \in Int /\ Q * D \in Int /\ Q * e \in Int /\ H * H \in Int
      BY <1>1, <1>8
    <3> QED  BY <1>8, <2>1, <2>2, <3>1
  <2>4. (Q * C) * H < H * H
    <3>1. Q * (H * C) = (Q * C) * H  BY <1>8
    <3> QED  BY <2>3, <3>1
  <2>5. Q * C < H
    <3>1. Q * C \in Int  BY <1>8
    <3> QED  BY <2>4, <3>1, MultipleOrder
  <2>6. Q * C < (2 * B) * C
    <3>1. H = (2 * B) * C  OBVIOUS
    <3> QED  BY <2>5, <3>1
  <2>7. Q < 2 * B
    <3>1. Q \in Int /\ 2 * B \in Int  BY <1>8
    <3> QED  BY <2>6, <3>1, MultipleOrder
  <2> QED  BY <1>8, <2>7
<1>13. (Q + 1) * delta <= D
  <2>1. (Q + 1) * delta <= (2 * B) * delta
    <3>1. (2 * B - (Q + 1)) * delta >= 0
      <4>1. 2 * B - (Q + 1) \in Nat  BY <1>8, <1>12
      <4> QED  BY <4>1
    <3>2. (2 * B - (Q + 1)) * delta = (2 * B) * delta - (Q + 1) * delta
          /\ (2 * B) * delta \in Int /\ (Q + 1) * delta \in Int
      BY <1>8
    <3> QED  BY <3>1, <3>2
  <2>2. delta <= C * C
    <3>1. (C - 1) * (C - 1) >= 0  OBVIOUS
    <3>2. (C - 1) * (C - 1) = C * C - 2 * C + 1 /\ C * C \in Int  OBVIOUS
    <3> QED  BY <3>1, <3>2
  <2>3. (2 * B) * delta <= (2 * B) * (C * C)
    <3>1. (2 * B) * (C * C - delta) >= 0
      <4>1. C * C - delta \in Nat  BY <2>2
      <4> QED  BY <4>1
    <3>2. (2 * B) * (C * C - delta) = (2 * B) * (C * C) - (2 * B) * delta
          /\ (2 * B) * (C * C) \in Int /\ (2 * B) * delta \in Int
      OBVIOUS
    <3> QED  BY <3>1, <3>2
  <2>4. (2 * B) * (C * C) = H * C  OBVIOUS
  <2>5. (Q + 1) * delta \in Int /\ (2 * B) * delta \in Int /\ H * C \in Int  BY <1>8
  <2> QED  BY <1>1, <1>11, <2>1, <2>3, <2>4, <2>5
<1>14. q <= Q + 1
  <2>1. (Q + 1) * e = (Q + 1) * D + (Q + 1) * delta /\ (Q + 2) * D = (Q + 1) * D + D
        /\ (Q + 1) * e = Q * e + e
    BY <1>1, <1>8
  <2>2. (Q + 1) * D \in Int /\ (Q + 1) * delta \in Int /\ Q * e \in Int /\ q * D \in Int
    BY <1>1, <1>5, <1>8
  <2> DEFINE x == (Q + 1) * D
             y == (Q + 1) * delta
             w == Q * e
             z == q * D
  <2>3. w + e = x + y /\ y <= D /\ m < w + e /\ z <= m /\ x \in Int /\ y \in Int /\ w \in Int
        /\ z \in Int /\ (Q + 2) * D = x + D
    BY <1>6, <1>8, <1>13, <2>1, <2>2
  <2> HIDE DEF x, y, w, z
  <2>4. z < x + D  BY <1>1, <2>3
  <2>5. q * D < (Q + 2) * D  BY <2>3, <2>4 DEF z
  <2>6. q < Q + 2
    <3>1. q \in Int /\ Q + 2 \in Int  BY <1>5, <1>8
    <3> QED  BY <1>1, <2>5, <3>1, MultipleOrder
  <2> QED  BY <1>5, <1>8, <2>6
<1>15. q = Q \/ q = Q + 1  BY <1>5, <1>8, <1>10, <1>14
<1> QED  BY <1>3, <1>4, <1>8, <1>9, <1>15 DEF h, p, q, Q

\* A number below the modulus is its own remainder.
LEMMA SmallModulo ==
  ASSUME NEW w \in Nat \ {0}, NEW a \in 0..(w - 1)
  PROVE  a % w = a
  OBVIOUS

\* A quotient is not larger than what is divided.
LEMMA QuotientOrder ==
  ASSUME NEW n \in Nat \ {0}, NEW a \in Nat
  PROVE  a \div n \in 0..a
<1> DEFINE q == a \div n
<1>1. q \in Nat /\ q * n <= a
  <2>1. IsQuotient(a, n, q, a % n)  BY QuotientBounds
  <2> HIDE DEF q
  <2> QED  BY <2>1 DEF IsQuotient
<1> HIDE DEF q
<1>2. q * n = q + q * (n - 1) /\ q * (n - 1) \in Nat  BY <1>1
<1>3. q <= a  BY <1>1, <1>2
<1> QED  BY <1>1, <1>3 DEF q

LEMMA udivNarrow ==
  ASSUME NEW m \in Unsigned, NEW e \in Unsigned \ {0}, e \div Half = 0
  PROVE  udiv64(m, e) = m \div e
<1>1. Half \in Nat \ {0} /\ Whole \in Nat \ {0}  BY Sizes
<1>2. m \in Nat /\ e \in Nat \ {0} /\ m < Whole  BY <1>1 DEF Unsigned
<1> HIDE DEF Unsigned
<1>3. PICK z \in Nat : /\ z = Half * ((m \div Half) % e) + (m % Half)
                       /\ z \div e \in Nat /\ z \div e < Half
                       /\ m \div e = z \div e + Half * ((m \div Half) \div e)
  BY <1>1, <1>2, NarrowDivision
<1>4. divl(z, e) = z \div e
  <2> DEFINE q == z \div e
  <2>1. q \in Nat /\ q < Half  BY <1>3
  <2>2. divl(z, e) = IF e = 0 \/ q >= Half THEN Trap ELSE q  BY DEF divl
  <2> HIDE DEF q
  <2>3. divl(z, e) = q  BY <1>1, <1>2, <2>1, <2>2
  <2> QED  BY <2>3 DEF q
<1>5. udiv64(m, e) = (divl(z, e) + Half * ((m \div Half) \div e)) % Whole
  BY <1>2, <1>3 DEF udiv64
<1>6. udiv64(m, e) = (m \div e) % Whole  BY <1>3, <1>4, <1>5
<1>7. m \div e \in 0..(Whole - 1)
  <2>1. m \div e \in 0..m  BY <1>2, QuotientOrder
  <2> QED  BY <1>1, <1>2, <2>1
<1>8. (m \div e) % Whole = m \div e
  <2> DEFINE q == m \div e
  <2>1. q \in 0..(Whole - 1)  BY <1>7
  <2> HIDE DEF q
  <2>2. q % Whole = q  BY <1>1, <2>1, SmallModulo
  <2> QED  BY <2>2 DEF q
<1> QED  BY <1>6, <1>8

\* The correction makes it exact.
LEMMA CorrectedExact ==
  ASSUME NEW m \in Unsigned, NEW e \in Unsigned \ {0}, m \div e \in Nat \ {0},
         NEW q \in {m \div e, m \div e + 1}
  PROVE  Corrected(m, e, q) = m \div e
<1> DEFINE Q == m \div e
<1>1. Whole \in Nat \ {0}  BY Sizes
<1>2. m \in Nat /\ e \in Nat \ {0} /\ m < Whole  BY <1>1 DEF Unsigned
<1>3. Q \in Nat \ {0} /\ Q * e <= m /\ m < Q * e + e
  <2>0. m \in Int /\ e \in Nat \ {0}  BY <1>2
  <2>1. IsQuotient(m, e, Q, m % e)  BY ONLY <2>0, QuotientBounds
  <2> HIDE DEF Q
  <2>2. Q \in Nat \ {0}  BY DEF Q
  <2> QED  BY <2>1, <2>2 DEF IsQuotient
<1>4. Q \in 0..(Whole - 1)
  <2>1. Q \in 0..m  BY <1>2, QuotientOrder
  <2> HIDE DEF Q
  <2> QED  BY <1>1, <1>2, <2>1
<1>5. q = Q \/ q = Q + 1  OBVIOUS
<1> HIDE DEF Q
<1>6. CASE q = Q
  <2> DEFINE d == m - (q - 1) * e
  <2>1. d \in 0..(Whole - 1) /\ d >= e
    <3>1. (Q - 1) * e = Q * e - e /\ Q * e \in Int /\ (Q - 1) * e \in Nat  BY <1>2, <1>3
    <3> DEFINE x == (Q - 1) * e
               y == Q * e
    <3>2. x = y - e /\ y \in Int /\ x \in Nat /\ y <= m  BY <1>3, <3>1
    <3>3. d = m - x  BY <1>6
    <3> HIDE DEF x, y, d
    <3> QED  BY <1>1, <1>2, <3>2, <3>3
  <2>2. Corrected(m, e, q) = IF d % Whole < e THEN (q - 1) % Whole ELSE q  BY DEF Corrected
  <2> HIDE DEF d
  <2>3. d % Whole = d  BY <1>1, <2>1, SmallModulo
  <2>4. ~(d < e)  BY <1>2, <2>1
  <2> QED  BY <1>6, <2>2, <2>3, <2>4 DEF Q
<1>7. CASE q = Q + 1
  <2> DEFINE d == m - (q - 1) * e
  <2>1. q - 1 = Q  BY <1>3, <1>7
  <2>2. d \in 0..(Whole - 1) /\ d < e
    <3> DEFINE y == Q * e
    <3>2. y \in Nat /\ y <= m /\ m < y + e  BY <1>2, <1>3
    <3>3. d = m - y  BY <2>1
    <3> HIDE DEF y, d
    <3> QED  BY <1>1, <1>2, <3>2, <3>3
  <2>3. Corrected(m, e, q) = IF d % Whole < e THEN (q - 1) % Whole ELSE q  BY DEF Corrected
  <2> HIDE DEF d
  <2>4. d % Whole = d  BY <1>1, <2>2, SmallModulo
  <2>5. Q % Whole = Q  BY <1>1, <1>4, SmallModulo
  <2>6. Corrected(m, e, q) = Q  BY <2>1, <2>2, <2>3, <2>4, <2>5
  <2> QED  BY <2>6 DEF Q
<1> QED  BY <1>5, <1>6, <1>7

\* e shifted until its first bit is set: v is its first half then.
LEMMA Normalised ==
  ASSUME NEW e \in Unsigned, e \div Half # 0
  PROVE  \E s \in 0..(HalfBits - 1), B, C \in Nat \ {0}, v \in Nat :
           /\ nlz(e \div Half) = s /\ Power(2, s) = B /\ Power(2, HalfBits - 1 - s) = C
           /\ Half = 2 * (B * C)
           /\ ((e * B) % Whole) \div Half = v
           /\ v >= B * C /\ v * (2 * C) <= e /\ e < v * (2 * C) + 2 * C
<1> DEFINE H == Half
           x == e \div H
<1>1. H \in Nat \ {0} /\ Whole \in Nat \ {0} /\ HalfBits \in Nat /\ HalfBits >= 4
      /\ H >= 16 /\ Half = 2 * Power(2, HalfBits - 1) /\ Whole = H * H
  BY Sizes DEF Whole
<1>2. e \in Nat /\ e < Whole  BY <1>1 DEF Unsigned
<1> HIDE DEF H
<1>3. x \in Nat \ {0} /\ x * H <= e /\ e < x * H + H
  <2>0. e \in Int /\ H \in Nat \ {0}  BY <1>1, <1>2
  <2>1. IsQuotient(e, H, x, e % H)  BY ONLY <2>0, QuotientBounds
  <2>2. x # 0  BY DEF H
  <2> HIDE DEF x
  <2> QED  BY <1>2, <2>1, <2>2 DEF IsQuotient
<1> HIDE DEF x
<1>4. x \in 1..(H - 1)
  <2>1. x * H < H * H
    <3>1. x * H \in Int /\ H * H \in Int  BY <1>1, <1>3
    <3> QED  BY <1>1, <1>2, <1>3, <3>1
  <2>2. x < H  BY <1>1, <1>3, <2>1, MultipleOrder
  <2> QED  BY <1>1, <1>3, <2>2
<1>5. PICK s \in 0..(HalfBits - 1) : /\ nlz(x) = s
                                     /\ Power(2, HalfBits - 1) <= x * Power(2, s)
                                     /\ x * Power(2, s) < H
  BY <1>4, nlzCounts DEF H
<1> DEFINE B == Power(2, s)
           C == Power(2, HalfBits - 1 - s)
<1>6. B \in Nat \ {0} /\ C \in Nat \ {0} /\ H = 2 * (B * C) /\ Power(2, HalfBits - 1) = B * C
  <2>1. s \in Nat /\ HalfBits - 1 - s \in Nat /\ s + (HalfBits - 1 - s) = HalfBits - 1
    BY <1>1
  <2>2. B \in Nat \ {0} /\ C \in Nat \ {0}  BY <2>1, PowerSteps
  <2>3. Power(2, s + (HalfBits - 1 - s)) = B * C  BY <2>1, PowerSum
  <2> QED  BY <1>1, <2>1, <2>2, <2>3 DEF H
<1>7. B * C <= x * B /\ x * B < H  BY <1>5, <1>6
<1> HIDE DEF B, C
<1>8. x + 1 <= 2 * C
  <2>1. x * B < (2 * C) * B
    <3>1. H = (2 * C) * B  BY <1>6
    <3> QED  BY <1>7, <3>1
  <2>2. x < 2 * C
    <3>1. 2 * C \in Int /\ x \in Int  BY <1>3, <1>6
    <3> QED  BY <1>6, <2>1, <3>1, MultipleOrder
  <2> QED  BY <1>3, <1>6, <2>2
<1> DEFINE w == e * B
           v == w \div H
<1>9. w \in Nat /\ w < Whole
  <2>1. e + 1 <= (2 * C) * H
    <3>1. (x + 1) * H <= (2 * C) * H
      <4>1. 2 * C \in Int /\ x + 1 \in Int  BY <1>3, <1>6
      <4> DEFINE y == x + 1
                 z == 2 * C
      <4>2. y \in Int /\ z \in Int /\ y <= z  BY <4>1, <1>8
      <4> HIDE DEF y, z
      <4>3. y * H <= z * H  BY <1>1, <4>2, MultipleOrder
      <4> QED  BY <4>3 DEF y, z
    <3>2. (x + 1) * H = x * H + H /\ x * H \in Int /\ (2 * C) * H \in Int  BY <1>1, <1>3, <1>6
    <3> DEFINE y == x * H
               z == (2 * C) * H
    <3>3. y \in Int /\ z \in Int /\ y + H <= z /\ e < y + H  BY <1>3, <3>1, <3>2
    <3> HIDE DEF y, z
    <3>4. e + 1 <= z  BY <1>1, <1>2, <3>3
    <3> QED  BY <3>4 DEF z
  <2>2. e * B < ((2 * C) * H) * B
    <3> DEFINE y == (2 * C) * H
    <3>1. y \in Int /\ e < y
      <4>1. y \in Int  BY <1>1, <1>6
      <4> QED  BY <1>2, <2>1, <4>1
    <3> HIDE DEF y
    <3>2. e * B < y * B  BY <1>2, <1>6, <3>1, MultipleOrder
    <3> QED  BY <3>2 DEF y
  <2>3. ((2 * C) * H) * B = H * H
    <3>1. ((2 * C) * H) * B = H * (2 * (B * C))  BY <1>1, <1>6
    <3> QED  BY <1>6, <3>1
  <2>4. w \in Nat  BY <1>2, <1>6
  <2> QED  BY <1>1, <2>2, <2>3, <2>4
<1> HIDE DEF w
<1>10. w % Whole = w
  <2>1. w \in 0..(Whole - 1)  BY <1>1, <1>9
  <2> QED  BY <1>1, <2>1, SmallModulo
<1>11. v \in Nat /\ v * H <= w /\ w < v * H + H
  <2>0. w \in Int /\ H \in Nat \ {0}  BY <1>1, <1>9
  <2>1. IsQuotient(w, H, v, w % H)  BY ONLY <2>0, QuotientBounds
  <2> HIDE DEF v
  <2> QED  BY <1>9, <2>1 DEF IsQuotient
<1> HIDE DEF v
<1>12. v * (2 * C) <= e
  <2>1. v * H = (v * (2 * C)) * B /\ v * (2 * C) \in Int  BY <1>6, <1>11
  <2>2. (v * (2 * C)) * B <= e * B  BY <1>11, <2>1 DEF w
  <2> DEFINE y == v * (2 * C)
  <2> HIDE DEF y
  <2>3. y \in Int /\ y * B <= e * B  BY <2>1, <2>2 DEF y
  <2>4. y <= e  BY <1>2, <1>6, <2>3, MultipleOrder
  <2> QED  BY <2>4 DEF y
<1>13. e < v * (2 * C) + 2 * C
  <2> DEFINE y == v * (2 * C) + 2 * C
  <2>1. y * B = v * H + H /\ y \in Int
    <3>1. (v * (2 * C) + 2 * C) * B = v * (2 * (B * C)) + 2 * (B * C)  BY <1>6, <1>11
    <3>2. y \in Int  BY <1>6, <1>11
    <3> QED  BY <1>6, <3>1, <3>2
  <2> HIDE DEF y
  <2>2. e * B < y * B  BY <1>11, <2>1 DEF w
  <2>3. e < y  BY <1>2, <1>6, <2>1, <2>2, MultipleOrder
  <2> QED  BY <2>3 DEF y
<1>14. v >= B * C
  <2> DEFINE G == B * C
  <2>1. G \in Nat /\ G <= x * B /\ x * B \in Nat  BY <1>3, <1>6, <1>7
  <2>2. G * H <= (x * B) * H
    <3> DEFINE y == x * B
    <3> HIDE DEF G, y
    <3>1. G \in Int /\ y \in Int /\ G <= y  BY <2>1 DEF y
    <3>2. G * H <= y * H  BY <1>1, <3>1, MultipleOrder
    <3> QED  BY <3>2 DEF y
  <2>3. (x * B) * H = (x * H) * B /\ x * H \in Int  BY <1>1, <1>3, <1>6
  <2>4. (x * H) * B <= e * B
    <3> DEFINE y == x * H
    <3>1. y \in Int /\ y <= e  BY <1>3, <2>3
    <3> HIDE DEF y
    <3>2. y * B <= e * B  BY <1>2, <1>6, <3>1, MultipleOrder
    <3> QED  BY <3>2 DEF y
  <2> HIDE DEF G
  <2>5. G * H < (v + 1) * H
    <3>1. (v + 1) * H = v * H + H /\ v * H \in Int /\ G * H \in Int /\ (x * B) * H \in Int
      BY <1>1, <1>3, <1>6, <1>11, <2>1
    <3>2. (x * B) * H <= w  BY <2>3, <2>4 DEF w
    <3> DEFINE a == G * H
               b == (x * B) * H
               c == v * H
    <3>3. a \in Int /\ b \in Int /\ c \in Int /\ a <= b /\ b <= w /\ w < c + H
      BY <1>11, <2>2, <3>1, <3>2
    <3> HIDE DEF a, b, c
    <3>4. a < c + H  BY <1>1, <1>9, <3>3
    <3> QED  BY <3>1, <3>4 DEF a, c
  <2>6. G < v + 1
    <3>1. v + 1 \in Int /\ G \in Int  BY <1>11, <2>1
    <3> QED  BY <1>1, <2>5, <3>1, MultipleOrder
  <2>7. G <= v  BY <1>11, <2>1, <2>6
  <2> QED  BY <1>11, <2>1, <2>7 DEF G
<1>15. ((e * B) % Whole) \div H = v  BY <1>10 DEF v, w
<1>16. nlz(e \div H) = s  BY <1>5 DEF x
<1>17. s \in 0..(HalfBits - 1) /\ Power(2, s) = B /\ Power(2, HalfBits - 1 - s) = C
       /\ H = Half
  BY DEF B, C, H
<1> QED  BY ONLY <1>6, <1>11, <1>12, <1>13, <1>14, <1>15, <1>16, <1>17

LEMMA udivWide ==
  ASSUME NEW m \in Unsigned, NEW e \in Unsigned \ {0}, e \div Half # 0, e <= m
  PROVE  udiv64(m, e) = m \div e
<1>1. Half \in Nat \ {0} /\ Whole \in Nat \ {0} /\ HalfBits \in Nat /\ Whole = Half * Half
  BY Sizes DEF Whole
<1>2. m \in Nat /\ e \in Nat \ {0} /\ m < Whole  BY <1>1 DEF Unsigned
<1>3. PICK s \in 0..(HalfBits - 1), B \in Nat \ {0}, C \in Nat \ {0}, v \in Nat :
           /\ nlz(e \div Half) = s /\ Power(2, s) = B /\ Power(2, HalfBits - 1 - s) = C
           /\ Half = 2 * (B * C)
           /\ ((e * B) % Whole) \div Half = v
           /\ v >= B * C /\ v * (2 * C) <= e /\ e < v * (2 * C) + 2 * C
  BY Normalised
<1> DEFINE delta == e - v * (2 * C)
           p == (m \div 2) \div v
           q == p \div C
<1>4. delta \in 0..(2 * C - 1) /\ e = v * (2 * C) + delta
  <2> DEFINE y == v * (2 * C)
  <2>1. y \in Int /\ y <= e /\ e < y + 2 * C /\ delta = e - y  BY <1>3
  <2> HIDE DEF y, delta
  <2>2. delta \in 0..(2 * C - 1) /\ e = y + delta  BY <1>2, <2>1
  <2> QED  BY <2>2 DEF y
<1> HIDE DEF delta
<1>5. p \in Nat /\ p < Half /\ m \div e \in Nat \ {0} /\ q \in {m \div e, m \div e + 1}
  BY <1>1, <1>2, <1>3, <1>4, WideDivision
<1> HIDE DEF p, q
<1>6. divl(m \div 2, v) = p
  <2>1. v # 0
    <3>1. B * C \in Nat /\ B * C # 0  OBVIOUS
    <3> DEFINE G == B * C
    <3>2. G \in Nat /\ G # 0 /\ v >= G  BY <1>3, <3>1
    <3> HIDE DEF G
    <3> QED  BY <3>2
  <2>2. divl(m \div 2, v) = IF v = 0 \/ p >= Half THEN Trap ELSE p  BY DEF divl, p
  <2>3. ~(p >= Half)  BY <1>1, <1>5
  <2> QED  BY <2>1, <2>2, <2>3
<1>7. udiv64(m, e) = Corrected(m, e, q)
  <2>1. ~(m < e) /\ e # 0  BY <1>2
  <2>2. udiv64(m, e) = Corrected(m, e, divl(m \div 2, v) \div C)
    BY ONLY <1>3, <2>1, e \div Half # 0 DEF udiv64
  <2> QED  BY <1>6, <2>2 DEF q
<1>8. Corrected(m, e, q) = m \div e  BY <1>5, CorrectedExact
<1> QED  BY <1>7, <1>8

\* The unsigned division is exact, and none of its divl traps.
LEMMA udivExact ==
  ASSUME NEW m \in Unsigned, NEW e \in Unsigned \ {0}
  PROVE  udiv64(m, e) = m \div e
<1>1. CASE e \div Half = 0  BY <1>1, udivNarrow
<1>2. CASE e \div Half # 0 /\ e <= m  BY <1>2, udivWide
<1>3. CASE e \div Half # 0 /\ ~(e <= m)
  <2>1. Whole \in Nat  BY Sizes
  <2>2. m \in Nat /\ e \in Nat \ {0} /\ m < e  BY <1>3, <2>1 DEF Unsigned
  <2>3. udiv64(m, e) = 0  BY <1>3, <2>2 DEF udiv64
  <2>4. m \div e = 0
    <3> DEFINE q == m \div e
    <3>2. q \in Nat /\ q * e <= m
      <4>0. m \in Int /\ e \in Nat \ {0}  BY <2>2
      <4>1. IsQuotient(m, e, q, m % e)  BY ONLY <4>0, QuotientBounds
      <4> HIDE DEF q
      <4> QED  BY <2>2, <4>1 DEF IsQuotient
    <3> HIDE DEF q
    <3>3. q * e = (q - 1) * e + e /\ (q >= 1 => (q - 1) * e >= 0) /\ (q - 1) * e \in Int
      BY <2>2, <3>2
    <3>4. ~(q >= 1)  BY <2>2, <3>2, <3>3
    <3> QED  BY <3>2, <3>4 DEF q
  <2> QED  BY <2>3, <2>4
<1> QED  BY <1>1, <1>2, <1>3

LEMMA umodExact ==
  ASSUME NEW m \in Unsigned, NEW e \in Unsigned \ {0}
  PROVE  umod64(m, e) = (m % e) % Half
<1> DEFINE Q == m \div e
           r == m % e
<1>1. Whole \in Nat \ {0}  BY Sizes
<1>2. m \in Nat /\ e \in Nat \ {0} /\ e < Whole  BY <1>1 DEF Unsigned
<1>3. udiv64(m, e) = Q  BY udivExact
<1>4. Q \in Int /\ r \in 0..(e - 1) /\ m = Q * e + r
  <2>0. m \in Int /\ e \in Nat \ {0}  BY <1>2
  <2>1. IsQuotient(m, e, Q, r)  BY ONLY <2>0, QuotientBounds
  <2> HIDE DEF Q, r
  <2> QED  BY <2>1 DEF IsQuotient
<1>5. umod64(m, e) = ((m - e * Q) % Whole) % Half  BY <1>3 DEF umod64
<1> HIDE DEF Q, r
<1>6. m - e * Q = r
  <2>1. e * Q = Q * e /\ Q * e \in Int  BY <1>2, <1>4
  <2> QED  BY <1>2, <1>4, <2>1
<1>7. r % Whole = r
  <2>1. r \in 0..(Whole - 1)  BY <1>1, <1>2, <1>4
  <2> QED  BY <1>1, <2>1, SmallModulo
<1> QED  BY <1>5, <1>6, <1>7 DEF r

-----------------------------------------------------------------------------
(* Signed division.                                                        *)

LEMMA SignedSmall ==
  ASSUME NEW h \in Nat \ {0}, NEW x \in (-h)..(h - 1)
  PROVE  Signed(x, 2 * h) = x
<1> DEFINE w == 2 * h
<1>1. w \in Nat \ {0} /\ w \div 2 = h /\ w = 2 * h  OBVIOUS
<1>2. CASE x >= 0
  <2>1. x % w = x /\ x < h  BY <1>2
  <2> QED  BY <1>1, <2>1 DEF Signed
<1>3. CASE x < 0
  <2>1. x + w \in 0..(w - 1) /\ x = (-1) * w + (x + w) /\ ~(x + w < h) /\ -1 \in Int
        /\ (x + w) - w = x
    BY <1>3
  <2>2. x % w = x + w
    <3> HIDE DEF w
    <3>1. ((-1) * w + (x + w)) % w = x + w  BY ONLY <1>1, <2>1, QuotientRemainder
    <3> QED  BY <2>1, <3>1
  <2> QED  BY <1>1, <2>1, <2>2 DEF Signed
<1>4. x >= 0 \/ x < 0  OBVIOUS
<1> QED  BY <1>2, <1>3, <1>4

LEMMA SignedRange ==
  ASSUME NEW h \in Nat \ {0}, NEW x \in 0..(2 * h - 1)
  PROVE  Signed(x, 2 * h) \in (-h)..(h - 1) /\ (x # 0 => Signed(x, 2 * h) # 0)
<1> DEFINE w == 2 * h
<1>1. w \in Nat \ {0} /\ w \div 2 = h /\ x % w = x  OBVIOUS
<1>2. Signed(x, w) = IF x < h THEN x ELSE x - w  BY <1>1 DEF Signed
<1> QED  BY <1>2

LEMMA WholeIsEven == \E h \in Nat \ {0} : Whole = 2 * h /\ Whole \div 2 = h
<1> DEFINE a == Power(2, HalfBits - 1)
           b == Half
           h == a * b
<1>1. HalfBits - 1 \in Nat  BY Sizes
<1>2. a \in Nat \ {0}  BY <1>1, PowerSteps
<1>3. b \in Nat \ {0} /\ b = 2 * a /\ Whole = b * b  BY Sizes DEF Whole
<1> HIDE DEF a, b
<1>4. h \in Nat /\ h # 0  BY <1>2, <1>3
<1>5. Whole = 2 * h
  <2>1. (2 * a) * b = 2 * (a * b)  BY <1>2, <1>3
  <2> QED  BY <1>3, <2>1
<1> HIDE DEF h
<1>6. (2 * h) \div 2 = h  BY <1>4
<1> QED  BY <1>4, <1>5, <1>6

LEMMA sdivExact ==
  ASSUME NEW h \in Nat \ {0}, Whole = 2 * h,
         NEW m \in (-h)..(h - 1), NEW e \in (-h)..(h - 1), e # 0, ~(m = -h /\ e = -1)
  PROVE  /\ sdiv64(m, e) = Quotient(m, e)
         /\ smod64(m, e) = Signed(m - e * Quotient(m, e), Half)
<1> DEFINE a == Abs(m)
           b == Abs(e)
           q == a \div b
           r == a % b
           z == IF (m < 0) = (e < 0) THEN q ELSE -q
<1>1. a \in 0..h /\ b \in 1..h  BY DEF Abs
<1>2. a \in Unsigned /\ b \in Unsigned \ {0}  BY <1>1 DEF Unsigned
<1>3. udiv64(a, b) = q
  <2> HIDE DEF a, b
  <2> QED  BY <1>2, udivExact
<1>4. q \in Nat /\ r \in 0..(b - 1) /\ a = q * b + r
  <2>0. a \in Int /\ b \in Nat \ {0} /\ a >= 0  BY <1>1
  <2>1. IsQuotient(a, b, q, r)
    <3> HIDE DEF a, b
    <3> QED  BY ONLY <2>0, QuotientBounds
  <2> HIDE DEF q, r, a, b
  <2> QED  BY <2>0, <2>1 DEF IsQuotient
<1>5. sdiv64(m, e) = Signed(z, Whole) /\ Quotient(m, e) = z
  BY <1>3 DEF sdiv64, Quotient
<1>a. a = (IF m >= 0 THEN m ELSE -m) /\ b = (IF e >= 0 THEN e ELSE -e)  BY DEF Abs
<1> HIDE DEF q, r, a, b
<1>6. q <= a
  <2>1. q * b = q + q * (b - 1) /\ q * (b - 1) \in Nat  BY <1>1, <1>4
  <2> DEFINE x == q * (b - 1)
             y == q * b
  <2>2. y = q + x /\ x \in Nat /\ a = y + r  BY <1>4, <2>1
  <2> HIDE DEF x, y
  <2> QED  BY <1>1, <1>4, <2>2
<1>7. q = h => m = -h /\ (e = 1 \/ e = -1)
  <2> SUFFICES ASSUME q = h PROVE m = -h /\ (e = 1 \/ e = -1)  OBVIOUS
  <2>1. a = h /\ m = -h  BY <1>1, <1>6, <1>a
  <2>2. b = 1
    <3> SUFFICES ASSUME b >= 2 PROVE FALSE  BY <1>1
    <3>1. q * b = 2 * q + q * (b - 2) /\ q * (b - 2) \in Nat  BY <1>1, <1>4
    <3> DEFINE x == q * (b - 2)
               y == q * b
    <3>2. y = 2 * q + x /\ x \in Nat /\ a = y + r  BY <1>4, <3>1
    <3> HIDE DEF x, y
    <3> QED  BY <1>1, <1>4, <2>1, <3>2
  <2> QED  BY <1>a, <2>1, <2>2
<1>8. z \in (-h)..(h - 1)
  <2>1. q \in 0..h  BY <1>1, <1>4, <1>6
  <2>2. CASE (m < 0) = (e < 0)
    <3>1. q # h  BY <1>7, <2>2
    <3>2. z = q  BY <2>2
    <3> QED  BY <2>1, <3>1, <3>2
  <2>3. CASE ~((m < 0) = (e < 0))
    <3>1. z = -q  BY <2>3
    <3> QED  BY <2>1, <3>1
  <2> QED  BY <2>2, <2>3
<1>9. m - e * z \in (-h)..(h - 1)
  <2> DEFINE y == q * b
  <2>1. e * z = IF m >= 0 THEN y ELSE -y
    <3>1. CASE m >= 0 /\ e >= 0
      <4>1. z = q /\ e = b  BY <1>a, <3>1
      <4> QED  BY <1>1, <1>4, <3>1, <4>1
    <3>2. CASE m >= 0 /\ e < 0
      <4>1. z = -q /\ e = -b  BY <1>1, <1>a, <3>2
      <4>2. (-b) * (-q) = q * b  BY <1>1, <1>4
      <4> QED  BY <3>2, <4>1, <4>2
    <3>3. CASE m < 0 /\ e >= 0
      <4>1. z = -q /\ e = b  BY <1>a, <3>3
      <4>2. b * (-q) = -(q * b)  BY <1>1, <1>4
      <4> QED  BY <3>3, <4>1, <4>2
    <3>4. CASE m < 0 /\ e < 0
      <4>1. z = q /\ e = -b  BY <1>1, <1>a, <3>4
      <4>2. (-b) * q = -(q * b)  BY <1>1, <1>4
      <4> QED  BY <3>4, <4>1, <4>2
    <3> QED  BY <3>1, <3>2, <3>3, <3>4
  <2>2. y \in Int /\ a = y + r  BY <1>1, <1>4
  <2> DEFINE x == e * z
  <2>3. x = IF m >= 0 THEN y ELSE -y  BY <2>1
  <2> HIDE DEF x, y
  <2>4. m - x = IF m >= 0 THEN r ELSE -r  BY <1>1, <1>4, <1>a, <2>2, <2>3
  <2>5. m - x \in (-h)..(h - 1)  BY <1>1, <1>4, <2>4
  <2> QED  BY <2>5 DEF x
<1> HIDE DEF z
<1>10. Signed(z, Whole) = z  BY <1>8, SignedSmall
<1>11. Signed(m - e * z, Whole) = m - e * z
  <2> DEFINE x == m - e * z
  <2>1. x \in (-h)..(h - 1)  BY <1>9
  <2> HIDE DEF x
  <2>2. Signed(x, Whole) = x  BY <2>1, SignedSmall
  <2> QED  BY <2>2 DEF x
<1>12. smod64(m, e) = Signed(Signed(m - e * z, Whole), Half)  BY <1>5, <1>10 DEF smod64
<1> QED  BY <1>5, <1>10, <1>11, <1>12

\* What DivisionExact says, as a fact about any two operands.
LEMMA DivisionIsExact ==
  ASSUME num \in Unsigned, den \in Unsigned
  PROVE  DivisionExact
<1> DEFINE m == Signed(num, Whole)
           e == Signed(den, Whole)
           r == m - e * Quotient(m, e)
<1> SUFFICES ASSUME den # 0
             PROVE  /\ udiv64(num, den) = num \div den
                    /\ num % den < Half => umod64(num, den) = num % den
                    /\ ~(m = -(Whole \div 2) /\ e = -1) =>
                         /\ sdiv64(m, e) = Quotient(m, e)
                         /\ r \in (-(Half \div 2))..(Half \div 2 - 1) => smod64(m, e) = r
  BY DEF DivisionExact
<1>1. udiv64(num, den) = num \div den  BY udivExact
<1>2. ASSUME num % den < Half PROVE umod64(num, den) = num % den
  <2>1. umod64(num, den) = (num % den) % Half  BY umodExact
  <2>2. num \in Nat /\ den \in Nat \ {0} /\ Half \in Nat \ {0}  BY Sizes DEF Unsigned
  <2>3. num % den \in 0..(Half - 1)  BY <1>2, <2>2
  <2>4. (num % den) % Half = num % den
    <3> DEFINE x == num % den
    <3>1. x \in 0..(Half - 1)  BY <2>3
    <3> HIDE DEF x
    <3>2. x % Half = x  BY <2>2, <3>1, SmallModulo
    <3> QED  BY <3>2 DEF x
  <2> QED  BY <2>1, <2>4
<1>3. PICK h \in Nat \ {0} : Whole = 2 * h /\ Whole \div 2 = h  BY WholeIsEven
<1>4. num \in 0..(2 * h - 1) /\ den \in 0..(2 * h - 1)  BY <1>3 DEF Unsigned
<1>5. m \in (-h)..(h - 1) /\ e \in (-h)..(h - 1) /\ e # 0
  BY <1>3, <1>4, SignedRange
<1> HIDE DEF m, e
<1>6. ASSUME ~(m = -(Whole \div 2) /\ e = -1)
      PROVE  /\ sdiv64(m, e) = Quotient(m, e)
             /\ smod64(m, e) = Signed(r, Half)
  <2>1. ~(m = -h /\ e = -1)  BY <1>3, <1>6
  <2> QED  BY <1>3, <1>5, <2>1, sdivExact
<1>7. ASSUME r \in (-(Half \div 2))..(Half \div 2 - 1) PROVE Signed(r, Half) = r
  <2> DEFINE k == Power(2, HalfBits - 1)
  <2>1. HalfBits - 1 \in Nat /\ Half = 2 * k  BY Sizes
  <2>2. k \in Nat \ {0}  BY <2>1, PowerSteps
  <2> HIDE DEF k, r
  <2>3. Half \div 2 = k  BY <2>1, <2>2
  <2>4. r \in (-k)..(k - 1)  BY <1>7, <2>3
  <2> QED  BY <2>1, <2>2, <2>4, SignedSmall
<1> QED  BY <1>1, <1>2, <1>6, <1>7

(* The quotients GCC's 64-bit divisions get are exact for every pair of    *)
(* operands, and divl never traps, whatever the width (Shifts): the narrow *)
(* machine of the run is not a special case.  The remainders are exact as  *)
(* long as they fit the 32-bit types of umod64 and smod64, no further.     *)
THEOREM DivisionIsAlwaysExact == ConsoleSpec => []DivisionExact
<1> DEFINE Operands == num \in Unsigned /\ den \in Unsigned
<1>1. ConsoleInit => Operands  BY DEF ConsoleInit
<1>2. Operands /\ [ConsoleNext]_console => Operands'
  <2> SUFFICES ASSUME Operands, [ConsoleNext]_console PROVE Operands'  OBVIOUS
  <2>1. num' = num /\ den' = den
    BY DEF ConsoleNext, console, Printf, Convert, UnknownFormat, Return, Written,
           terminal_putchar, PutEntry, Column, Row, Scroll
  <2> QED  BY <2>1 DEF Unsigned
<1>3. Operands => DivisionExact  BY DivisionIsExact
<1> QED  BY <1>1, <1>2, <1>3, PTL DEF ConsoleSpec

-----------------------------------------------------------------------------
(* Numbers.                                                                *)

LEMMA PowerBase ==
  ASSUME NEW a \in Nat \ {0}, NEW b \in Nat \ {0}, a <= b, NEW k \in Nat
  PROVE  Power(a, k) <= Power(b, k)
<1> DEFINE Good(m) == Power(a, m) <= Power(b, m)
           Bad == {m \in Nat : ~Good(m)}
<1>1. Good(0)
  <2>1. Power(a, 0) = 1 /\ Power(b, 0) = 1  BY PowerSteps
  <2> QED  BY <2>1
<1>2. ASSUME NEW m \in Nat, Good(m) PROVE Good(m + 1)
  <2> DEFINE P == Power(a, m)
             Q == Power(b, m)
  <2>1. Power(a, m + 1) = a * P /\ Power(b, m + 1) = b * Q /\ P \in Nat \ {0} /\ Q \in Nat \ {0}
    BY PowerSteps
  <2>2. P <= Q  BY <1>2
  <2> HIDE DEF P, Q
  <2>3. a * P <= a * Q
    <3>1. P * a <= Q * a  BY <2>1, <2>2, MultipleOrder
    <3>2. P * a = a * P /\ Q * a = a * Q  BY <2>1
    <3> QED  BY <3>1, <3>2
  <2>4. a * Q <= b * Q  BY <2>1, MultipleOrder
  <2>5. a * P \in Int /\ a * Q \in Int /\ b * Q \in Int  BY <2>1
  <2>6. a * P <= b * Q
    <3> DEFINE x == a * P
               y == a * Q
               z == b * Q
    <3>1. x \in Int /\ y \in Int /\ z \in Int /\ x <= y /\ y <= z  BY <2>3, <2>4, <2>5
    <3> HIDE DEF x, y, z
    <3>2. x <= z  BY <3>1
    <3> QED  BY <3>2 DEF x, z
  <2> QED  BY <2>1, <2>6
<1> HIDE DEF Good
<1>3. Bad = {}
  <2> SUFFICES ASSUME Bad # {} PROVE FALSE  OBVIOUS
  <2>1. PICK m \in Bad : \A j \in Bad : m <= j
    <3>1. Bad \in SUBSET Nat  OBVIOUS
    <3> HIDE DEF Bad
    <3> QED  BY <3>1, LeastElement
  <2>2. m # 0  BY <1>1
  <2>3. m - 1 \in Nat /\ (m - 1) + 1 = m /\ ~(m <= m - 1)  BY <2>2
  <2>4. Good(m - 1)  BY <2>1, <2>3
  <2>5. Good(m)  BY <1>2, <2>3, <2>4
  <2> QED  BY <2>5
<1> QED  BY <1>3 DEF Good

LEMMA TwoQuotients ==
  ASSUME NEW i \in Nat, NEW p \in Nat \ {0}, NEW b \in Nat \ {0}
  PROVE  (i \div p) \div b = i \div (b * p)
<1> DEFINE x == i \div p
           y == x \div b
           n == b * p
<1>0. n \in Nat \ {0}
  <2>1. n \in Nat /\ n # 0  OBVIOUS
  <2> QED  BY <2>1
<1>1. x \in Nat /\ x * p <= i /\ i < x * p + p
  <2>0. i \in Int /\ p \in Nat \ {0}  OBVIOUS
  <2>1. IsQuotient(i, p, x, i % p)  BY ONLY <2>0, QuotientBounds
  <2> HIDE DEF x
  <2> QED  BY <2>1 DEF IsQuotient
<1> HIDE DEF x
<1>2. y \in Nat /\ y * b <= x /\ x < y * b + b
  <2>0. x \in Int /\ b \in Nat \ {0}  BY <1>1
  <2>1. IsQuotient(x, b, y, x % b)  BY ONLY <2>0, QuotientBounds
  <2> HIDE DEF y
  <2> QED  BY <1>1, <2>1 DEF IsQuotient
<1> HIDE DEF y
<1>3. y * n <= i
  <2>1. (y * b) * p <= x * p
    <3> DEFINE z == y * b
    <3>1. z \in Int /\ z <= x  BY <1>2
    <3> HIDE DEF z
    <3>2. z * p <= x * p  BY <1>1, <3>1, MultipleOrder
    <3> QED  BY <3>2 DEF z
  <2>2. (y * b) * p = y * n /\ y * n \in Int /\ x * p \in Int  BY <1>1, <1>2
  <2> QED  BY <1>1, <2>1, <2>2
<1>4. i < y * n + n
  <2>1. (x + 1) * p <= (y * b + b) * p
    <3> DEFINE z == y * b + b
               w == x + 1
    <3>1. y * b \in Int  BY <1>2
    <3>2. z \in Int /\ w \in Int /\ w <= z  BY <1>1, <1>2, <3>1
    <3> HIDE DEF z, w
    <3>3. w * p <= z * p  BY <3>2, MultipleOrder
    <3> QED  BY <3>3 DEF z, w
  <2>2. (y * b + b) * p = y * n + n /\ y * n \in Int /\ (x + 1) * p = x * p + p
        /\ x * p \in Int
    BY <1>1, <1>2
  <2> DEFINE z == y * n
             w == x * p
  <2>3. z \in Int /\ w \in Int /\ w + p <= z + n /\ i < w + p  BY <1>1, <2>1, <2>2
  <2> HIDE DEF z, w
  <2>4. i < z + n  BY <1>0, <2>3
  <2> QED  BY <2>4 DEF z
<1> HIDE DEF n
<1>5. i \in Int /\ y \in Int /\ n \in Nat \ {0}  BY <1>0, <1>2
<1>6. i \div n = y  BY ONLY <1>3, <1>4, <1>5, QuotientIs
<1> QED  BY <1>6 DEF x, y, n

\* What the loop of printf_u leaves after each digit.
IsRemain(f, i, base) ==
  f = [k \in 0..(MaxNumberLength + 1) |-> IF k = 0 THEN i ELSE udiv64(f[k - 1], base)]

LEMMA Bases ==
  ASSUME NEW b \in {8, 10, 16}
  PROVE  b \in Nat \ {0} /\ b >= 8 /\ b <= 16 /\ b <= Half /\ b \in Unsigned \ {0}
  BY Sizes DEF Unsigned

LEMMA RemainExists ==
  ASSUME NEW i \in Unsigned, NEW b \in {8, 10, 16}
  PROVE  \E f : IsRemain(f, i, b)
<1> DEFINE n == MaxNumberLength + 1
           V == Unsigned
           g == [k \in 1..n |-> [x \in V |-> udiv64(x, b)]]
<1>1. n \in Nat  BY ConsoleAssumption
<1>2. b \in Unsigned \ {0} /\ b \in Nat \ {0}  BY Bases
<1>3. \A x \in V : udiv64(x, b) \in V
  <2> SUFFICES ASSUME NEW x \in Unsigned PROVE udiv64(x, b) \in Unsigned  OBVIOUS
  <2>1. udiv64(x, b) = x \div b  BY <1>2, udivExact
  <2>2. Whole \in Nat  BY Sizes
  <2>3. x \in Nat /\ x < Whole  BY <2>2 DEF Unsigned
  <2>4. x \div b \in 0..x  BY <1>2, <2>3, QuotientOrder
  <2>5. x \div b \in 0..(Whole - 1)  BY <2>2, <2>3, <2>4
  <2> QED  BY <2>1, <2>5 DEF Unsigned
<1>4. \A k \in 1..n : \A x \in V : g[k][x] = udiv64(x, b)  OBVIOUS
<1> HIDE DEF V, n
<1>5. PICK f : Recursion(f, i, g, n, V)
  <2>1. StepsIn(g, n, V) /\ i \in V  BY <1>3, <1>4 DEF StepsIn, V
  <2> HIDE DEF g
  <2> QED  BY <1>1, <2>1, RecursionExists
<1>6. f \in [0..n -> V] /\ f[0] = i /\ \A k \in 1..n : f[k] = udiv64(f[k - 1], b)
  <2> HIDE DEF g
  <2>1. \A k \in 1..n : k - 1 \in 0..n  BY <1>1
  <2> QED  BY <1>4, <1>5, <2>1 DEF Recursion
<1>7. f = [k \in 0..n |-> IF k = 0 THEN i ELSE udiv64(f[k - 1], b)]
  <2> DEFINE h == [k \in 0..n |-> IF k = 0 THEN i ELSE udiv64(f[k - 1], b)]
  <2>1. \A k \in 0..n : f[k] = h[k]
    <3>1. \A k \in 0..n : k = 0 \/ k \in 1..n  BY <1>1
    <3> QED  BY <1>6, <3>1
  <2>2. DOMAIN f = 0..n /\ f = [k \in DOMAIN f |-> f[k]]  BY <1>6
  <2> QED  BY <2>1, <2>2
<1> QED  BY <1>7 DEF IsRemain, n

LEMMA RemainIs ==
  ASSUME NEW i \in Unsigned, NEW b \in {8, 10, 16}, NEW f, IsRemain(f, i, b),
         NEW k \in 0..(MaxNumberLength + 1)
  PROVE  f[k] = i \div Power(b, k) /\ f[k] \in Unsigned
<1> DEFINE n == MaxNumberLength + 1
           Good(j) == f[j] = i \div Power(b, j) /\ f[j] \in Unsigned
           Bad == {j \in 0..n : ~Good(j)}
<1>1. n \in Nat  BY ConsoleAssumption
<1>2. b \in Unsigned \ {0} /\ b \in Nat \ {0}  BY Bases
<1>3. i \in Nat /\ Whole \in Nat /\ i < Whole  BY Sizes DEF Unsigned
<1>4. \A x \in Nat \ {0} : i \div x \in Unsigned
  <2> SUFFICES ASSUME NEW x \in Nat \ {0} PROVE i \div x \in Unsigned  OBVIOUS
  <2>1. i \div x \in 0..i  BY <1>3, QuotientOrder
  <2>2. i \div x \in 0..(Whole - 1)  BY <1>3, <2>1
  <2> QED  BY <2>2 DEF Unsigned
<1>5. f[0] = i /\ \A j \in 1..n : f[j] = udiv64(f[j - 1], b)
  <2>1. 0 \in 0..n /\ \A j \in 1..n : j \in 0..n /\ j # 0  BY <1>1
  <2> QED  BY <2>1 DEF IsRemain
<1>6. Good(0)
  <2>1. Power(b, 0) = 1  BY <1>2, PowerSteps
  <2>2. i \div 1 = i  BY <1>3
  <2> QED  BY <1>5, <2>1, <2>2
<1>7. Bad = {}
  <2> SUFFICES ASSUME Bad # {} PROVE FALSE  OBVIOUS
  <2>1. PICK j \in Bad : \A l \in Bad : j <= l
    <3>1. Bad \in SUBSET Nat  OBVIOUS
    <3> HIDE DEF Bad
    <3> QED  BY <3>1, LeastElement
  <2>2. j # 0 /\ j \in 0..n  BY <1>6
  <2> DEFINE l == j - 1
  <2>3. l \in Nat /\ l + 1 = j /\ l \in 0..n /\ j \in 1..n /\ ~(j <= l)  BY <1>1, <2>2
  <2>4. Good(l)  BY <2>1, <2>3
  <2> HIDE DEF Bad, n, l
  <2> DEFINE P == Power(b, l)
  <2>5. P \in Nat \ {0} /\ Power(b, j) = b * P /\ Power(b, j) \in Nat \ {0}
    <3>1. P \in Nat \ {0} /\ Power(b, l + 1) = b * P  BY <1>2, <2>3, PowerSteps
    <3>2. j \in Nat  BY <2>3
    <3>3. Power(b, j) \in Nat \ {0}  BY <1>2, <3>2, PowerSteps
    <3> QED  BY <2>3, <3>1, <3>3
  <2>6. f[j] = udiv64(f[l], b)  BY <1>5, <2>3 DEF l
  <2>7. f[j] = f[l] \div b  BY <1>2, <2>4, <2>6, udivExact
  <2>8. f[l] = i \div P  BY <2>4
  <2>9. (i \div P) \div b = i \div (b * P)
    <3> HIDE DEF P
    <3> QED  BY <1>2, <1>3, <2>5, TwoQuotients
  <2>10. f[j] = i \div Power(b, j)  BY <2>5, <2>7, <2>8, <2>9
  <2>11. Good(j)  BY <1>4, <2>5, <2>10
  <2> QED  BY <2>1, <2>11 DEF Bad
<1> QED  BY <1>7

LEMMA ZeroQuotient ==
  ASSUME NEW i \in Nat, NEW p \in Nat \ {0}
  PROVE  i \div p = 0 <=> i < p
<1> DEFINE x == i \div p
<1>1. x \in Nat /\ x * p <= i /\ i < x * p + p
  <2>0. i \in Int /\ p \in Nat \ {0}  OBVIOUS
  <2>1. IsQuotient(i, p, x, i % p)  BY ONLY <2>0, QuotientBounds
  <2> HIDE DEF x
  <2> QED  BY <2>1 DEF IsQuotient
<1> HIDE DEF x
<1>2. x = 0 => i < p
  <2>1. x = 0 => x * p = 0  OBVIOUS
  <2> QED  BY <1>1, <2>1
<1>3. x # 0 => i >= p
  <2>1. x * p = (x - 1) * p + p /\ (x # 0 => (x - 1) * p >= 0) /\ (x - 1) * p \in Int
    BY <1>1
  <2> QED  BY <1>1, <2>1
<1>4. x = 0 <=> i < p  BY <1>2, <1>3
<1> QED  BY <1>4 DEF x

\* k is the length of the numeral of i in base b.
IsLength(k, i, b) == Power(b, k) > i /\ (k = 1 \/ Power(b, k - 1) <= i)

LEMMA OneLength ==
  ASSUME NEW i \in Nat, NEW b \in Nat \ {0}, NEW j \in Nat \ {0}, NEW k \in Nat \ {0},
         IsLength(j, i, b), IsLength(k, i, b)
  PROVE  j = k
<1>1. ASSUME NEW x \in Nat \ {0}, NEW y \in Nat \ {0}, IsLength(x, i, b), IsLength(y, i, b)
      PROVE  ~(x < y)
  <2> SUFFICES ASSUME x < y PROVE FALSE  OBVIOUS
  <2>1. y # 1 /\ y - 1 \in Nat /\ x \in Nat /\ x <= y - 1  OBVIOUS
  <2>2. Power(b, x) > i /\ Power(b, y - 1) <= i  BY <1>1, <2>1 DEF IsLength
  <2>3. Power(b, x) <= Power(b, y - 1)  BY <2>1, PowerOrder
  <2>4. Power(b, x) \in Nat /\ Power(b, y - 1) \in Nat  BY <2>1, PowerSteps
  <2> QED  BY <2>2, <2>3, <2>4
<1>2. ~(j < k) /\ ~(k < j)  BY <1>1
<1> QED  BY <1>2

LEMMA NumeralIs ==
  ASSUME NEW i \in Nat, NEW b \in Nat \ {0}, NEW k \in 1..(MaxNumberLength + 1),
         IsLength(k, i, b)
  PROVE  Numeral(i, b) = [j \in 1..k |-> digits[((i \div Power(b, k - j)) % b) + 1]]
<1> DEFINE l == CHOOSE x \in 1..(MaxNumberLength + 1) :
                  Power(b, x) > i /\ (x = 1 \/ Power(b, x - 1) <= i)
<1>1. l \in 1..(MaxNumberLength + 1) /\ IsLength(l, i, b)  BY DEF IsLength
<1>2. Numeral(i, b) = [j \in 1..l |-> digits[((i \div Power(b, l - j)) % b) + 1]]
  BY DEF Numeral
<1> HIDE DEF l
<1>3. l \in Nat \ {0} /\ k \in Nat \ {0}  BY <1>1, ConsoleAssumption
<1>4. l = k  BY <1>1, <1>3, OneLength
<1> QED  BY <1>2, <1>4

\* Everything that can be printed.
Glyphs ==
  {digits[k] : k \in 1..16} \cup Range(Argument)
    \cup UNION {Range(f) : f \in Formats}

LEMMA GlyphSequences ==
  ASSUME NEW T, NEW s \in Seq(T), Range(s) \subseteq Glyphs
  PROVE  s \in Seq(Glyphs)
<1>1. \A k \in 1..Len(s) : s[k] \in Glyphs
  <2>1. DOMAIN s = 1..Len(s)  OBVIOUS
  <2> QED  BY <2>1 DEF Range
<1>2. Len(s) \in Nat /\ s = [k \in 1..Len(s) |-> s[k]]  OBVIOUS
<1>3. s \in [1..Len(s) -> Glyphs]  BY <1>1, <1>2
<1> QED  BY <1>2, <1>3

LEMMA InputsArePrintable ==
  /\ Argument \in Seq(Glyphs)
  /\ \A f \in Formats : f \in Seq(Glyphs)
  /\ \A d \in 0..15 : digits[d + 1] \in Glyphs
<1>1. Argument \in Seq(Glyphs)
  <2>1. Range(Argument) \subseteq Glyphs  BY DEF Glyphs
  <2> QED  BY <2>1, ConsoleAssumption, GlyphSequences
<1>2. ASSUME NEW f \in Formats PROVE f \in Seq(Glyphs)
  <2>1. Range(f) \subseteq Glyphs  BY DEF Glyphs
  <2> QED  BY <2>1, ConsoleAssumption, GlyphSequences
<1>3. ASSUME NEW d \in 0..15 PROVE digits[d + 1] \in Glyphs
  <2>1. d + 1 \in 1..16  OBVIOUS
  <2>2. \A k \in 1..16 : digits[k] \in Glyphs  BY DEF Glyphs
  <2> HIDE DEF digits
  <2> QED  BY <2>1, <2>2
<1> QED  BY <1>1, <1>2, <1>3

LEMMA Enough ==
  ASSUME NEW i \in Unsigned, NEW b \in {8, 10, 16}
  PROVE  MaxNumberLength \in Nat /\ MaxNumberLength >= 1 /\ i < Power(b, MaxNumberLength)
<1>1. b \in Nat \ {0} /\ 8 \in Nat \ {0} /\ 8 <= b  BY Bases
<1>2. MaxNumberLength \in Nat /\ Power(8, MaxNumberLength) >= Whole  BY ConsoleAssumption
<1>3. Power(8, MaxNumberLength) <= Power(b, MaxNumberLength)  BY <1>1, <1>2, PowerBase
<1>4. Power(8, MaxNumberLength) \in Nat /\ Power(b, MaxNumberLength) \in Nat
  BY <1>1, <1>2, PowerSteps
<1>5. Whole \in Nat /\ Whole >= 2  BY Sizes
<1>6. i \in Nat /\ i < Whole  BY <1>5 DEF Unsigned
<1>7. MaxNumberLength # 0
  <2>1. Power(8, 0) = 1  BY <1>1, PowerSteps
  <2> QED  BY <1>2, <1>5, <2>1
<1> QED  BY <1>2, <1>3, <1>4, <1>5, <1>6, <1>7

LEMMA PrintedIs ==
  ASSUME NEW i \in Unsigned \ {0}, NEW b \in {8, 10, 16}
  PROVE  \E k \in 1..MaxNumberLength :
           /\ IsLength(k, i, b)
           /\ Printed(i, b) = [j \in 1..k |-> digits[((i \div Power(b, k - j)) % b) + 1]]
           /\ \A j \in 1..k : (i \div Power(b, k - j)) % b \in 0..15
<1> DEFINE M == MaxNumberLength
           f == CHOOSE h : IsRemain(h, i, b)
           Z == {k \in 0..(M + 1) : f[k] = 0}
           n == Min(Z)
<1>1. IsRemain(f, i, b)  BY RemainExists
<1>2. b \in Unsigned \ {0} /\ b \in Nat \ {0} /\ b <= 16 /\ b <= Half  BY Bases
<1>3. i \in Nat \ {0} /\ Half \in Nat /\ Half >= 16  BY Sizes DEF Unsigned
<1>4. M \in Nat /\ M >= 1 /\ i < Power(b, M)  BY Enough
<1>5. DOMAIN f = 0..(M + 1)
  <2> HIDE DEF f
  <2> QED  BY <1>1 DEF IsRemain
<1>6. Printed(i, b) = [j \in 1..n |-> digits[umod64(f[n - j], b) + 1]]
  <2> DEFINE F == CHOOSE remain : remain =
               [k \in 0..(MaxNumberLength + 1) |-> IF k = 0 THEN i ELSE udiv64(remain[k - 1], b)]
             N == Min({k \in DOMAIN F : F[k] = 0})
  <2>1. F = f  BY DEF IsRemain
  <2>2. N = n
    <3> HIDE DEF F, f
    <3> QED  BY <1>5, <2>1
  <2>3. Printed(i, b) = [j \in 1..N |-> digits[umod64(F[N - j], b) + 1]]  BY DEF Printed
  <2> HIDE DEF F, N, f, n
  <2> QED  BY <2>1, <2>2, <2>3
<1> HIDE DEF f
<1>7. \A k \in 0..(M + 1) : f[k] = i \div Power(b, k) /\ f[k] \in Unsigned
  BY <1>1, RemainIs
<1>8. \A k \in 0..(M + 1) : Power(b, k) \in Nat \ {0} /\ (f[k] = 0 <=> i < Power(b, k))
  <2> SUFFICES ASSUME NEW k \in 0..(M + 1)
               PROVE  Power(b, k) \in Nat \ {0} /\ (f[k] = 0 <=> i < Power(b, k))
    OBVIOUS
  <2>1. k \in Nat  BY <1>4
  <2>2. Power(b, k) \in Nat \ {0}  BY <1>2, <2>1, PowerSteps
  <2>3. i \div Power(b, k) = 0 <=> i < Power(b, k)  BY <1>3, <2>2, ZeroQuotient
  <2> QED  BY <1>7, <2>2, <2>3
<1>9. n \in Z /\ \A k \in Z : n <= k
  <2>1. M \in Z  BY <1>4, <1>8
  <2>2. Z \in SUBSET Nat  BY <1>4
  <2> HIDE DEF Z
  <2> QED  BY <2>1, <2>2, MinIsSmallest
<1>10. n \in 0..(M + 1) /\ f[n] = 0 /\ n <= M
  <2>1. M \in Z  BY <1>4, <1>8
  <2> HIDE DEF n
  <2> QED  BY <1>9, <2>1
<1>11. n # 0
  <2>1. 0 \in 0..(M + 1)  BY <1>4
  <2>2. Power(b, 0) = 1  BY <1>2, PowerSteps
  <2>3. f[0] # 0  BY <1>3, <1>8, <2>1, <2>2
  <2> HIDE DEF n
  <2> QED  BY <1>10, <2>3
<1> HIDE DEF n
<1>12. n \in 1..M /\ n - 1 \in 0..(M + 1) /\ ~(n <= n - 1)  BY <1>4, <1>10, <1>11
<1>13. IsLength(n, i, b)
  <2>1. i < Power(b, n) /\ Power(b, n) \in Nat  BY <1>8, <1>10
  <2>2. f[n - 1] # 0  BY <1>9, <1>12
  <2>3. ~(i < Power(b, n - 1)) /\ Power(b, n - 1) \in Nat  BY <1>8, <1>12, <2>2
  <2> QED  BY <1>3, <2>1, <2>3 DEF IsLength
<1>14. ASSUME NEW j \in 1..n
       PROVE  /\ umod64(f[n - j], b) = (i \div Power(b, n - j)) % b
              /\ (i \div Power(b, n - j)) % b \in 0..15
  <2> DEFINE x == f[n - j]
  <2>1. n - j \in 0..(M + 1)  BY <1>4, <1>10
  <2>2. x \in Unsigned /\ x = i \div Power(b, n - j)  BY <1>7, <2>1
  <2> HIDE DEF x
  <2>3. umod64(x, b) = (x % b) % Half  BY <1>2, <2>2, umodExact
  <2>4. x \in Int  BY <2>2, Sizes DEF Unsigned
  <2>5. x % b \in 0..15 /\ x % b \in 0..(Half - 1)
    <3>1. x % b \in 0..(b - 1)  BY <1>2, <2>4
    <3> QED  BY <1>2, <1>3, <3>1
  <2>6. (x % b) % Half = x % b
    <3> DEFINE y == x % b
    <3>1. y \in 0..(Half - 1) /\ Half \in Nat \ {0}  BY <1>3, <2>5
    <3> HIDE DEF y
    <3>2. y % Half = y  BY ONLY <3>1, SmallModulo
    <3> QED  BY <3>2 DEF y
  <2> QED  BY <2>2, <2>3, <2>5, <2>6 DEF x
<1>15. Printed(i, b) = [j \in 1..n |-> digits[((i \div Power(b, n - j)) % b) + 1]]
  BY <1>6, <1>14
<1> QED  BY <1>12, <1>13, <1>14, <1>15

\* printf_u prints the numeral, and its buffer is long enough.
LEMMA PrintsNumeral ==
  ASSUME NEW i \in Unsigned, NEW b \in {8, 10, 16}
  PROVE  /\ printf_u(i, b) = Numeral(i, b)
         /\ printf_u(i, b) \in Seq(Glyphs)
         /\ Len(printf_u(i, b)) <= MaxNumberLength
<1>1. MaxNumberLength \in Nat /\ MaxNumberLength >= 1  BY Enough
<1>2. b \in Nat \ {0} /\ b >= 8  BY Bases
<1>3. i \in Nat  BY Sizes DEF Unsigned
<1>4. CASE i = 0
  <2>1. printf_u(i, b) = <<digits[1]>>  BY <1>4 DEF printf_u
  <2>2. 0 \in 0..15 /\ 0 + 1 = 1  OBVIOUS
  <2>3. digits[1] \in Glyphs  BY <2>2, InputsArePrintable
  <2>4. Power(b, 0) = 1 /\ Power(b, 0 + 1) = b * Power(b, 0)  BY <1>2, PowerSteps
  <2>5. Power(b, 1) = b  BY <1>2, <2>2, <2>4
  <2>6. IsLength(1, i, b)  BY <1>2, <1>4, <2>5 DEF IsLength
  <2>7. 1 \in 1..(MaxNumberLength + 1)  BY <1>1
  <2>8. Numeral(i, b) = [j \in 1..1 |-> digits[((i \div Power(b, 1 - j)) % b) + 1]]
    BY <1>2, <1>3, <2>6, <2>7, NumeralIs
  <2>9. ASSUME NEW j \in 1..1 PROVE digits[((i \div Power(b, 1 - j)) % b) + 1] = digits[1]
    <3>1. 1 - j = 0 /\ 0 \div 1 = 0 /\ 0 % b = 0  BY <1>2
    <3> QED  BY <1>4, <2>4, <3>1
  <2>10. Numeral(i, b) = [j \in 1..1 |-> digits[1]]  BY <2>8, <2>9
  <2>11. Numeral(i, b) = <<digits[1]>>  BY <2>10
  <2> QED  BY <1>1, <2>1, <2>3, <2>11
<1>5. CASE i # 0
  <2>1. printf_u(i, b) = Printed(i, b)  BY <1>5 DEF printf_u
  <2>2. PICK k \in 1..MaxNumberLength :
           /\ IsLength(k, i, b)
           /\ Printed(i, b) = [j \in 1..k |-> digits[((i \div Power(b, k - j)) % b) + 1]]
           /\ \A j \in 1..k : (i \div Power(b, k - j)) % b \in 0..15
    BY <1>5, PrintedIs
  <2>3. k \in 1..(MaxNumberLength + 1) /\ k \in Nat  BY <1>1
  <2>4. Numeral(i, b) = [j \in 1..k |-> digits[((i \div Power(b, k - j)) % b) + 1]]
    BY <1>2, <1>3, <2>2, <2>3, NumeralIs
  <2> DEFINE d(j) == digits[((i \div Power(b, k - j)) % b) + 1]
  <2>5. \A j \in 1..k : d(j) \in Glyphs
    <3> SUFFICES ASSUME NEW j \in 1..k PROVE d(j) \in Glyphs  OBVIOUS
    <3>1. (i \div Power(b, k - j)) % b \in 0..15  BY <2>2
    <3> QED  BY ONLY <3>1, InputsArePrintable
  <2>6. Printed(i, b) = [j \in 1..k |-> d(j)]  BY <2>2
  <2> HIDE DEF d
  <2>7. Printed(i, b) \in Seq(Glyphs) /\ Len(Printed(i, b)) = k  BY <2>3, <2>5, <2>6
  <2> QED  BY <1>1, <2>1, <2>2, <2>4, <2>7
<1> QED  BY <1>4, <1>5

-----------------------------------------------------------------------------
(* printf.                                                                 *)

\* Where a thread is in printf, and inside terminal_putchar.
Places == {"call", "format", "putchar", "column", "row", "scroll", "done"}
Middle == {"column", "row", "scroll"}

\* Output, for given operands.
Item(item, i, b) ==
  CASE item = Conversion -> printf_u(i, b)
    [] item = String -> Argument
    [] OTHER -> <<item>>

\* The operands are a number and a base of printf_u, if f prints one.
Printing(f, i, b) == Conversion \in Range(f) => i \in Unsigned /\ b \in {8, 10, 16}

\* F[k] is what the first k items of the format f print.
Flow(F, f, i, b) ==
  /\ F \in [0..Len(f) -> Seq(Glyphs)]
  /\ F[0] = <<>>
  /\ \A k \in 1..Len(f) : F[k] = F[k - 1] \o Item(f[k], i, b)
  /\ F[Len(f)] = FlattenSeq([k \in 1..Len(f) |-> Item(f[k], i, b)])

\* What a thread at p has said, when the items it has begun print G.
Stage(p, o, w, s, G) ==
  /\ w = Len(G)
  /\ p \in {"call", "format", "done"} => o = <<>> /\ s = G
  /\ p = "putchar" => s \o o = G
  /\ p \in Middle => o # <<>> /\ s \o Tail(o) = G

\* A thread at p, with what is left of the format and what it was called with.
ThreadOk(p, f, o, w, s, c, i, b) ==
  /\ p \in Places /\ f \in Seq(Glyphs) /\ o \in Seq(Glyphs) /\ s \in Seq(Glyphs)
  /\ c \in Seq(Glyphs) /\ Printing(c, i, b)
  /\ Len(f) <= Len(c)
  /\ \A k \in 1..Len(f) : f[k] = c[k + (Len(c) - Len(f))]
  /\ p = "call" => c = <<>>
  /\ p = "done" => f = <<>>
  /\ \E F : Flow(F, c, i, b) /\ Stage(p, o, w, s, F[Len(c) - Len(f)])

LEMMA ItemTyped ==
  ASSUME NEW item \in Glyphs, NEW i, NEW b,
         item = Conversion => i \in Unsigned /\ b \in {8, 10, 16}
  PROVE  Item(item, i, b) \in Seq(Glyphs)
<1>1. Argument \in Seq(Glyphs) /\ <<item>> \in Seq(Glyphs)  BY InputsArePrintable
<1>2. item = Conversion => printf_u(i, b) \in Seq(Glyphs)  BY PrintsNumeral
<1> QED  BY <1>1, <1>2 DEF Item

LEMMA ItemInRange ==
  ASSUME NEW T, NEW s \in Seq(T), NEW k \in 1..Len(s)
  PROVE  s[k] \in Range(s) /\ s[k] \in T
<1>1. k \in DOMAIN s /\ s[k] \in T  OBVIOUS
<1> QED  BY <1>1 DEF Range

LEMMA FlowExists ==
  ASSUME NEW f \in Seq(Glyphs), NEW i, NEW b, Printing(f, i, b)
  PROVE  \E F : Flow(F, f, i, b)
<1> DEFINE n == Len(f)
           V == Seq(Glyphs)
           seqs == [k \in 1..n |-> Item(f[k], i, b)]
<1>1. n \in Nat  OBVIOUS
<1>2. \A k \in 1..n : Item(f[k], i, b) \in V
  <2> SUFFICES ASSUME NEW k \in 1..n PROVE Item(f[k], i, b) \in V  OBVIOUS
  <2>1. f[k] \in Glyphs /\ f[k] \in Range(f)  BY ItemInRange
  <2>2. f[k] = Conversion => i \in Unsigned /\ b \in {8, 10, 16}  BY <2>1 DEF Printing
  <2> QED  BY <2>1, <2>2, ItemTyped
<1>3. seqs \in Seq(V) /\ Len(seqs) = n
  <2>1. seqs \in [1..n -> V]  BY <1>2
  <2> HIDE DEF V, seqs, n
  <2> QED  BY <1>1, <2>1
<1>4. \A k \in 1..n : seqs[k] = Item(f[k], i, b)  OBVIOUS
<1> HIDE DEF seqs
<1>5. PICK F \in [0..Len(seqs) -> Seq(Glyphs)] :
           /\ F[0] = <<>>
           /\ \A k \in 1..Len(seqs) : F[k] = F[k - 1] \o seqs[k]
           /\ F[Len(seqs)] = FlattenSeq(seqs)
  BY <1>3, FlattenSteps
<1>6. F[n] = FlattenSeq([k \in 1..n |-> Item(f[k], i, b)])  BY <1>3, <1>5 DEF seqs
<1>7. \A k \in 1..n : F[k] = F[k - 1] \o Item(f[k], i, b)  BY <1>3, <1>4, <1>5
<1>8. F \in [0..n -> V] /\ F[0] = <<>>  BY <1>3, <1>5
<1> QED  BY <1>6, <1>7, <1>8 DEF Flow

\* One lemma for each way a step moves a thread.
LEMMA ThreadCalls ==
  ASSUME NEW f, NEW o, NEW w, NEW s, NEW c, NEW i, NEW b, NEW g \in Formats,
         ThreadOk("call", f, o, w, s, c, i, b), Printing(g, i, b)
  PROVE  ThreadOk("format", g, o, w, s, g, i, b)
<1>1. g \in Seq(Glyphs)  BY InputsArePrintable
<1>2. PICK F : Flow(F, g, i, b)  BY <1>1, FlowExists
<1>3. PICK E : Flow(E, c, i, b) /\ Stage("call", o, w, s, E[Len(c) - Len(f)])
  BY DEF ThreadOk
<1>4. c = <<>> /\ f \in Seq(Glyphs) /\ Len(f) <= Len(c) /\ o \in Seq(Glyphs) /\ s \in Seq(Glyphs)
  BY DEF ThreadOk
<1>5. Len(c) - Len(f) = 0  BY <1>4
<1>6. E[0] = <<>> /\ F[0] = <<>>  BY <1>2, <1>3 DEF Flow
<1>7. Stage("format", o, w, s, F[0])  BY <1>3, <1>5, <1>6 DEF Stage, Middle
<1>8. Len(g) \in Nat /\ Len(g) - Len(g) = 0 /\ \A k \in 1..Len(g) : k + 0 = k  BY <1>1
<1>9. \A k \in 1..Len(g) : g[k] = g[k + (Len(g) - Len(g))]  BY <1>8
<1>10. \E G : Flow(G, g, i, b) /\ Stage("format", o, w, s, G[Len(g) - Len(g)])
  BY <1>2, <1>7, <1>8
<1> QED  BY <1>1, <1>4, <1>8, <1>9, <1>10 DEF ThreadOk, Places

LEMMA ThreadConverts ==
  ASSUME NEW f, NEW o, NEW w, NEW s, NEW c, NEW i, NEW b, f # <<>>,
         ThreadOk("format", f, o, w, s, c, i, b)
  PROVE  LET x == Item(Head(f), i, b)
         IN ThreadOk("putchar", Tail(f), x, w + Len(x), s, c, i, b)
<1> DEFINE x == Item(Head(f), i, b)
           j == Len(c) - Len(f)
           h == j + 1
<1>1. f \in Seq(Glyphs) /\ o \in Seq(Glyphs) /\ s \in Seq(Glyphs) /\ c \in Seq(Glyphs)
      /\ Printing(c, i, b) /\ Len(f) <= Len(c)
  BY DEF ThreadOk
<1>2. PICK F : Flow(F, c, i, b) /\ Stage("format", o, w, s, F[j])  BY DEF ThreadOk
<1>3. Len(f) \in Nat \ {0} /\ Len(c) \in Nat /\ Head(f) = f[1] /\ Len(Tail(f)) = Len(f) - 1
      /\ Tail(f) \in Seq(Glyphs)
  BY <1>1
<1>4. j \in 0..Len(c) /\ h \in 1..Len(c) /\ h - 1 = j /\ 1 \in 1..Len(f) /\ 1 + j = h
      /\ Len(c) - Len(Tail(f)) = h
  BY <1>1, <1>3
<1>5. f[1] = c[1 + j]  BY <1>4 DEF ThreadOk
<1>6. Head(f) = c[h]  BY <1>3, <1>4, <1>5
<1>7. c[h] \in Glyphs /\ c[h] \in Range(c)  BY <1>1, <1>4, ItemInRange
<1>8. x \in Seq(Glyphs)
  <2>1. c[h] = Conversion => i \in Unsigned /\ b \in {8, 10, 16}  BY <1>1, <1>7 DEF Printing
  <2> QED  BY <1>6, <1>7, <2>1, ItemTyped
<1>9. F[h] = F[j] \o x
  <2>1. F[h] = F[h - 1] \o Item(c[h], i, b)  BY <1>2, <1>4 DEF Flow
  <2> QED  BY <1>4, <1>6, <2>1
<1>10. F[j] \in Seq(Glyphs)  BY <1>2, <1>4 DEF Flow
<1>11. s = F[j] /\ w = Len(F[j])  BY <1>2 DEF Stage
<1> HIDE DEF x
<1>12. Stage("putchar", x, w + Len(x), s, F[h])
  <2>1. Len(F[j] \o x) = Len(F[j]) + Len(x)  BY <1>8, <1>10
  <2> QED  BY <1>9, <1>11, <2>1 DEF Stage, Middle
<1>13. \A k \in 1..Len(Tail(f)) : Tail(f)[k] = c[k + h]
  <2> SUFFICES ASSUME NEW k \in 1..Len(Tail(f)) PROVE Tail(f)[k] = c[k + h]  OBVIOUS
  <2>1. k + 1 \in 1..Len(f) /\ (k + 1) + j = k + h  BY <1>3, <1>4
  <2>2. Tail(f)[k] = f[k + 1]  BY <1>1, <1>3
  <2>3. f[k + 1] = c[(k + 1) + j]  BY <2>1 DEF ThreadOk
  <2> QED  BY <2>1, <2>2, <2>3
<1> HIDE DEF h, j
<1>14. ThreadOk("putchar", Tail(f), x, w + Len(x), s, c, i, b)
  <2>1. \A k \in 1..Len(Tail(f)) : Tail(f)[k] = c[k + (Len(c) - Len(Tail(f)))]
    BY <1>4, <1>13
  <2>2. Stage("putchar", x, w + Len(x), s, F[Len(c) - Len(Tail(f))])  BY <1>4, <1>12
  <2>3. Len(Tail(f)) <= Len(c)  BY <1>1, <1>3
  <2> QED  BY <1>1, <1>2, <1>3, <1>8, <2>1, <2>2, <2>3 DEF ThreadOk, Places
<1> QED  BY <1>14 DEF x

LEMMA ThreadReturns ==
  ASSUME NEW o, NEW w, NEW s, NEW c, NEW i, NEW b,
         ThreadOk("format", <<>>, o, w, s, c, i, b)
  PROVE  ThreadOk("done", <<>>, o, w, s, c, i, b)
  BY DEF ThreadOk, Places, Stage, Middle

LEMMA ThreadEndsItem ==
  ASSUME NEW f, NEW w, NEW s, NEW c, NEW i, NEW b,
         ThreadOk("putchar", f, <<>>, w, s, c, i, b)
  PROVE  ThreadOk("format", f, <<>>, w, s, c, i, b)
<1>1. s \in Seq(Glyphs)  BY DEF ThreadOk
<1>2. s \o <<>> = s  BY <1>1
<1> QED  BY <1>2 DEF ThreadOk, Places, Stage, Middle

\* One character moves from what is to be printed to what is.
LEMMA MoveOne ==
  ASSUME NEW T, NEW s \in Seq(T), NEW o \in Seq(T), o # <<>>
  PROVE  /\ Append(s, Head(o)) \o Tail(o) = s \o o
         /\ Head(o) \in T /\ Tail(o) \in Seq(T) /\ Append(s, Head(o)) \in Seq(T)
<1> DEFINE a == Append(s, Head(o))
           b == Tail(o)
           x == a \o b
           y == s \o o
<1>1. Len(o) \in Nat \ {0} /\ Len(s) \in Nat /\ Head(o) = o[1] /\ Head(o) \in T
      /\ b \in Seq(T) /\ Len(b) = Len(o) - 1 /\ a \in Seq(T) /\ Len(a) = Len(s) + 1
  OBVIOUS
<1>2. x \in Seq(T) /\ y \in Seq(T) /\ Len(x) = Len(a) + Len(b) /\ Len(y) = Len(s) + Len(o)
  <2>1. \A p, q \in Seq(T) : p \o q \in Seq(T) /\ Len(p \o q) = Len(p) + Len(q)  OBVIOUS
  <2> HIDE DEF a, b
  <2> QED  BY <1>1, <2>1
<1>3. Len(x) = Len(y)  BY <1>1, <1>2
<1>4. ASSUME NEW k \in 1..Len(y) PROVE x[k] = y[k]
  <2>1. CASE k <= Len(s)
    <3>1. k \in 1..Len(s) /\ k \in 1..Len(a)  BY <1>1, <2>1
    <3>2. y[k] = s[k]  BY <3>1
    <3>3. x[k] = a[k]
      <4> HIDE DEF a, b
      <4> QED  BY <1>1, <3>1
    <3>4. a[k] = s[k]  BY <3>1
    <3> QED  BY <3>2, <3>3, <3>4
  <2>2. CASE k = Len(s) + 1
    <3>1. k \in 1..Len(a) /\ k - Len(s) = 1 /\ k \in Nat /\ k > Len(s)  BY <1>1, <2>2
    <3>2. x[k] = a[k]
      <4> HIDE DEF a, b
      <4> QED  BY <1>1, <3>1
    <3>3. a[k] = Head(o)  BY <1>1, <2>2
    <3>4. y[k] = o[k - Len(s)]  BY <1>1, <1>2, <3>1
    <3> QED  BY <1>1, <3>1, <3>2, <3>3, <3>4
  <2>3. CASE k > Len(s) + 1
    <3>1. k - Len(a) \in 1..Len(b) /\ k - Len(s) \in 1..Len(o) /\ k > Len(a) /\ k > Len(s)
          /\ (k - Len(a)) + 1 = k - Len(s) /\ k <= Len(a) + Len(b)
      BY <1>1, <1>2, <2>3
    <3>2. x[k] = b[k - Len(a)]
      <4> HIDE DEF a, b
      <4> QED  BY <1>1, <1>2, <3>1
    <3>3. b[k - Len(a)] = o[(k - Len(a)) + 1]
      <4> DEFINE z == k - Len(a)
      <4>1. z \in 1..Len(b)  BY <3>1
      <4> HIDE DEF a, z
      <4>2. b[z] = o[z + 1]  BY <1>1, <4>1
      <4> QED  BY <4>2 DEF z
    <3>4. y[k] = o[k - Len(s)]  BY <1>1, <1>2, <3>1
    <3> QED  BY <3>1, <3>2, <3>3, <3>4
  <2> QED  BY <1>1, <1>2, <2>1, <2>2, <2>3
<1> HIDE DEF x, y
<1>5. x = y  BY <1>2, <1>3, <1>4, SeqEqual
<1> QED  BY <1>1, <1>5 DEF x, y

LEMMA ThreadPuts ==
  ASSUME NEW p \in Middle, NEW f, NEW o, NEW w, NEW s, NEW c, NEW i, NEW b, o # <<>>,
         ThreadOk("putchar", f, o, w, s, c, i, b)
  PROVE  ThreadOk(p, f, o, w, Append(s, Head(o)), c, i, b)
<1>1. s \in Seq(Glyphs) /\ o \in Seq(Glyphs)  BY DEF ThreadOk
<1>2. Append(s, Head(o)) \o Tail(o) = s \o o /\ Append(s, Head(o)) \in Seq(Glyphs)
  BY <1>1, MoveOne
<1> DEFINE r == Append(s, Head(o))
<1> HIDE DEF r
<1>3. r \o Tail(o) = s \o o /\ r \in Seq(Glyphs)  BY <1>2 DEF r
<1>4. ThreadOk(p, f, o, w, r, c, i, b)  BY <1>3 DEF ThreadOk, Places, Stage, Middle
<1> QED  BY <1>4 DEF r

LEMMA ThreadMoves ==
  ASSUME NEW p \in Middle, NEW q \in Middle, NEW f, NEW o, NEW w, NEW s, NEW c, NEW i, NEW b,
         ThreadOk(p, f, o, w, s, c, i, b)
  PROVE  ThreadOk(q, f, o, w, s, c, i, b)
  BY DEF ThreadOk, Places, Stage, Middle

LEMMA ThreadEndsPutchar ==
  ASSUME NEW p \in Middle, NEW f, NEW o, NEW w, NEW s, NEW c, NEW i, NEW b,
         ThreadOk(p, f, o, w, s, c, i, b)
  PROVE  ThreadOk("putchar", f, Tail(o), w, s, c, i, b)
<1>1. o \in Seq(Glyphs) /\ o # <<>>  BY DEF ThreadOk, Stage, Middle
<1>2. Tail(o) \in Seq(Glyphs)  BY <1>1
<1> QED  BY <1>2 DEF ThreadOk, Places, Stage, Middle

Domains ==
  /\ DOMAIN place = Threads /\ DOMAIN format = Threads /\ DOMAIN out = Threads
  /\ DOMAIN written = Threads /\ DOMAIN said = Threads /\ DOMAIN called = Threads

(* The inductive invariant of printf: what a thread has given to           *)
(* terminal_putchar and what it has still to give are together what the    *)
(* items it has begun print, and the items left are the end of its format. *)
PrintInv ==
  /\ num \in Unsigned /\ den \in Unsigned
  /\ Domains
  /\ text \in Seq(Glyphs)
  /\ \A t \in Threads :
       ThreadOk(place[t], format[t], out[t], written[t], said[t], called[t], num, den)

LEMMA PrintInvInit ==
  ASSUME ConsoleInit
  PROVE  PrintInv
<1>1. num \in Unsigned /\ den \in Unsigned /\ Domains /\ text \in Seq(Glyphs)
  <2>1. num \in Unsigned /\ den \in Unsigned /\ text = <<>>  BY DEF ConsoleInit
  <2>2. Domains  BY DEF ConsoleInit, Domains
  <2> QED  BY <2>1, <2>2
<1>2. ThreadOk("call", <<>>, <<>>, 0, <<>>, <<>>, num, den)
  <2>1. <<>> \in Seq(Glyphs) /\ Len(<<>>) = 0 /\ 0 - 0 = 0 /\ 1..0 = {}  OBVIOUS
  <2>2. Range(<<>>) = {}  BY DEF Range
  <2>3. Printing(<<>>, num, den)  BY <2>2 DEF Printing
  <2>4. PICK F : Flow(F, <<>>, num, den)  BY <2>1, <2>3, FlowExists
  <2>5. F[0] = <<>>  BY <2>4 DEF Flow
  <2>6. Stage("call", <<>>, 0, <<>>, F[0])  BY <2>1, <2>5 DEF Stage, Middle
  <2> QED  BY <2>1, <2>3, <2>4, <2>6 DEF ThreadOk, Places
<1>3. ASSUME NEW t \in Threads
      PROVE  ThreadOk(place[t], format[t], out[t], written[t], said[t], called[t], num, den)
  <2>1. place[t] = "call" /\ format[t] = <<>> /\ out[t] = <<>> /\ written[t] = 0
        /\ said[t] = <<>> /\ called[t] = <<>>
    BY DEF ConsoleInit
  <2> QED  BY <1>2, <2>1
<1> QED  BY <1>1, <1>3 DEF PrintInv

\* A step of t leaves what the other threads print alone.
Others(t) ==
  \A u \in Threads \ {t} :
    /\ place'[u] = place[u] /\ format'[u] = format[u] /\ out'[u] = out[u]
    /\ written'[u] = written[u] /\ said'[u] = said[u] /\ called'[u] = called[u]

LEMMA OneThread ==
  ASSUME PrintInv, NEW t \in Threads, Others(t), num' = num, den' = den, Domains',
         text' \in Seq(Glyphs),
         ThreadOk(place'[t], format'[t], out'[t], written'[t], said'[t], called'[t], num, den)
  PROVE  PrintInv'
<1>1. num' \in Unsigned /\ den' \in Unsigned  BY DEF PrintInv
<1>2. ASSUME NEW u \in Threads
      PROVE  ThreadOk(place'[u], format'[u], out'[u], written'[u], said'[u], called'[u],
                      num', den')
  <2>1. CASE u = t  BY <2>1
  <2>2. CASE u # t
    <3>1. u \in Threads \ {t}  BY <2>2
    <3>2. ThreadOk(place[u], format[u], out[u], written[u], said[u], called[u], num, den)
      BY DEF PrintInv
    <3> QED  BY <3>1, <3>2 DEF Others
  <2> QED  BY <2>1, <2>2
<1>3. Unsigned' = Unsigned  BY DEF Unsigned
<1> QED  BY <1>1, <1>2 DEF PrintInv, Unsigned

LEMMA PrintfPrints ==
  ASSUME PrintInv, NEW t \in Threads, Printf(t)
  PROVE  PrintInv'
<1>1. PICK f \in Formats : /\ Conversion \in Range(f) => HasConversion
                           /\ format' = [format EXCEPT ![t] = f]
                           /\ called' = [called EXCEPT ![t] = f]
  BY DEF Printf
<1>2. place[t] = "call" /\ place' = [place EXCEPT ![t] = "format"]  BY DEF Printf, Goto
<1>3. num' = num /\ den' = den /\ out' = out /\ written' = written /\ said' = said
      /\ text' = text
  BY DEF Printf
<1>4. Domains /\ text \in Seq(Glyphs) /\ num \in Unsigned /\ den \in Unsigned
      /\ ThreadOk(place[t], format[t], out[t], written[t], said[t], called[t], num, den)
  BY DEF PrintInv
<1>5. Printing(f, num, den)  BY <1>1, <1>4 DEF Printing, HasConversion
<1>6. ThreadOk("format", f, out[t], written[t], said[t], f, num, den)
  BY <1>2, <1>4, <1>5, ThreadCalls
<1>7. Domains' /\ Others(t) /\ place'[t] = "format" /\ format'[t] = f /\ called'[t] = f
  BY <1>1, <1>2, <1>3, <1>4 DEF Domains, Others
<1>8. ThreadOk(place'[t], format'[t], out'[t], written'[t], said'[t], called'[t], num, den)
  BY <1>3, <1>6, <1>7
<1> QED  BY <1>3, <1>4, <1>7, <1>8, OneThread

LEMMA ConvertPrints ==
  ASSUME PrintInv, NEW t \in Threads, Convert(t)
  PROVE  PrintInv'
<1> DEFINE x == Item(Head(format[t]), num, den)
<1>1. Output(Head(format[t])) = x  BY DEF Output, Item
<1>2. place[t] = "format" /\ place' = [place EXCEPT ![t] = "putchar"] /\ format[t] # <<>>
  BY DEF Convert, Goto
<1>3. num' = num /\ den' = den /\ called' = called /\ said' = said /\ text' = text
      /\ format' = [format EXCEPT ![t] = Tail(format[t])]
  BY DEF Convert, history
<1>4. out' = [out EXCEPT ![t] = x] /\ written' = [written EXCEPT ![t] = written[t] + Len(x)]
  BY <1>1 DEF Convert
<1>5. Domains /\ text \in Seq(Glyphs)
      /\ ThreadOk(place[t], format[t], out[t], written[t], said[t], called[t], num, den)
  BY DEF PrintInv
<1>6. ThreadOk("putchar", Tail(format[t]), x, written[t] + Len(x), said[t], called[t], num, den)
  BY <1>2, <1>5, ThreadConverts
<1> HIDE DEF x
<1>7. Domains' /\ Others(t) /\ place'[t] = "putchar" /\ format'[t] = Tail(format[t])
      /\ out'[t] = x /\ written'[t] = written[t] + Len(x)
  BY <1>2, <1>3, <1>4, <1>5 DEF Domains, Others
<1>8. ThreadOk(place'[t], format'[t], out'[t], written'[t], said'[t], called'[t], num, den)
  BY <1>3, <1>6, <1>7
<1> QED  BY <1>3, <1>5, <1>7, <1>8, OneThread

LEMMA EndPrints ==
  ASSUME PrintInv, NEW t \in Threads, UnknownFormat(t) \/ Return(t) \/ Written(t)
  PROVE  PrintInv'
<1>1. num' = num /\ den' = den /\ format' = format /\ out' = out /\ written' = written
      /\ called' = called /\ said' = said /\ text' = text
  BY DEF UnknownFormat, Return, Written, history
<1>2. Domains /\ text \in Seq(Glyphs)
      /\ ThreadOk(place[t], format[t], out[t], written[t], said[t], called[t], num, den)
  BY DEF PrintInv
<1>3. CASE UnknownFormat(t)
  <2>1. place' = place  BY <1>3 DEF UnknownFormat
  <2>2. Domains' /\ Others(t)  BY <1>1, <1>2, <2>1 DEF Domains, Others
  <2>3. ThreadOk(place'[t], format'[t], out'[t], written'[t], said'[t], called'[t], num, den)
    BY <1>1, <1>2, <2>1
  <2> QED  BY <1>1, <1>2, <2>2, <2>3, OneThread
<1>4. CASE Return(t)
  <2>1. place[t] = "format" /\ place' = [place EXCEPT ![t] = "done"] /\ format[t] = <<>>
    BY <1>4 DEF Return, Goto
  <2>2. Domains' /\ Others(t) /\ place'[t] = "done"
    BY <1>1, <1>2, <2>1 DEF Domains, Others
  <2>3. ThreadOk("done", <<>>, out[t], written[t], said[t], called[t], num, den)
    BY <1>2, <2>1, ThreadReturns
  <2>4. ThreadOk(place'[t], format'[t], out'[t], written'[t], said'[t], called'[t], num, den)
    BY <1>1, <2>1, <2>2, <2>3
  <2> QED  BY <1>1, <1>2, <2>2, <2>4, OneThread
<1>5. CASE Written(t)
  <2>1. place[t] = "putchar" /\ place' = [place EXCEPT ![t] = "format"] /\ out[t] = <<>>
    BY <1>5 DEF Written, Goto
  <2>2. Domains' /\ Others(t) /\ place'[t] = "format"
    BY <1>1, <1>2, <2>1 DEF Domains, Others
  <2>3. ThreadOk("format", format[t], <<>>, written[t], said[t], called[t], num, den)
    BY <1>2, <2>1, ThreadEndsItem
  <2>4. ThreadOk(place'[t], format'[t], out'[t], written'[t], said'[t], called'[t], num, den)
    BY <1>1, <2>1, <2>2, <2>3
  <2> QED  BY <1>1, <1>2, <2>2, <2>4, OneThread
<1> QED  BY <1>3, <1>4, <1>5

LEMMA PutEntryPrints ==
  ASSUME PrintInv, NEW t \in Threads, PutEntry(t)
  PROVE  PrintInv'
<1> DEFINE c == Head(out[t])
           q == IF c = Newline THEN "row" ELSE "column"
<1>1. out[t] # <<>> /\ place[t] = "putchar" /\ place' = [place EXCEPT ![t] = q]
      /\ text' = Append(text, c) /\ said' = [said EXCEPT ![t] = Append(said[t], c)]
  BY DEF PutEntry, Goto
<1>2. num' = num /\ den' = den /\ format' = format /\ out' = out /\ written' = written
      /\ called' = called
  BY DEF PutEntry
<1>3. Domains /\ text \in Seq(Glyphs)
      /\ ThreadOk(place[t], format[t], out[t], written[t], said[t], called[t], num, den)
  BY DEF PrintInv
<1>4. q \in Middle  BY DEF Middle
<1>5. c \in Glyphs
  <2>1. out[t] \in Seq(Glyphs)  BY <1>3 DEF ThreadOk
  <2> QED  BY <1>1, <2>1
<1> HIDE DEF q
<1>6. ThreadOk(q, format[t], out[t], written[t], Append(said[t], c), called[t], num, den)
  BY <1>1, <1>3, <1>4, ThreadPuts
<1> HIDE DEF c
<1>7. text' \in Seq(Glyphs)  BY <1>1, <1>3, <1>5
<1>8. Domains' /\ Others(t) /\ place'[t] = q /\ said'[t] = Append(said[t], c)
  BY <1>1, <1>2, <1>3 DEF Domains, Others
<1>9. ThreadOk(place'[t], format'[t], out'[t], written'[t], said'[t], called'[t], num, den)
  BY <1>2, <1>6, <1>8
<1> QED  BY <1>2, <1>7, <1>8, <1>9, OneThread

LEMMA PutcharPrints ==
  ASSUME PrintInv, NEW t \in Threads, Column(t) \/ Row(t) \/ Scroll(t)
  PROVE  PrintInv'
<1>1. num' = num /\ den' = den /\ format' = format /\ written' = written
      /\ called' = called /\ said' = said /\ text' = text
  BY DEF Column, Row, Scroll, history
<1>2. Domains /\ text \in Seq(Glyphs)
      /\ ThreadOk(place[t], format[t], out[t], written[t], said[t], called[t], num, den)
  BY DEF PrintInv
<1>3. place[t] \in Middle  BY DEF Column, Row, Scroll, Goto, Middle
<1>4. \/ /\ out' = out
         /\ \E q \in Middle : place' = [place EXCEPT ![t] = q]
      \/ /\ out' = [out EXCEPT ![t] = Tail(out[t])]
         /\ place' = [place EXCEPT ![t] = "putchar"]
  BY DEF Column, Row, Scroll, Goto, Middle
<1>5. ASSUME NEW q \in Middle, out' = out, place' = [place EXCEPT ![t] = q]
      PROVE  PrintInv'
  <2>1. Domains' /\ Others(t) /\ place'[t] = q
    BY <1>1, <1>2, <1>5 DEF Domains, Others
  <2>2. ThreadOk(q, format[t], out[t], written[t], said[t], called[t], num, den)
    BY <1>2, <1>3, ThreadMoves
  <2>3. ThreadOk(place'[t], format'[t], out'[t], written'[t], said'[t], called'[t], num, den)
    BY <1>1, <1>5, <2>1, <2>2
  <2> QED  BY <1>1, <1>2, <2>1, <2>3, OneThread
<1>6. ASSUME out' = [out EXCEPT ![t] = Tail(out[t])],
             place' = [place EXCEPT ![t] = "putchar"]
      PROVE  PrintInv'
  <2>1. Domains' /\ Others(t) /\ place'[t] = "putchar" /\ out'[t] = Tail(out[t])
    BY <1>1, <1>2, <1>6 DEF Domains, Others
  <2>2. ThreadOk("putchar", format[t], Tail(out[t]), written[t], said[t], called[t], num, den)
    BY <1>2, <1>3, ThreadEndsPutchar
  <2>3. ThreadOk(place'[t], format'[t], out'[t], written'[t], said'[t], called'[t], num, den)
    BY <1>1, <2>1, <2>2
  <2> QED  BY <1>1, <1>2, <2>1, <2>3, OneThread
<1> QED  BY <1>4, <1>5, <1>6

LEMMA PrintInvStep ==
  ASSUME PrintInv, [ConsoleNext]_console
  PROVE  PrintInv'
<1>1. CASE UNCHANGED console
  BY <1>1 DEF console, history, PrintInv, Domains, Unsigned
<1>2. CASE ConsoleNext
  <2>1. PICK t \in Threads :
          \/ Printf(t) \/ Convert(t) \/ UnknownFormat(t) \/ Return(t) \/ Written(t)
          \/ PutEntry(t) \/ Column(t) \/ Row(t) \/ Scroll(t)
    BY <1>2 DEF ConsoleNext, terminal_putchar
  <2> QED
    BY <2>1, PrintfPrints, ConvertPrints, EndPrints, PutEntryPrints, PutcharPrints
<1> QED  BY <1>1, <1>2

\* The numerals are those that printf_u prints.
LEMMA DonePrints ==
  ASSUME PrintInv
  PROVE  PrintsFormat
<1> DEFINE Expected(item) ==
             CASE item = Conversion -> Numeral(num, den)
               [] item = String -> Argument
               [] OTHER -> <<item>>
<1> SUFFICES ASSUME NEW t \in Threads, place[t] = "done"
             PROVE  /\ said[t] = FlattenSeq([k \in 1..Len(called[t]) |-> Expected(called[t][k])])
                    /\ written[t] = Len(said[t])
                    /\ Conversion \in Range(called[t]) =>
                         Len(printf_u(num, den)) <= MaxNumberLength
  BY DEF PrintsFormat
<1> DEFINE c == called[t]
           n == Len(c)
<1>1. ThreadOk("done", format[t], out[t], written[t], said[t], c, num, den)
  BY DEF PrintInv
<1>2. c \in Seq(Glyphs) /\ Printing(c, num, den) /\ format[t] = <<>>  BY <1>1 DEF ThreadOk
<1>3. PICK F : Flow(F, c, num, den)
               /\ Stage("done", out[t], written[t], said[t], F[n - Len(format[t])])
  BY <1>1 DEF ThreadOk
<1>4. n - Len(format[t]) = n  BY <1>2
<1>5. said[t] = F[n] /\ written[t] = Len(F[n])  BY <1>3, <1>4 DEF Stage
<1>6. F[n] = FlattenSeq([k \in 1..n |-> Item(c[k], num, den)])  BY <1>3 DEF Flow
<1>7. Conversion \in Range(c) => /\ printf_u(num, den) = Numeral(num, den)
                                 /\ Len(printf_u(num, den)) <= MaxNumberLength
  BY <1>2, PrintsNumeral DEF Printing
<1>8. \A k \in 1..n : Item(c[k], num, den) = Expected(c[k])
  <2> SUFFICES ASSUME NEW k \in 1..n PROVE Item(c[k], num, den) = Expected(c[k])  OBVIOUS
  <2>1. c[k] \in Range(c)  BY <1>2, ItemInRange
  <2>2. c[k] = Conversion => printf_u(num, den) = Numeral(num, den)  BY <1>7, <2>1
  <2> DEFINE x == c[k]
             y == printf_u(num, den)
             z == Numeral(num, den)
  <2>3. Item(x, num, den) = CASE x = Conversion -> y [] x = String -> Argument [] OTHER -> <<x>>
    BY DEF Item
  <2>4. Expected(x) = CASE x = Conversion -> z [] x = String -> Argument [] OTHER -> <<x>>
    OBVIOUS
  <2>5. x = Conversion => y = z  BY <2>2
  <2> HIDE DEF x, y, z, Expected
  <2>6. Item(x, num, den) = Expected(x)  BY <2>3, <2>4, <2>5
  <2> QED  BY <2>6 DEF x
<1> HIDE DEF Expected
<1>9. [k \in 1..n |-> Item(c[k], num, den)] = [k \in 1..n |-> Expected(c[k])]  BY <1>8
<1> QED  BY <1>5, <1>6, <1>7, <1>9

(* printf, when it returns, has printed its format: each number as its     *)
(* numeral, however the steps of the threads interleave, and it returns    *)
(* the number of characters; the buffer of printf_u is long enough.        *)
THEOREM PrintsEveryFormat == ConsoleSpec => []PrintsFormat
<1>1. ConsoleInit => PrintInv  BY PrintInvInit
<1>2. PrintInv /\ [ConsoleNext]_console => PrintInv'  BY PrintInvStep
<1>3. PrintInv => PrintsFormat  BY DonePrints
<1> QED  BY <1>1, <1>2, <1>3, PTL DEF ConsoleSpec

-----------------------------------------------------------------------------
(* The screen.                                                             *)

\* The places on the paper.
Spots == (0..(Width - 1)) \X Nat

\* The place after c at p, and the equation of Paper for a text s.
PaperStep(p, c) ==
  IF c = Newline \/ p[1] + 1 = Width THEN <<0, p[2] + 1>> ELSE <<p[1] + 1, p[2]>>

IsPaper(f, s) ==
  f = [k \in 0..Len(s) |-> IF k = 0 THEN <<0, 0>> ELSE PaperStep(f[k - 1], s[k])]

OnPaper(s) == CHOOSE f : IsPaper(f, s)

PaperOk(P, s) ==
  /\ P \in [0..Len(s) -> Spots]
  /\ P[0] = <<0, 0>>
  /\ \A k \in 1..Len(s) : P[k] = PaperStep(P[k - 1], s[k])

\* p is before q, in the order of reading.
Before(p, q) == p[2] < q[2] \/ (p[2] = q[2] /\ p[1] < q[1])

LEMMA StepForward ==
  ASSUME NEW p \in Spots, NEW c
  PROVE  PaperStep(p, c) \in Spots /\ Before(p, PaperStep(p, c))
<1>1. Width \in Nat \ {0}  BY ConsoleAssumption
<1>2. p[1] \in 0..(Width - 1) /\ p[2] \in Nat  BY DEF Spots
<1>3. CASE c = Newline \/ p[1] + 1 = Width
  <2>1. PaperStep(p, c) = <<0, p[2] + 1>>  BY <1>3 DEF PaperStep
  <2>2. 0 \in 0..(Width - 1) /\ p[2] + 1 \in Nat /\ p[2] < p[2] + 1  BY <1>1, <1>2
  <2> QED  BY <2>1, <2>2 DEF Spots, Before
<1>4. CASE ~(c = Newline \/ p[1] + 1 = Width)
  <2>1. PaperStep(p, c) = <<p[1] + 1, p[2]>>  BY <1>4 DEF PaperStep
  <2>2. p[1] + 1 \in 0..(Width - 1) /\ p[1] < p[1] + 1  BY <1>1, <1>2, <1>4
  <2> QED  BY <1>2, <2>1, <2>2 DEF Spots, Before
<1> QED  BY <1>3, <1>4

LEMMA PaperExists ==
  ASSUME NEW s \in Seq(Glyphs)
  PROVE  \E f : IsPaper(f, s)
<1> DEFINE n == Len(s)
           V == Spots
           g == [k \in 1..n |-> [p \in V |-> PaperStep(p, s[k])]]
<1>1. n \in Nat  OBVIOUS
<1>2. \A p \in V : \A k \in 1..n : PaperStep(p, s[k]) \in V  BY StepForward
<1>3. <<0, 0>> \in V  BY ConsoleAssumption DEF Spots
<1>4. \A k \in 1..n : \A p \in V : g[k][p] = PaperStep(p, s[k])  OBVIOUS
<1> HIDE DEF V, n
<1>5. PICK f : Recursion(f, <<0, 0>>, g, n, V)
  <2>1. StepsIn(g, n, V)  BY <1>2, <1>4 DEF StepsIn
  <2> HIDE DEF g
  <2> QED  BY <1>1, <1>3, <2>1, RecursionExists
<1>6. f \in [0..n -> V] /\ f[0] = <<0, 0>> /\ \A k \in 1..n : f[k] = PaperStep(f[k - 1], s[k])
  <2> HIDE DEF g
  <2>1. \A k \in 1..n : k - 1 \in 0..n  BY <1>1
  <2> QED  BY <1>4, <1>5, <2>1 DEF Recursion
<1>7. f = [k \in 0..n |-> IF k = 0 THEN <<0, 0>> ELSE PaperStep(f[k - 1], s[k])]
  <2> DEFINE h == [k \in 0..n |-> IF k = 0 THEN <<0, 0>> ELSE PaperStep(f[k - 1], s[k])]
  <2>1. \A k \in 0..n : f[k] = h[k]
    <3>1. \A k \in 0..n : k = 0 \/ k \in 1..n  BY <1>1
    <3> QED  BY <1>6, <3>1
  <2>2. DOMAIN f = 0..n /\ f = [k \in DOMAIN f |-> f[k]]  BY <1>6
  <2> QED  BY <2>1, <2>2
<1> QED  BY <1>7 DEF IsPaper, n

LEMMA PaperIsOk ==
  ASSUME NEW s \in Seq(Glyphs)
  PROVE  PaperOk(OnPaper(s), s)
<1> DEFINE f == OnPaper(s)
           n == Len(s)
<1>1. IsPaper(f, s)  BY PaperExists DEF OnPaper
<1> HIDE DEF f
<1>2. n \in Nat  OBVIOUS
<1>3. f[0] = <<0, 0>> /\ \A k \in 1..n : f[k] = PaperStep(f[k - 1], s[k])
  <2>1. 0 \in 0..n /\ \A k \in 1..n : k \in 0..n /\ k # 0  BY <1>2
  <2> QED  BY <1>1, <2>1 DEF IsPaper
<1> DEFINE Bad == {k \in 0..n : f[k] \notin Spots}
<1>4. Bad = {}
  <2> SUFFICES ASSUME Bad # {} PROVE FALSE  OBVIOUS
  <2>1. PICK k \in Bad : \A j \in Bad : k <= j
    <3>1. Bad \in SUBSET Nat  OBVIOUS
    <3> HIDE DEF Bad
    <3> QED  BY <3>1, LeastElement
  <2>2. <<0, 0>> \in Spots  BY ConsoleAssumption DEF Spots
  <2>3. k \in 0..n /\ k # 0 /\ f[k] \notin Spots  BY <1>3, <2>2
  <2>4. k \in 1..n /\ k - 1 \in 0..n /\ ~(k <= k - 1)  BY <1>2, <2>3
  <2>5. f[k - 1] \in Spots  BY <2>1, <2>4
  <2> HIDE DEF Bad
  <2>6. f[k] = PaperStep(f[k - 1], s[k])  BY <1>3, <2>4
  <2> QED  BY <2>3, <2>5, <2>6, StepForward
<1>5. f = [k \in 0..n |-> f[k]]  BY <1>1 DEF IsPaper
<1>6. f \in [0..n -> Spots]
  <2>1. \A k \in 0..n : f[k] \in Spots  BY <1>4
  <2> HIDE DEF Bad
  <2> QED  BY <1>5, <2>1
<1>7. PaperOk(f, s)  BY <1>3, <1>6 DEF PaperOk
<1> QED  BY <1>7 DEF f

LEMMA PaperOrder ==
  ASSUME NEW s \in Seq(Glyphs), NEW P, PaperOk(P, s), NEW j \in 0..Len(s), NEW k \in 0..Len(s),
         j < k
  PROVE  Before(P[j], P[k])
<1> DEFINE n == Len(s)
           Bad == {l \in 0..n : j < l /\ ~Before(P[j], P[l])}
<1>1. n \in Nat  OBVIOUS
<1>2. P \in [0..n -> Spots] /\ \A l \in 1..n : P[l] = PaperStep(P[l - 1], s[l])  BY DEF PaperOk
<1> HIDE DEF n
<1>3. Bad = {}
  <2> SUFFICES ASSUME Bad # {} PROVE FALSE  OBVIOUS
  <2>1. PICK l \in Bad : \A i \in Bad : l <= i
    <3>1. Bad \in SUBSET Nat  BY <1>1
    <3> HIDE DEF Bad
    <3> QED  BY <3>1, LeastElement
  <2>2. l \in 0..n /\ j < l /\ ~Before(P[j], P[l])  OBVIOUS
  <2>3. l \in 1..n /\ l - 1 \in 0..n /\ ~(l <= l - 1) /\ j \in 0..n /\ (j = l - 1 \/ j < l - 1)
    BY <1>1, <2>2 DEF n
  <2>4. j < l - 1 => Before(P[j], P[l - 1])  BY <2>1, <2>3
  <2> HIDE DEF Bad
  <2> DEFINE a == P[j]
             b == P[l - 1]
             c == P[l]
  <2>5. a \in Spots /\ b \in Spots /\ c \in Spots  BY <1>2, <2>2, <2>3
  <2>6. Before(b, c)  BY <1>2, <2>3, <2>5, StepForward
  <2>7. a = b \/ Before(a, b)  BY <2>3, <2>4
  <2> HIDE DEF a, b, c
  <2>8. a[1] \in Int /\ a[2] \in Int /\ b[1] \in Int /\ b[2] \in Int /\ c[1] \in Int /\ c[2] \in Int
    BY <2>5, ConsoleAssumption DEF Spots
  <2>9. Before(a, c)  BY <2>6, <2>7, <2>8 DEF Before
  <2> QED  BY <2>2, <2>9 DEF a, c
<1> QED  BY <1>3 DEF n

\* A character more does not move the others.
LEMMA PaperGrows ==
  ASSUME NEW s \in Seq(Glyphs), NEW c \in Glyphs, NEW P, PaperOk(P, s),
         NEW Q, PaperOk(Q, Append(s, c))
  PROVE  /\ \A k \in 0..Len(s) : Q[k] = P[k]
         /\ Q[Len(s) + 1] = PaperStep(P[Len(s)], c)
<1> DEFINE n == Len(s)
           r == Append(s, c)
           Bad == {k \in 0..n : Q[k] # P[k]}
<1>1. n \in Nat /\ r \in Seq(Glyphs) /\ Len(r) = n + 1 /\ r[n + 1] = c
      /\ \A k \in 1..n : r[k] = s[k]
  OBVIOUS
<1>2. P[0] = <<0, 0>> /\ \A k \in 1..n : P[k] = PaperStep(P[k - 1], s[k])  BY DEF PaperOk
<1>3. Q[0] = <<0, 0>> /\ \A k \in 1..(n + 1) : Q[k] = PaperStep(Q[k - 1], r[k])
  <2> HIDE DEF r, n
  <2>1. PaperOk(Q, r)  BY DEF r
  <2> QED  BY <1>1, <2>1 DEF PaperOk
<1> HIDE DEF n, r
<1>4. Bad = {}
  <2> SUFFICES ASSUME Bad # {} PROVE FALSE  OBVIOUS
  <2>1. PICK k \in Bad : \A j \in Bad : k <= j
    <3>1. Bad \in SUBSET Nat  BY <1>1
    <3> HIDE DEF Bad
    <3> QED  BY <3>1, LeastElement
  <2>2. k # 0 /\ k \in 0..n /\ Q[k] # P[k]  BY <1>2, <1>3
  <2>3. k \in 1..n /\ k \in 1..(n + 1) /\ k - 1 \in 0..n /\ ~(k <= k - 1)  BY <1>1, <2>2
  <2>4. Q[k - 1] = P[k - 1]  BY <2>1, <2>3
  <2> HIDE DEF Bad
  <2> QED  BY <1>1, <1>2, <1>3, <2>2, <2>3, <2>4
<1>5. \A k \in 0..n : Q[k] = P[k]  BY <1>4
<1>6. Q[n + 1] = PaperStep(P[n], c)
  <2>1. n + 1 \in 1..(n + 1) /\ (n + 1) - 1 = n /\ n \in 0..n  BY <1>1
  <2>2. Q[n + 1] = PaperStep(Q[(n + 1) - 1], r[n + 1])  BY <1>3, <2>1
  <2> QED  BY <1>1, <1>5, <2>1, <2>2
<1> QED  BY <1>5, <1>6 DEF n

\* The characters of s whose place on the paper P is <<a, y>>.
Here(s, P, a, y) == {k \in 1..Len(s) : s[k] # Newline /\ P[k - 1] = <<a, y>>}

\* v is what a cell that stands for <<a, y>> shows.
CellOk(v, s, P, a, y) ==
  IF Here(s, P, a, y) = {} THEN v = " " ELSE \E k \in Here(s, P, a, y) : v = s[k]

\* The screen shows the lines of s from top on.
Visible(buf, s, top) ==
  \A a \in 0..(Width - 1), b \in 0..(Height - 1) :
    CellOk(buf[<<a, b>>], s, OnPaper(s), a, b + top)

\* Line y of the paper is line row of a screen that begins at top, and the
\* screen is full before it scrolls.
OnLine(row, y, top) ==
  /\ top \in Nat /\ row \in 0..(Height - 1)
  /\ y = row + top
  /\ top # 0 => row = Height - 1

(* What the cursor and the screen are between two calls of                 *)
(* terminal_putchar, and at each place in it.                              *)
Resting(s, x, row, buf) ==
  LET p == OnPaper(s)[Len(s)]
  IN x = p[1] /\ \E top : OnLine(row, p[2], top) /\ Visible(buf, s, top)

AtColumn(s, x, row, buf) ==
  LET p == OnPaper(s)[Len(s) - 1]
  IN /\ Len(s) # 0 /\ s[Len(s)] # Newline
     /\ x = p[1] /\ \E top : OnLine(row, p[2], top) /\ Visible(buf, s, top)

AtRow(s, row, buf) ==
  LET p == OnPaper(s)[Len(s) - 1]
  IN /\ Len(s) # 0 /\ OnPaper(s)[Len(s)] = <<0, p[2] + 1>>
     /\ \E top : OnLine(row, p[2], top) /\ Visible(buf, s, top)

AtScroll(s, x, row, buf) ==
  /\ x = 0 /\ row = Height
  /\ \E top \in Nat : OnPaper(s)[Len(s)] = <<0, Height + top>> /\ Visible(buf, s, top)

\* One character more changes the cell it falls on and no other.
LEMMA CellGrows ==
  ASSUME NEW s \in Seq(Glyphs), NEW c \in Glyphs, NEW P, PaperOk(P, s),
         NEW Q, PaperOk(Q, Append(s, c)), NEW v, NEW a, NEW y, CellOk(v, s, P, a, y)
  PROVE  /\ c = Newline \/ P[Len(s)] # <<a, y>> => CellOk(v, Append(s, c), Q, a, y)
         /\ c # Newline /\ P[Len(s)] = <<a, y>> => CellOk(c, Append(s, c), Q, a, y)
<1> DEFINE n == Len(s)
           r == Append(s, c)
           A == Here(s, P, a, y)
           B == Here(r, Q, a, y)
<1>1. n \in Nat /\ r \in Seq(Glyphs) /\ Len(r) = n + 1 /\ r[n + 1] = c
      /\ \A k \in 1..n : r[k] = s[k]
  OBVIOUS
<1>2. \A k \in 0..n : Q[k] = P[k]  BY PaperGrows
<1> HIDE DEF r, n
<1>3. \A k \in 1..n : k \in A <=> k \in B
  <2> SUFFICES ASSUME NEW k \in 1..n PROVE k \in A <=> k \in B  OBVIOUS
  <2>1. k - 1 \in 0..n /\ k \in 1..(n + 1)  BY <1>1
  <2>2. Q[k - 1] = P[k - 1] /\ r[k] = s[k]  BY <1>1, <1>2, <2>1
  <2> QED  BY <1>1, <2>1, <2>2 DEF Here, n
<1>4. n + 1 \in B <=> c # Newline /\ P[n] = <<a, y>>
  <2>1. n + 1 \in 1..(n + 1) /\ (n + 1) - 1 = n /\ n \in 0..n  BY <1>1
  <2>2. Q[n] = P[n]  BY <1>2, <2>1
  <2> QED  BY <1>1, <2>1, <2>2 DEF Here
<1>5. A \subseteq 1..n /\ \A k \in B : k \in 1..n \/ k = n + 1
  <2>1. \A k \in 1..(n + 1) : k \in 1..n \/ k = n + 1  BY <1>1
  <2> QED  BY <1>1, <2>1 DEF Here, n
<1>6. ASSUME c = Newline \/ P[n] # <<a, y>> PROVE CellOk(v, r, Q, a, y)
  <2>1. A = B  BY <1>3, <1>4, <1>5, <1>6
  <2>2. \A k \in A : r[k] = s[k]  BY <1>1, <1>5
  <2>3. IF A = {} THEN v = " " ELSE \E k \in A : v = s[k]  BY DEF CellOk
  <2> HIDE DEF A, B
  <2>4. IF B = {} THEN v = " " ELSE \E k \in B : v = r[k]  BY <2>1, <2>2, <2>3
  <2> QED  BY <2>4 DEF CellOk, B
<1>7. ASSUME c # Newline, P[n] = <<a, y>> PROVE CellOk(c, r, Q, a, y)
  <2>1. n + 1 \in B /\ c = r[n + 1]  BY <1>1, <1>4, <1>7
  <2> HIDE DEF B
  <2>2. B # {} /\ \E k \in B : c = r[k]  BY <2>1
  <2> QED  BY <2>2 DEF CellOk, B
<1> QED  BY <1>6, <1>7 DEF n, r

\* One lemma for each step of terminal_putchar.
LEMMA PutShows ==
  ASSUME NEW s \in Seq(Glyphs), NEW c \in Glyphs, NEW x, NEW row, NEW buf, DOMAIN buf = Cells,
         Resting(s, x, row, buf)
  PROVE  /\ c # Newline => AtColumn(Append(s, c), x, row, [buf EXCEPT ![<<x, row>>] = c])
         /\ c = Newline => AtRow(Append(s, c), row, buf)
<1> DEFINE n == Len(s)
           r == Append(s, c)
           P == OnPaper(s)
           Q == OnPaper(r)
<1>0. Width \in Nat \ {0} /\ Height \in Nat \ {0}  BY ConsoleAssumption
<1>1. n \in Nat /\ r \in Seq(Glyphs) /\ Len(r) = n + 1 /\ r[n + 1] = c  OBVIOUS
<1>2. PaperOk(P, s)  BY PaperIsOk
<1>3. PaperOk(Q, r)
  <2> HIDE DEF r
  <2> QED  BY <1>1, PaperIsOk
<1>4. PICK top : OnLine(row, P[n][2], top) /\ Visible(buf, s, top)  BY DEF Resting
<1>5. x = P[n][1]  BY DEF Resting
<1>6. P[n] \in Spots
  <2>1. n \in 0..n  BY <1>1
  <2> QED  BY <1>2, <2>1 DEF PaperOk
<1>7. x \in 0..(Width - 1) /\ row \in 0..(Height - 1) /\ P[n] = <<x, row + top>> /\ top \in Nat
  <2>1. P[n][1] \in 0..(Width - 1) /\ P[n] = <<P[n][1], P[n][2]>>  BY <1>6 DEF Spots
  <2> QED  BY <1>4, <1>5, <2>1 DEF OnLine
<1>8. Q[n] = P[n] /\ Q[n + 1] = PaperStep(P[n], c)
  <2>1. n \in 0..n  BY <1>1
  <2> QED  BY <1>2, <1>3, <2>1, PaperGrows
<1>9. ASSUME NEW a \in 0..(Width - 1), NEW b \in 0..(Height - 1)
      PROVE  /\ c = Newline \/ <<a, b>> # <<x, row>> =>
                  CellOk(buf[<<a, b>>], r, Q, a, b + top)
             /\ c # Newline /\ <<a, b>> = <<x, row>> => CellOk(c, r, Q, a, b + top)
  <2>1. CellOk(buf[<<a, b>>], s, P, a, b + top)  BY <1>4 DEF Visible
  <2>2. P[n] = <<a, b + top>> <=> <<a, b>> = <<x, row>>
    <3>1. row + top = b + top <=> row = b  BY <1>7
    <3> HIDE DEF P
    <3> QED  BY <1>7, <3>1
  <2> DEFINE y == b + top
             v == buf[<<a, b>>]
  <2>3. /\ c = Newline \/ P[n] # <<a, y>> => CellOk(v, r, Q, a, y)
        /\ c # Newline /\ P[n] = <<a, y>> => CellOk(c, r, Q, a, y)
    <3>1. CellOk(v, s, P, a, y)  BY <2>1
    <3> HIDE DEF y, v, P, Q
    <3> QED  BY <1>2, <1>3, <3>1, CellGrows
  <2> QED  BY <2>2, <2>3
<1> HIDE DEF P, Q, n, r
<1>10. (n + 1) - 1 = n /\ n + 1 # 0  BY <1>1
<1>11. ASSUME c # Newline PROVE AtColumn(r, x, row, [buf EXCEPT ![<<x, row>>] = c])
  <2> DEFINE new == [buf EXCEPT ![<<x, row>>] = c]
  <2>1. Visible(new, r, top)
    <3> SUFFICES ASSUME NEW a \in 0..(Width - 1), NEW b \in 0..(Height - 1)
                 PROVE  CellOk(new[<<a, b>>], r, Q, a, b + top)
      BY DEF Visible, Q
    <3>1. <<a, b>> \in Cells  BY DEF Cells
    <3>2. new[<<a, b>>] = IF <<a, b>> = <<x, row>> THEN c ELSE buf[<<a, b>>]  BY <3>1
    <3> HIDE DEF new
    <3>3. CASE <<a, b>> = <<x, row>>
      <4>1. new[<<a, b>>] = c  BY <3>2, <3>3
      <4>2. CellOk(c, r, Q, a, b + top)  BY <1>9, <1>11, <3>3
      <4> QED  BY <4>1, <4>2
    <3>4. CASE <<a, b>> # <<x, row>>
      <4>1. new[<<a, b>>] = buf[<<a, b>>]  BY <3>2, <3>4
      <4>2. CellOk(buf[<<a, b>>], r, Q, a, b + top)  BY <1>9, <3>4
      <4> QED  BY <4>1, <4>2
    <3> QED  BY <3>3, <3>4
  <2>2. OnPaper(r)[Len(r) - 1] = P[n] /\ Len(r) # 0 /\ r[Len(r)] = c
    BY <1>1, <1>8, <1>10 DEF Q
  <2> HIDE DEF new
  <2>3. AtColumn(r, x, row, new)  BY <1>4, <1>5, <1>11, <2>1, <2>2 DEF AtColumn
  <2> QED  BY <2>3 DEF new
<1>12. ASSUME c = Newline PROVE AtRow(r, row, buf)
  <2>1. Visible(buf, r, top)  BY <1>9, <1>12 DEF Visible, Q
  <2>2. OnPaper(r)[Len(r) - 1] = P[n] /\ Len(r) # 0  BY <1>1, <1>8, <1>10 DEF Q
  <2>3. OnPaper(r)[Len(r)] = <<0, P[n][2] + 1>>  BY <1>1, <1>8, <1>12 DEF Q, PaperStep
  <2> QED  BY <1>4, <2>1, <2>2, <2>3 DEF AtRow
<1> QED  BY <1>11, <1>12 DEF r

LEMMA ColumnShows ==
  ASSUME NEW s \in Seq(Glyphs), NEW x, NEW row, NEW buf, AtColumn(s, x, row, buf)
  PROVE  /\ x + 1 = Width => AtRow(s, row, buf)
         /\ x + 1 # Width => Resting(s, x + 1, row, buf)
<1> DEFINE n == Len(s)
           P == OnPaper(s)
           p == P[n - 1]
<1>1. PaperOk(P, s)  BY PaperIsOk
<1>2. n # 0 /\ s[n] # Newline /\ x = p[1]  BY DEF AtColumn
<1>3. PICK top : OnLine(row, p[2], top) /\ Visible(buf, s, top)  BY DEF AtColumn
<1>4. P[n] = PaperStep(p, s[n])
  <2>1. n \in 1..n  BY <1>2
  <2> QED  BY <1>1, <2>1 DEF PaperOk
<1> HIDE DEF p
<1>5. ASSUME x + 1 = Width PROVE AtRow(s, row, buf)
  <2>1. P[n] = <<0, p[2] + 1>>  BY <1>2, <1>4, <1>5 DEF PaperStep
  <2> QED  BY <1>2, <1>3, <2>1 DEF AtRow, p
<1>6. ASSUME x + 1 # Width PROVE Resting(s, x + 1, row, buf)
  <2>1. P[n] = <<x + 1, p[2]>>  BY <1>2, <1>4, <1>6 DEF PaperStep
  <2>2. P[n][1] = x + 1 /\ P[n][2] = p[2]  BY <2>1
  <2> QED  BY <1>3, <2>2 DEF Resting
<1> QED  BY <1>5, <1>6

LEMMA RowShows ==
  ASSUME NEW s \in Seq(Glyphs), NEW row, NEW buf, AtRow(s, row, buf)
  PROVE  /\ row + 1 = Height => AtScroll(s, 0, row + 1, buf)
         /\ row + 1 # Height => Resting(s, 0, row + 1, buf)
<1> DEFINE n == Len(s)
           P == OnPaper(s)
           p == P[n - 1]
<1>0. Height \in Nat \ {0}  BY ConsoleAssumption
<1>1. P[n] = <<0, p[2] + 1>>  BY DEF AtRow
<1>2. PICK top : OnLine(row, p[2], top) /\ Visible(buf, s, top)  BY DEF AtRow
<1>3. top \in Nat /\ row \in 0..(Height - 1) /\ p[2] = row + top /\ (top # 0 => row = Height - 1)
  BY <1>2 DEF OnLine
<1> HIDE DEF p
<1>4. P[n] = <<0, (row + 1) + top>>
  <2>1. p[2] + 1 = (row + 1) + top  BY <1>0, <1>3
  <2> QED  BY <1>1, <2>1
<1>5. ASSUME row + 1 = Height PROVE AtScroll(s, 0, row + 1, buf)
  BY <1>2, <1>3, <1>4, <1>5 DEF AtScroll
<1>6. ASSUME row + 1 # Height PROVE Resting(s, 0, row + 1, buf)
  <2>1. row + 1 \in 0..(Height - 1) /\ top = 0  BY <1>0, <1>3, <1>6
  <2>2. P[n][1] = 0 /\ P[n][2] = (row + 1) + top  BY <1>4
  <2>3. OnLine(row + 1, P[n][2], top)  BY <1>3, <2>1, <2>2 DEF OnLine
  <2> QED  BY <1>2, <2>2, <2>3 DEF Resting
<1> QED  BY <1>5, <1>6

\* The lines have moved up by one, and the last line is blank.
MovedUp(new, buf) ==
  \A a \in 0..(Width - 1), b \in 0..(Height - 1) :
    new[<<a, b>>] = IF b = Height - 1 THEN " " ELSE buf[<<a, b + 1>>]

\* Nothing is on the line of the cursor when it is at its begin.
LEMMA ScrollShows ==
  ASSUME NEW s \in Seq(Glyphs), NEW x, NEW row, NEW buf, AtScroll(s, x, row, buf), NEW new,
         MovedUp(new, buf)
  PROVE  Resting(s, x, Height - 1, new)
<1> DEFINE n == Len(s)
           P == OnPaper(s)
<1>0. Width \in Nat \ {0} /\ Height \in Nat \ {0} /\ n \in Nat  BY ConsoleAssumption
<1>1. PaperOk(P, s)  BY PaperIsOk
<1>2. PICK top \in Nat : P[n] = <<0, Height + top>> /\ Visible(buf, s, top)  BY DEF AtScroll
<1>3. ASSUME NEW a \in 0..(Width - 1) PROVE Here(s, P, a, Height + top) = {}
  <2> SUFFICES ASSUME NEW k \in Here(s, P, a, Height + top) PROVE FALSE  OBVIOUS
  <2>1. k \in 1..n /\ P[k - 1] = <<a, Height + top>>  BY DEF Here
  <2>2. k - 1 \in 0..n /\ n \in 0..n /\ k - 1 < n  BY <1>0, <2>1
  <2>3. Before(P[k - 1], P[n])
    <3> HIDE DEF P
    <3> DEFINE j == k - 1
    <3>1. j \in 0..n /\ n \in 0..n /\ j < n  BY <2>2
    <3> HIDE DEF j
    <3>2. Before(P[j], P[n])  BY <1>1, <3>1, PaperOrder
    <3> QED  BY <3>2 DEF j
  <2> HIDE DEF P
  <2> DEFINE y == Height + top
  <2>4. y \in Int /\ a \in Int /\ ~(y < y) /\ ~(a < 0)  BY <1>0, <1>2
  <2>5. P[k - 1][1] = a /\ P[k - 1][2] = y /\ P[n][1] = 0 /\ P[n][2] = y  BY <1>2, <2>1
  <2> HIDE DEF y
  <2> QED  BY <2>3, <2>4, <2>5 DEF Before
<1>4. Visible(new, s, top + 1)
  <2> SUFFICES ASSUME NEW a \in 0..(Width - 1), NEW b \in 0..(Height - 1)
               PROVE  CellOk(new[<<a, b>>], s, P, a, b + (top + 1))
    BY DEF Visible
  <2>1. CASE b = Height - 1
    <3>0. new[<<a, b>>] = " "  BY <2>1 DEF MovedUp
    <3>1. b + (top + 1) = Height + top  BY <1>0, <1>2, <2>1
    <3>2. Here(s, P, a, b + (top + 1)) = {}  BY <1>3, <3>1
    <3> HIDE DEF P
    <3> QED  BY <3>0, <3>2 DEF CellOk
  <2>2. CASE b # Height - 1
    <3>1. b + 1 \in 0..(Height - 1) /\ (b + 1) + top = b + (top + 1)  BY <1>0, <1>2, <2>2
    <3>2. CellOk(buf[<<a, b + 1>>], s, P, a, (b + 1) + top)
      <4> DEFINE d == b + 1
      <4>1. d \in 0..(Height - 1)  BY <3>1
      <4> HIDE DEF d
      <4>2. CellOk(buf[<<a, d>>], s, P, a, d + top)  BY <1>2, <4>1 DEF Visible
      <4> QED  BY <4>2 DEF d
    <3>3. new[<<a, b>>] = buf[<<a, b + 1>>]  BY <2>2 DEF MovedUp
    <3> QED  BY <3>1, <3>2, <3>3
  <2> QED  BY <2>1, <2>2
<1>5. P[n][1] = 0 /\ P[n][2] = Height + top  BY <1>2
<1> HIDE DEF P
<1>6. OnLine(Height - 1, P[n][2], top + 1)  BY <1>0, <1>2, <1>5 DEF OnLine
<1>7. x = 0  BY DEF AtScroll
<1> QED  BY <1>4, <1>5, <1>6, <1>7 DEF Resting, P

\* One thread at most is in terminal_putchar, and the screen is as its place says.
ScreenOk(pl, x, row, buf, s) ==
  /\ \A t, u \in Threads : pl[t] \in Middle /\ pl[u] \in Middle => t = u
  /\ (\A t \in Threads : pl[t] \notin Middle) => Resting(s, x, row, buf)
  /\ \A t \in Threads :
       /\ pl[t] = "column" => AtColumn(s, x, row, buf)
       /\ pl[t] = "row" => AtRow(s, row, buf)
       /\ pl[t] = "scroll" => AtScroll(s, x, row, buf)

\* The inductive invariant of the screen.
ScreenInv ==
  /\ DOMAIN terminal_buffer = Cells
  /\ ~overlapped => ScreenOk(place, terminal_column, terminal_row, terminal_buffer, text)

LEMMA OneInPutchar ==
  ASSUME NEW t \in Threads, NEW pl, NEW x, NEW row, NEW buf, NEW s, pl[t] \in Middle,
         \A u \in Threads \ {t} : pl[u] \notin Middle,
         pl[t] = "column" => AtColumn(s, x, row, buf),
         pl[t] = "row" => AtRow(s, row, buf),
         pl[t] = "scroll" => AtScroll(s, x, row, buf)
  PROVE  ScreenOk(pl, x, row, buf, s)
<1>1. \A u \in Threads : pl[u] \in Middle => u = t  OBVIOUS
<1>2. ASSUME NEW u \in Threads
      PROVE  /\ pl[u] = "column" => AtColumn(s, x, row, buf)
             /\ pl[u] = "row" => AtRow(s, row, buf)
             /\ pl[u] = "scroll" => AtScroll(s, x, row, buf)
  <2>1. pl[u] \in {"column", "row", "scroll"} => u = t  BY <1>1 DEF Middle
  <2> QED  BY <2>1
<1> QED  BY <1>1, <1>2 DEF ScreenOk

LEMMA NoneInPutchar ==
  ASSUME NEW pl, NEW x, NEW row, NEW buf, NEW s, \A u \in Threads : pl[u] \notin Middle,
         Resting(s, x, row, buf)
  PROVE  ScreenOk(pl, x, row, buf, s)
<1>1. \A u \in Threads : pl[u] # "column" /\ pl[u] # "row" /\ pl[u] # "scroll"
  BY DEF Middle
<1> QED  BY <1>1 DEF ScreenOk

LEMMA ScreenInvInit ==
  ASSUME ConsoleInit
  PROVE  ScreenInv
<1>1. text = <<>> /\ terminal_column = 0 /\ terminal_row = 0  BY DEF ConsoleInit
<1>2. terminal_buffer = [cell \in Cells |-> " "]  BY DEF ConsoleInit
<1>3. \A u \in Threads : place[u] \notin Middle  BY DEF ConsoleInit, Middle
<1>4. DOMAIN terminal_buffer = Cells  BY <1>2
<1>5. <<>> \in Seq(Glyphs) /\ Len(<<>>) = 0 /\ 1..0 = {}  OBVIOUS
<1>6. PaperOk(OnPaper(<<>>), <<>>)  BY <1>5, PaperIsOk
<1>7. OnPaper(<<>>)[0] = <<0, 0>>  BY <1>6 DEF PaperOk
<1>8. Visible(terminal_buffer, <<>>, 0)
  <2> SUFFICES ASSUME NEW a \in 0..(Width - 1), NEW b \in 0..(Height - 1)
               PROVE  CellOk(terminal_buffer[<<a, b>>], <<>>, OnPaper(<<>>), a, b + 0)
    BY DEF Visible
  <2>1. <<a, b>> \in Cells  BY DEF Cells
  <2>2. terminal_buffer[<<a, b>>] = " "  BY <1>2, <2>1
  <2>3. Here(<<>>, OnPaper(<<>>), a, b + 0) = {}  BY <1>5 DEF Here
  <2> QED  BY <2>2, <2>3 DEF CellOk
<1>9. OnLine(0, 0, 0)  BY ConsoleAssumption DEF OnLine
<1>10. Resting(<<>>, 0, 0, terminal_buffer)
  <2>1. <<0, 0>>[1] = 0 /\ <<0, 0>>[2] = 0  OBVIOUS
  <2> QED  BY <1>5, <1>7, <1>8, <1>9, <2>1 DEF Resting
<1>11. ScreenOk(place, terminal_column, terminal_row, terminal_buffer, text)
  BY <1>1, <1>3, <1>10, NoneInPutchar
<1> QED  BY <1>4, <1>11 DEF ScreenInv

\* The steps of printf itself do not touch the terminal.
LEMMA QuietShows ==
  ASSUME ScreenInv, text' = text, overlapped' = overlapped, terminal' = terminal,
         \A u \in Threads : \/ place'[u] = place[u]
                            \/ place'[u] \notin Middle /\ place[u] \notin Middle
  PROVE  ScreenInv'
<1>1. terminal_row' = terminal_row /\ terminal_column' = terminal_column
      /\ terminal_buffer' = terminal_buffer
  BY DEF terminal
<1>2. DOMAIN terminal_buffer' = Cells  BY <1>1 DEF ScreenInv
<1>3. ASSUME ~overlapped'
      PROVE  ScreenOk(place', terminal_column', terminal_row', terminal_buffer', text')
  <2>1. ScreenOk(place, terminal_column, terminal_row, terminal_buffer, text)
    BY <1>3 DEF ScreenInv
  <2>2. \A u \in Threads : place'[u] \in Middle <=> place[u] \in Middle  OBVIOUS
  <2>3. \A u \in Threads : place'[u] \in Middle => place'[u] = place[u]  OBVIOUS
  <2>4. \A t, u \in Threads : place'[t] \in Middle /\ place'[u] \in Middle => t = u
    BY <2>1, <2>2 DEF ScreenOk
  <2>5. (\A t \in Threads : place'[t] \notin Middle) =>
          Resting(text, terminal_column, terminal_row, terminal_buffer)
    BY <2>1, <2>2 DEF ScreenOk
  <2>6. ASSUME NEW t \in Threads
        PROVE  /\ place'[t] = "column" =>
                    AtColumn(text, terminal_column, terminal_row, terminal_buffer)
               /\ place'[t] = "row" => AtRow(text, terminal_row, terminal_buffer)
               /\ place'[t] = "scroll" =>
                    AtScroll(text, terminal_column, terminal_row, terminal_buffer)
    <3>1. place'[t] \in {"column", "row", "scroll"} => place'[t] = place[t]
      BY <2>3 DEF Middle
    <3> QED  BY <2>1, <3>1 DEF ScreenOk
  <2>7. ScreenOk(place', terminal_column, terminal_row, terminal_buffer, text)
    BY <2>4, <2>5, <2>6 DEF ScreenOk
  <2> QED  BY <1>1, <2>7
<1> QED  BY <1>2, <1>3 DEF ScreenInv, Cells

LEMMA PutEntryShows ==
  ASSUME PrintInv, ScreenInv, NEW t \in Threads, PutEntry(t)
  PROVE  ScreenInv'
<1> DEFINE c == Head(out[t])
           q == IF c = Newline THEN "row" ELSE "column"
           cell == <<terminal_column, terminal_row>>
<1>1. out[t] # <<>> /\ place' = [place EXCEPT ![t] = q] /\ text' = Append(text, c)
  BY DEF PutEntry, Goto
<1>2. terminal_buffer' = IF c = Newline THEN terminal_buffer
                         ELSE [terminal_buffer EXCEPT ![cell] = c]
  BY DEF PutEntry
<1>3. terminal_row' = terminal_row /\ terminal_column' = terminal_column  BY DEF PutEntry
<1>4. overlapped' = (overlapped \/ \E u \in Threads : InPutchar(u))  BY DEF PutEntry
<1>5. text \in Seq(Glyphs) /\ DOMAIN place = Threads /\ DOMAIN terminal_buffer = Cells
  BY DEF PrintInv, Domains, ScreenInv
<1>6. c \in Glyphs
  <2>1. out[t] \in Seq(Glyphs)  BY DEF PrintInv, ThreadOk
  <2> QED  BY <1>1, <2>1
<1>7. DOMAIN terminal_buffer' = Cells  BY <1>2, <1>5
<1>8. ASSUME ~overlapped'
      PROVE  ScreenOk(place', terminal_column', terminal_row', terminal_buffer', text')
  <2>1. ~overlapped /\ \A u \in Threads : ~InPutchar(u)  BY <1>4, <1>8
  <2>2. \A u \in Threads : place[u] \notin Middle  BY <2>1 DEF InPutchar, Middle
  <2>3. ScreenOk(place, terminal_column, terminal_row, terminal_buffer, text)
    BY <2>1 DEF ScreenInv
  <2>4. Resting(text, terminal_column, terminal_row, terminal_buffer)
    BY <2>2, <2>3 DEF ScreenOk
  <2> HIDE DEF c
  <2>5. /\ c # Newline => AtColumn(Append(text, c), terminal_column, terminal_row,
                                   [terminal_buffer EXCEPT ![cell] = c])
        /\ c = Newline => AtRow(Append(text, c), terminal_row, terminal_buffer)
    BY <1>5, <1>6, <2>4, PutShows
  <2>6. \A u \in Threads \ {t} : place'[u] \notin Middle  BY <1>1, <1>5, <2>2
  <2>7. place'[t] = q /\ q \in Middle  BY <1>1, <1>5 DEF Middle
  <2>8. CASE c = Newline
    <3>1. place'[t] = "row" /\ terminal_buffer' = terminal_buffer  BY <1>2, <2>7, <2>8
    <3>2. AtRow(text', terminal_row', terminal_buffer')  BY <1>1, <1>3, <2>5, <2>8, <3>1
    <3>3. place'[t] # "column" /\ place'[t] # "scroll" /\ place'[t] \in Middle
      BY <2>7, <3>1
    <3> QED  BY <2>6, <3>2, <3>3, OneInPutchar
  <2>9. CASE c # Newline
    <3>1. place'[t] = "column" /\ terminal_buffer' = [terminal_buffer EXCEPT ![cell] = c]
      BY <1>2, <2>7, <2>9
    <3>2. AtColumn(text', terminal_column', terminal_row', terminal_buffer')
      BY <1>1, <1>3, <2>5, <2>9, <3>1
    <3>3. place'[t] # "row" /\ place'[t] # "scroll" /\ place'[t] \in Middle
      BY <2>7, <3>1
    <3> QED  BY <2>6, <3>2, <3>3, OneInPutchar
  <2> QED  BY <2>8, <2>9
<1> QED  BY <1>7, <1>8 DEF ScreenInv, Cells

LEMMA ColumnMoves ==
  ASSUME PrintInv, ScreenInv, NEW t \in Threads, Column(t)
  PROVE  ScreenInv'
<1> DEFINE x == terminal_column + 1
           q == IF x = Width THEN "row" ELSE "putchar"
<1>1. place[t] = "column" /\ place' = [place EXCEPT ![t] = q] /\ terminal_column' = x
  BY DEF Column, Goto
<1>2. terminal_row' = terminal_row /\ terminal_buffer' = terminal_buffer /\ text' = text
      /\ overlapped' = overlapped
  BY DEF Column, history
<1>3. text \in Seq(Glyphs) /\ DOMAIN place = Threads /\ DOMAIN terminal_buffer = Cells
  BY DEF PrintInv, Domains, ScreenInv
<1>4. DOMAIN terminal_buffer' = Cells  BY <1>2, <1>3
<1>5. ASSUME ~overlapped'
      PROVE  ScreenOk(place', terminal_column', terminal_row', terminal_buffer', text')
  <2>1. ScreenOk(place, terminal_column, terminal_row, terminal_buffer, text)
    BY <1>2, <1>5 DEF ScreenInv
  <2>2. AtColumn(text, terminal_column, terminal_row, terminal_buffer)
    BY <1>1, <2>1 DEF ScreenOk
  <2>3. /\ x = Width => AtRow(text, terminal_row, terminal_buffer)
        /\ x # Width => Resting(text, x, terminal_row, terminal_buffer)
    BY <1>3, <2>2, ColumnShows
  <2>4. place[t] \in Middle  BY <1>1 DEF Middle
  <2>5. \A u \in Threads \ {t} : place[u] \notin Middle  BY <2>1, <2>4 DEF ScreenOk
  <2> HIDE DEF x
  <2>6. \A u \in Threads \ {t} : place'[u] \notin Middle  BY <1>1, <1>3, <2>5
  <2>7. place'[t] = q  BY <1>1, <1>3
  <2>8. CASE x = Width
    <3>1. place'[t] = "row" /\ place'[t] \in Middle  BY <2>7, <2>8 DEF Middle
    <3>2. AtRow(text', terminal_row', terminal_buffer')  BY <1>2, <2>3, <2>8
    <3> QED  BY <2>6, <3>1, <3>2, OneInPutchar
  <2>9. CASE x # Width
    <3>1. place'[t] = "putchar" /\ place'[t] \notin Middle  BY <2>7, <2>9 DEF Middle
    <3>2. \A u \in Threads : place'[u] \notin Middle  BY <2>6, <3>1
    <3>3. Resting(text', terminal_column', terminal_row', terminal_buffer')
      BY <1>1, <1>2, <2>3, <2>9
    <3> QED  BY <3>2, <3>3, NoneInPutchar
  <2> QED  BY <2>8, <2>9
<1> QED  BY <1>4, <1>5 DEF ScreenInv, Cells

LEMMA RowMoves ==
  ASSUME PrintInv, ScreenInv, NEW t \in Threads, Row(t)
  PROVE  ScreenInv'
<1> DEFINE y == terminal_row + 1
           q == IF y = Height THEN "scroll" ELSE "putchar"
<1>1. place[t] = "row" /\ place' = [place EXCEPT ![t] = q] /\ terminal_row' = y
      /\ terminal_column' = 0
  BY DEF Row, Goto
<1>2. terminal_buffer' = terminal_buffer /\ text' = text /\ overlapped' = overlapped
  BY DEF Row, history
<1>3. text \in Seq(Glyphs) /\ DOMAIN place = Threads /\ DOMAIN terminal_buffer = Cells
  BY DEF PrintInv, Domains, ScreenInv
<1>4. DOMAIN terminal_buffer' = Cells  BY <1>2, <1>3
<1>5. ASSUME ~overlapped'
      PROVE  ScreenOk(place', terminal_column', terminal_row', terminal_buffer', text')
  <2>1. ScreenOk(place, terminal_column, terminal_row, terminal_buffer, text)
    BY <1>2, <1>5 DEF ScreenInv
  <2>2. AtRow(text, terminal_row, terminal_buffer)
    BY <1>1, <2>1 DEF ScreenOk
  <2>3. /\ y = Height => AtScroll(text, 0, y, terminal_buffer)
        /\ y # Height => Resting(text, 0, y, terminal_buffer)
    BY <1>3, <2>2, RowShows
  <2>4. place[t] \in Middle  BY <1>1 DEF Middle
  <2>5. \A u \in Threads \ {t} : place[u] \notin Middle  BY <2>1, <2>4 DEF ScreenOk
  <2> HIDE DEF y
  <2>6. \A u \in Threads \ {t} : place'[u] \notin Middle  BY <1>1, <1>3, <2>5
  <2>7. place'[t] = q  BY <1>1, <1>3
  <2>8. CASE y = Height
    <3>1. place'[t] = "scroll" /\ place'[t] \in Middle  BY <2>7, <2>8 DEF Middle
    <3>2. AtScroll(text', terminal_column', terminal_row', terminal_buffer')
      BY <1>1, <1>2, <2>3, <2>8
    <3> QED  BY <2>6, <3>1, <3>2, OneInPutchar
  <2>9. CASE y # Height
    <3>1. place'[t] = "putchar" /\ place'[t] \notin Middle  BY <2>7, <2>9 DEF Middle
    <3>2. \A u \in Threads : place'[u] \notin Middle  BY <2>6, <3>1
    <3>3. Resting(text', terminal_column', terminal_row', terminal_buffer')
      BY <1>1, <1>2, <2>3, <2>9
    <3> QED  BY <3>2, <3>3, NoneInPutchar
  <2> QED  BY <2>8, <2>9
<1> QED  BY <1>4, <1>5 DEF ScreenInv, Cells

LEMMA ScrollMoves ==
  ASSUME PrintInv, ScreenInv, NEW t \in Threads, Scroll(t)
  PROVE  ScreenInv'
<1>1. place[t] = "scroll" /\ place' = [place EXCEPT ![t] = "putchar"]
      /\ terminal_row' = Height - 1 /\ terminal_buffer' = Scrolled
  BY DEF Scroll, Goto
<1>2. terminal_column' = terminal_column /\ text' = text /\ overlapped' = overlapped
  BY DEF Scroll, history
<1>3. text \in Seq(Glyphs) /\ DOMAIN place = Threads  BY DEF PrintInv, Domains
<1>4. DOMAIN Scrolled = Cells  BY DEF Scrolled
<1>5. MovedUp(Scrolled, terminal_buffer)
  <2> SUFFICES ASSUME NEW a \in 0..(Width - 1), NEW b \in 0..(Height - 1)
               PROVE  Scrolled[<<a, b>>] =
                        IF b = Height - 1 THEN " " ELSE terminal_buffer[<<a, b + 1>>]
    BY DEF MovedUp
  <2>1. <<a, b>> \in Cells  BY DEF Cells
  <2> QED  BY <2>1 DEF Scrolled
<1>6. ASSUME ~overlapped'
      PROVE  ScreenOk(place', terminal_column', terminal_row', terminal_buffer', text')
  <2>1. ScreenOk(place, terminal_column, terminal_row, terminal_buffer, text)
    BY <1>2, <1>6 DEF ScreenInv
  <2>2. AtScroll(text, terminal_column, terminal_row, terminal_buffer)
    BY <1>1, <2>1 DEF ScreenOk
  <2>3. Resting(text, terminal_column, Height - 1, Scrolled)
    BY <1>3, <1>5, <2>2, ScrollShows
  <2>4. place[t] \in Middle  BY <1>1 DEF Middle
  <2>5. \A u \in Threads \ {t} : place[u] \notin Middle  BY <2>1, <2>4 DEF ScreenOk
  <2>6. place'[t] = "putchar"  BY <1>1, <1>3
  <2>7. \A u \in Threads : place'[u] \notin Middle
    <3>1. \A u \in Threads \ {t} : place'[u] \notin Middle  BY <1>1, <1>3, <2>5
    <3>2. place'[t] \notin Middle  BY <2>6 DEF Middle
    <3> QED  BY <3>1, <3>2
  <2>8. Resting(text', terminal_column', terminal_row', terminal_buffer')
    BY <1>1, <1>2, <2>3
  <2> QED  BY <2>7, <2>8, NoneInPutchar
<1> QED  BY <1>1, <1>4, <1>6 DEF ScreenInv, Cells

LEMMA ScreenInvStep ==
  ASSUME PrintInv, ScreenInv, [ConsoleNext]_console
  PROVE  ScreenInv'
<1>0. DOMAIN place = Threads  BY DEF PrintInv, Domains
<1>1. CASE UNCHANGED console
  <2>1. text' = text /\ overlapped' = overlapped /\ terminal' = terminal /\ place' = place
    BY <1>1 DEF console, history
  <2> QED  BY <2>1, QuietShows
<1>2. CASE ConsoleNext
  <2>1. PICK t \in Threads :
          \/ Printf(t) \/ Convert(t) \/ UnknownFormat(t) \/ Return(t) \/ Written(t)
          \/ PutEntry(t) \/ Column(t) \/ Row(t) \/ Scroll(t)
    BY <1>2 DEF ConsoleNext, terminal_putchar
  <2>2. CASE Printf(t) \/ Convert(t) \/ UnknownFormat(t) \/ Return(t) \/ Written(t)
    <3>1. text' = text /\ overlapped' = overlapped /\ terminal' = terminal
      BY <2>2 DEF Printf, Convert, UnknownFormat, Return, Written, history, terminal
    <3>2. \/ place' = place
          \/ \E p, q \in Places \ Middle : place[t] = p /\ place' = [place EXCEPT ![t] = q]
      BY <2>2 DEF Printf, Convert, UnknownFormat, Return, Written, Goto, Places, Middle
    <3>3. \A u \in Threads : \/ place'[u] = place[u]
                             \/ place'[u] \notin Middle /\ place[u] \notin Middle
      BY <1>0, <3>2
    <3> QED  BY <3>1, <3>3, QuietShows
  <2> QED  BY <2>1, <2>2, PutEntryShows, ColumnMoves, RowMoves, ScrollMoves
<1> QED  BY <1>1, <1>2

LEMMA RestingShows ==
  ASSUME PrintInv, ScreenInv
  PROVE  ScreenShowsText
<1> DEFINE P == OnPaper(text)
           n == Len(text)
           p == P[n]
           top == IF p[2] < Height THEN 0 ELSE p[2] - (Height - 1)
           PutAt(x, y) == {k \in 1..Len(text) : text[k] # Newline /\ Paper[k - 1] = <<x, y>>}
<1>1. Paper = P  BY DEF Paper, OnPaper, IsPaper, PaperStep
<1> HIDE DEF P
<1> SUFFICES ASSUME ~overlapped, \A t \in Threads : ~InPutchar(t)
             PROVE  /\ <<terminal_column, terminal_row>> = <<p[1], p[2] - top>>
                    /\ \A cell \in Cells :
                         IF PutAt(cell[1], cell[2] + top) = {} THEN terminal_buffer[cell] = " "
                         ELSE \E k \in PutAt(cell[1], cell[2] + top) :
                                terminal_buffer[cell] = text[k]
  BY <1>1 DEF ScreenShowsText
<1>2. \A t \in Threads : place[t] \notin Middle  BY DEF InPutchar, Middle
<1>3. Resting(text, terminal_column, terminal_row, terminal_buffer)
  BY <1>2 DEF ScreenInv, ScreenOk
<1>4. terminal_column = p[1]  BY <1>3 DEF Resting, P
<1>5. PICK m : OnLine(terminal_row, p[2], m) /\ Visible(terminal_buffer, text, m)
  BY <1>3 DEF Resting, P
<1>6. Height \in Nat \ {0}  BY ConsoleAssumption
<1>7. m = top /\ terminal_row = p[2] - top
  <2> DEFINE y == p[2]
  <2>1. m \in Nat /\ terminal_row \in 0..(Height - 1) /\ y = terminal_row + m
        /\ (m # 0 => terminal_row = Height - 1)
    BY <1>5 DEF OnLine
  <2>2. top = IF y < Height THEN 0 ELSE y - (Height - 1)  OBVIOUS
  <2> HIDE DEF y, top
  <2>3. m = top /\ terminal_row = y - top  BY <1>6, <2>1, <2>2
  <2> QED  BY <2>3 DEF y
<1>8. ASSUME NEW cell \in Cells
      PROVE  IF PutAt(cell[1], cell[2] + top) = {} THEN terminal_buffer[cell] = " "
             ELSE \E k \in PutAt(cell[1], cell[2] + top) : terminal_buffer[cell] = text[k]
  <2>1. PICK a \in 0..(Width - 1), b \in 0..(Height - 1) : cell = <<a, b>>  BY DEF Cells
  <2>2. CellOk(terminal_buffer[<<a, b>>], text, P, a, b + m)  BY <1>5 DEF Visible, P
  <2>3. cell[1] = a /\ cell[2] = b  BY <2>1
  <2>4. PutAt(a, b + m) = Here(text, P, a, b + m)  BY <1>1 DEF Here
  <2>5. IF PutAt(a, b + m) = {} THEN terminal_buffer[<<a, b>>] = " "
        ELSE \E k \in PutAt(a, b + m) : terminal_buffer[<<a, b>>] = text[k]
    <3> HIDE DEF PutAt
    <3> QED  BY <2>2, <2>4 DEF CellOk
  <2> HIDE DEF PutAt, top
  <2> QED  BY <1>7, <2>1, <2>3, <2>5
<1> HIDE DEF PutAt, top
<1> QED  BY <1>4, <1>7, <1>8

(* As long as no two calls of terminal_putchar overlap, the screen shows   *)
(* the end of everything printed, wrapped and scrolled, and the cursor is  *)
(* where the next character goes: for every size of the screen and every   *)
(* text.                                                                   *)
THEOREM ScreenIsRight == ConsoleSpec => []ScreenShowsText
<1>1. ConsoleInit => PrintInv /\ ScreenInv  BY PrintInvInit, ScreenInvInit
<1>2. PrintInv /\ ScreenInv /\ [ConsoleNext]_console => PrintInv' /\ ScreenInv'
  BY PrintInvStep, ScreenInvStep
<1>3. PrintInv /\ ScreenInv => ScreenShowsText  BY RestingShows
<1> QED  BY <1>1, <1>2, <1>3, PTL DEF ConsoleSpec
=============================================================================
