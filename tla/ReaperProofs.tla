---------------------------- MODULE ReaperProofs ----------------------------
(***************************************************************************)
(* Proofs about Reaper, for every set of tasks.                            *)
(***************************************************************************)
EXTENDS Reaper, SequenceTheorems, TLAPS

-----------------------------------------------------------------------------
(* Sequences without repetitions: the ring and the lists of tasks.         *)

Distinct(s) == \A i, j \in 1..Len(s) : s[i] = s[j] => i = j

LEMMA RangeIndex ==
  ASSUME NEW S, NEW s \in Seq(S)
  PROVE  /\ \A x : x \in Range(s) <=> \E i \in 1..Len(s) : x = s[i]
         /\ Range(s) \subseteq S
<1>1. DOMAIN s = 1..Len(s)  OBVIOUS
<1>2. \A i \in 1..Len(s) : s[i] \in S  OBVIOUS
<1> QED  BY <1>1, <1>2 DEF Range

\* The head is taken away.
LEMMA TailRange ==
  ASSUME NEW S, NEW s \in Seq(S), s # <<>>, Distinct(s)
  PROVE  /\ Tail(s) \in Seq(S) /\ Distinct(Tail(s))
         /\ Range(Tail(s)) = Range(s) \ {Head(s)}
         /\ Head(s) \in S /\ Head(s) \in Range(s)
<1> DEFINE r == Tail(s)
           n == Len(s)
<1>1. /\ r \in Seq(S) /\ Len(r) = n - 1 /\ n \in Nat /\ n >= 1
      /\ \A i \in 1..(n - 1) : r[i] = s[i + 1]
      /\ Head(s) = s[1] /\ s[1] \in S
  OBVIOUS
<1> HIDE DEF r, n
<1>2. \A i, j \in 1..n : s[i] = s[j] => i = j  BY DEF Distinct, n
<1>3. Distinct(r)  BY <1>1, <1>2 DEF Distinct
<1>4. \A x : x \in Range(s) <=> \E i \in 1..n : x = s[i]  BY RangeIndex DEF n
<1>5. \A x : x \in Range(r) <=> \E i \in 1..(n - 1) : x = r[i]
  BY <1>1, RangeIndex
<1>6. ASSUME NEW x \in Range(r) PROVE x \in Range(s) /\ x # s[1]
  <2>1. PICK i \in 1..(n - 1) : x = r[i]  BY <1>5
  <2>2. x = s[i + 1] /\ i + 1 \in 1..n /\ i + 1 # 1  BY <1>1, <2>1
  <2> QED  BY <1>1, <1>2, <1>4, <2>2
<1>7. ASSUME NEW x \in Range(s), x # s[1] PROVE x \in Range(r)
  <2>1. PICK i \in 1..n : x = s[i]  BY <1>4
  <2>2. i - 1 \in 1..(n - 1) /\ (i - 1) + 1 = i  BY <1>1, <1>7, <2>1
  <2>3. r[i - 1] = x  BY <1>1, <2>1, <2>2
  <2> QED  BY <1>5, <2>2, <2>3
<1>8. s[1] \in Range(s)  BY <1>1, <1>4
<1> QED  BY <1>1, <1>3, <1>6, <1>7, <1>8 DEF r

\* An element is added at the end.
LEMMA AppendRange ==
  ASSUME NEW S, NEW s \in Seq(S), NEW x \in S, x \notin Range(s), Distinct(s)
  PROVE  /\ Append(s, x) \in Seq(S) /\ Distinct(Append(s, x))
         /\ Range(Append(s, x)) = Range(s) \cup {x}
<1> DEFINE r == Append(s, x)
           n == Len(s)
<1>1. /\ r \in Seq(S) /\ Len(r) = n + 1 /\ n \in Nat
      /\ \A i \in 1..n : r[i] = s[i]
      /\ r[n + 1] = x
  OBVIOUS
<1> HIDE DEF r, n
<1>2. \A i, j \in 1..n : s[i] = s[j] => i = j  BY DEF Distinct, n
<1>3. \A y : y \in Range(s) <=> \E i \in 1..n : y = s[i]  BY RangeIndex DEF n
<1>4. \A y : y \in Range(r) <=> \E i \in 1..(n + 1) : y = r[i]
  BY <1>1, RangeIndex
<1>5. \A i \in 1..(n + 1) : i \in 1..n \/ i = n + 1  BY <1>1
<1>6. \A i \in 1..n : s[i] # x  BY <1>3
<1>7. Distinct(r)  BY <1>1, <1>2, <1>5, <1>6 DEF Distinct
<1>8. ASSUME NEW y PROVE y \in Range(r) <=> y \in Range(s) \cup {x}
  <2>1. ASSUME y \in Range(r) PROVE y \in Range(s) \cup {x}
    BY <1>1, <1>3, <1>4, <1>5, <2>1
  <2>2. ASSUME y \in Range(s) PROVE y \in Range(r)
    <3>1. PICK i \in 1..n : y = s[i]  BY <1>3, <2>2
    <3>2. i \in 1..(n + 1) /\ y = r[i]  BY <1>1, <3>1
    <3> QED  BY <1>4, <3>2
  <2>3. x \in Range(r)
    <3>1. n + 1 \in 1..(n + 1)  BY <1>1
    <3> QED  BY <1>1, <1>4, <3>1
  <2> QED  BY <2>1, <2>2, <2>3
<1> QED  BY <1>1, <1>7, <1>8 DEF r

\* An element is added at the front.
LEMMA FrontRange ==
  ASSUME NEW S, NEW s \in Seq(S), NEW x \in S, x \notin Range(s), Distinct(s)
  PROVE  /\ <<x>> \o s \in Seq(S) /\ Distinct(<<x>> \o s)
         /\ Range(<<x>> \o s) = Range(s) \cup {x}
<1> DEFINE r == <<x>> \o s
           n == Len(s)
<1>0. <<x>> \in Seq(S) /\ Len(<<x>>) = 1 /\ <<x>>[1] = x  OBVIOUS
<1>1. /\ r \in Seq(S) /\ Len(r) = 1 + n /\ n \in Nat
      /\ r[1] = x
      /\ \A i \in 2..(1 + n) : r[i] = s[i - 1]
  BY <1>0
<1> HIDE DEF r, n
<1>2. \A i, j \in 1..n : s[i] = s[j] => i = j  BY DEF Distinct, n
<1>3. \A y : y \in Range(s) <=> \E i \in 1..n : y = s[i]  BY RangeIndex DEF n
<1>4. \A y : y \in Range(r) <=> \E i \in 1..(1 + n) : y = r[i]
  BY <1>1, RangeIndex
<1>5. \A i \in 1..(1 + n) : i = 1 \/ (i \in 2..(1 + n) /\ i - 1 \in 1..n)  BY <1>1
<1>6. \A i \in 1..n : s[i] # x  BY <1>3
<1>7. Distinct(r)
  <2> SUFFICES ASSUME NEW i \in 1..(1 + n), NEW j \in 1..(1 + n), r[i] = r[j]
               PROVE  i = j
    BY <1>1 DEF Distinct
  <2>1. CASE i = 1  BY <2>1, <1>1, <1>5, <1>6
  <2>2. CASE j = 1  BY <2>2, <1>1, <1>5, <1>6
  <2>3. CASE i # 1 /\ j # 1
    <3>1. i - 1 \in 1..n /\ j - 1 \in 1..n /\ s[i - 1] = s[j - 1]
      BY <2>3, <1>1, <1>5
    <3>2. i - 1 = j - 1  BY <1>2, <3>1
    <3> QED  BY <3>2
  <2> QED  BY <2>1, <2>2, <2>3
<1>8. ASSUME NEW y PROVE y \in Range(r) <=> y \in Range(s) \cup {x}
  <2>1. ASSUME y \in Range(r) PROVE y \in Range(s) \cup {x}
    <3>1. PICK i \in 1..(1 + n) : y = r[i]  BY <1>4, <2>1
    <3>2. CASE i = 1  BY <1>1, <3>1, <3>2
    <3>3. CASE i # 1
      <4>1. i - 1 \in 1..n /\ y = s[i - 1]  BY <1>1, <1>5, <3>1, <3>3
      <4> QED  BY <1>3, <4>1
    <3> QED  BY <3>2, <3>3
  <2>2. ASSUME y \in Range(s) PROVE y \in Range(r)
    <3>1. PICK i \in 1..n : y = s[i]  BY <1>3, <2>2
    <3>2. i + 1 \in 2..(1 + n) /\ (i + 1) - 1 = i  BY <1>1, <3>1
    <3>3. i + 1 \in 1..(1 + n) /\ r[i + 1] = y  BY <1>1, <3>1, <3>2
    <3> QED  BY <1>4, <3>3
  <2>3. x \in Range(r)
    <3>1. 1 \in 1..(1 + n)  BY <1>1
    <3> QED  BY <1>1, <1>4, <3>1
  <2> QED  BY <2>1, <2>2, <2>3
<1> QED  BY <1>1, <1>7, <1>8 DEF r

\* put_in_schedule_ring: an element is added behind the first one.
LEMMA BehindHead ==
  ASSUME NEW S, NEW s \in Seq(S), s # <<>>, NEW x \in S, x \notin Range(s), Distinct(s)
  PROVE  /\ <<Head(s), x>> \o Tail(s) \in Seq(S)
         /\ <<Head(s), x>> \o Tail(s) # <<>>
         /\ Distinct(<<Head(s), x>> \o Tail(s))
         /\ Range(<<Head(s), x>> \o Tail(s)) = Range(s) \cup {x}
         /\ Head(<<Head(s), x>> \o Tail(s)) = Head(s)
<1> DEFINE h == Head(s)
           r == Tail(s)
<1>1. r \in Seq(S) /\ Distinct(r) /\ Range(r) = Range(s) \ {h} /\ h \in S
      /\ h \in Range(s)
  BY TailRange
<1> HIDE DEF h, r
<1>2. <<x>> \o r \in Seq(S) /\ Distinct(<<x>> \o r) /\ Range(<<x>> \o r) = Range(r) \cup {x}
  BY <1>1, FrontRange
<1> DEFINE q == <<x>> \o r
<1>3. <<h>> \o q = <<h, x>> \o r /\ <<h, x>> \o r # <<>> /\ Head(<<h, x>> \o r) = h
  BY <1>1
<1> HIDE DEF q
<1>4. q \in Seq(S) /\ Distinct(q) /\ h \notin Range(q) /\ Range(q) = Range(r) \cup {x}
  BY <1>1, <1>2 DEF q
<1>5. <<h>> \o q \in Seq(S) /\ Distinct(<<h>> \o q) /\ Range(<<h>> \o q) = Range(q) \cup {h}
  BY <1>1, <1>4, FrontRange
<1>6. Range(q) \cup {h} = Range(s) \cup {x}  BY <1>1, <1>4
<1> QED  BY <1>3, <1>5, <1>6 DEF h, r

\* The end of a quantum, and sched_yield.
LEMMA RotatedRange ==
  ASSUME NEW S, NEW s \in Seq(S), Distinct(s)
  PROVE  /\ Rotated(s) \in Seq(S) /\ Distinct(Rotated(s))
         /\ Range(Rotated(s)) = Range(s)
<1>1. CASE s = <<>>  BY <1>1 DEF Rotated
<1>2. CASE s # <<>>
  <2> DEFINE h == Head(s)
             r == Tail(s)
  <2>1. r \in Seq(S) /\ Distinct(r) /\ Range(r) = Range(s) \ {h} /\ h \in S
        /\ h \in Range(s)
    BY <1>2, TailRange
  <2>2. Rotated(s) = Append(r, h)  BY <1>2 DEF Rotated
  <2> HIDE DEF h, r
  <2>3. h \notin Range(r)  BY <2>1
  <2>4. Append(r, h) \in Seq(S) /\ Distinct(Append(r, h))
        /\ Range(Append(r, h)) = Range(r) \cup {h}
    BY <2>1, <2>3, AppendRange
  <2> QED  BY <2>1, <2>2, <2>4
<1> QED  BY <1>1, <1>2

-----------------------------------------------------------------------------
(* The inductive invariant.                                                *)

Contexts == Tasks \cup {Idle}  \* whose stack a handler runs on

Values == Tasks \cup {0, 1}  \* what EAX and a lock hold

Handlers == [walking : BOOLEAN, todo : Seq(Tasks),
             step : {"pages", "stacks", "ms", "pcb"}, yielded : BOOLEAN]

TaskTypes ==
  /\ ring \in Seq(Tasks) /\ Distinct(ring)
  /\ asleep \in SUBSET Tasks
  /\ doomed_task \in Seq(Tasks)
  /\ irq \in [Contexts -> Handlers]
  /\ exited \in SUBSET Tasks
  /\ freed \in [Tasks -> Nat]
  /\ overlapped \in BOOLEAN

LockTypes ==
  /\ lock \in [Locks -> Values]
  /\ level \in Nat
  /\ pc \in [Tasks -> {"code", "spin_lock", "free", "get_lock", "test", "zero",
                       "got_lock", "release"}]
  /\ on \in [Tasks -> Locks \cup {NoLock}]
  /\ eax \in [Tasks -> Values]
  /\ inside \in [Tasks -> Semaphores \cup {NoLock}]
  /\ depth \in [Tasks -> 0..MaxDepth]
  /\ contended \in SUBSET Locks
  /\ torn \in BOOLEAN /\ keyed \in BOOLEAN

\* A task is in one place, and has or wants a lock only while it is ready.
Places ==
  /\ Range(ring) \cap asleep = {}
  /\ (Range(ring) \cup asleep) \cap exited = {}
  /\ \A t \in Tasks : ~Unlocked(t) => t \in Range(ring)

\* Where a task is tells what it has.
Points ==
  \A t \in Tasks :
    /\ pc[t] \in {"spin_lock", "zero", "got_lock"} => on[t] = "pages"
    /\ pc[t] \in {"free", "get_lock", "test"} => on[t] \in Locks
    /\ pc[t] \in {"code", "release"} => on[t] = NoLock
    /\ on[t] \in Semaphores => inside[t] = NoLock /\ depth[t] = 0
    /\ on[t] = "pages" => depth[t] < MaxDepth

(* A semaphore is not taken by nobody; and when no key came, one of those  *)
(* it is taken by knows it.                                                *)
SemaphoresOwned ==
  \A l \in Semaphores : lock[l] # 0 =>
    /\ \E t \in Tasks : on[t] = l \/ inside[t] = l
    /\ ~keyed => \E t \in Tasks : Owns(t, l)

\* As long as nobody has yielded for a semaphore, it has one owner.
SemaphoresAlone ==
  ~keyed => \A l \in Semaphores \ contended : \A t \in Tasks :
    /\ on[t] = l /\ pc[t] \in {"free", "get_lock"} => eax[t] # 0
    /\ Owns(t, l) => lock[l] # 0
    /\ \A u \in Tasks : Owns(t, l) /\ Owns(u, l) => t = u

\* t has won the xchg of the mutex and has not given it back.
OwnsPages(t) ==
  \/ depth[t] > 0
  \/ pc[t] \in {"zero", "got_lock", "release"}
  \/ pc[t] = "test" /\ on[t] = "pages" /\ eax[t] = 0

(* As long as the mutex has been taken by one at a time, it names its      *)
(* owner, and counts for him.                                              *)
PagesAlone ==
  PagesUndisturbed =>
    /\ lock["pages"] = 0 => level = 0
    /\ lock["pages"] # 0 => lock["pages"] \in Tasks /\ OwnsPages(lock["pages"])
    /\ \A t \in Tasks :
         /\ OwnsPages(t) => lock["pages"] = t /\ level = depth[t]
         /\ on[t] = "pages" /\ pc[t] \in {"spin_lock", "free", "get_lock"} =>
              eax[t] = t
         /\ on[t] = "pages" /\ pc[t] = "test" => eax[t] = 0
         /\ on[t] = "pages" /\ pc[t] \in {"test", "zero"} => depth[t] = 0
         /\ pc[t] = "release" => depth[t] = 0

\* So the handler comes to the mutex under the tid it has.
FreshWalks ==
  "pages" \notin contended =>
    \A c \in Contexts :
      irq[c].walking /\ irq[c].step = "pages" => ~irq[c].yielded

Pending == {t \in exited : freed[t] = 0}

(* As long as walks do not overlap, the walk has before it exactly the     *)
(* tasks that are to be freed.                                             *)
Walks ==
  ~overlapped =>
    /\ \A c, d \in Contexts : irq[c].walking /\ irq[d].walking => c = d
    /\ Distinct(doomed_task)
    /\ Pending \subseteq Range(doomed_task)
    /\ (\A c \in Contexts : ~irq[c].walking) => Range(doomed_task) = Pending
    /\ \A c \in Contexts : irq[c].walking =>
         Distinct(irq[c].todo) /\ Range(irq[c].todo) = Pending
    /\ \A t \in Tasks : freed[t] <= 1 /\ (freed[t] = 1 => t \in exited)

Alone == SemaphoresOwned /\ SemaphoresAlone /\ PagesAlone

Inv == TaskTypes /\ LockTypes /\ Places /\ Points /\ Alone /\ FreshWalks /\ Walks

-----------------------------------------------------------------------------
(* What the operators of Reaper do with such values.                       *)

LEMMA RangeEmpty ==
  Range(<<>>) = {}
  BY DEF Range

LEMMA RangeOne ==
  ASSUME NEW S, NEW x \in S
  PROVE  <<x>> \in Seq(S) /\ Range(<<x>>) = {x} /\ Distinct(<<x>>)
<1>1. DOMAIN <<x>> = {1} /\ <<x>>[1] = x /\ Len(<<x>>) = 1  OBVIOUS
<1> QED  BY <1>1 DEF Range, Distinct

\* A walk begins.
LEMMA WalkFacts ==
  ASSUME NEW list \in Seq(Tasks)
  PROVE  /\ Walk(list) \in Handlers /\ Walk(list).walking /\ Walk(list).todo = list
         /\ Walk(list).step = "pages" /\ ~Walk(list).yielded
<1> DEFINE T == Seq(Tasks)
<1>1. list \in T /\ <<>> \in T  OBVIOUS
<1> HIDE DEF T
<1>2. /\ Walk(list) \in [walking : BOOLEAN, todo : T,
                         step : {"pages", "stacks", "ms", "pcb"}, yielded : BOOLEAN]
      /\ Walk(list).walking = TRUE /\ Walk(list).todo = list
      /\ Walk(list).step = "pages" /\ Walk(list).yielded = FALSE
  BY <1>1 DEF Walk, NoHandler
<1> QED  BY <1>2 DEF Handlers, T

\* The running task is the first of the ring.
LEMMA RunningFacts ==
  ASSUME TaskTypes
  PROVE  /\ Running \in Contexts
         /\ Running # Idle => /\ ring # <<>> /\ Running = Head(ring)
                              /\ Running \in Tasks /\ Running \in Range(ring)
<1>0. ring \in Seq(Tasks) /\ Distinct(ring)  BY DEF TaskTypes
<1>1. CASE ring = <<>>  BY <1>1 DEF Running, Contexts
<1>2. CASE ring # <<>>
  <2>1. Head(ring) \in Tasks /\ Head(ring) \in Range(ring)  BY <1>0, <1>2, TailRange
  <2> QED  BY <1>2, <2>1 DEF Running, Contexts
<1> QED  BY <1>1, <1>2

\* A task that executes its own code.
LEMMA ExecutesFacts ==
  ASSUME TaskTypes, NEW t \in Tasks, Executes(t)
  PROVE  /\ ring # <<>> /\ t = Head(ring) /\ t \in Range(ring)
         /\ t # 0 /\ t \in Contexts
  BY RunningFacts, ReaperAssumption DEF Executes, Idle, Contexts

-----------------------------------------------------------------------------
(* The invariant holds initially, and every step keeps it.                 *)

LEMMA InitInv ==
  Init => Inv
<1> SUFFICES ASSUME Init PROVE Inv  OBVIOUS
<1> USE ReaperAssumption DEF Init
<1>1. TaskTypes
  <2>1. ring \in Seq(Tasks) /\ Distinct(ring)  BY RangeOne
  <2>2. doomed_task \in Seq(Tasks)  OBVIOUS
  <2>3. NoHandler \in Handlers  BY DEF NoHandler, Handlers
  <2>4. irq \in [Contexts -> Handlers]  BY <2>3 DEF Contexts
  <2>5. asleep \in SUBSET Tasks /\ exited \in SUBSET Tasks /\ overlapped \in BOOLEAN
        /\ freed \in [Tasks -> Nat]
    OBVIOUS
  <2> HIDE DEF Init
  <2> QED  BY <2>1, <2>2, <2>4, <2>5 DEF TaskTypes
<1>2. LockTypes
  <2>1. lock \in [Locks -> Values] /\ level \in Nat /\ contended \in SUBSET Locks
        /\ torn \in BOOLEAN /\ keyed \in BOOLEAN
    BY DEF Values
  <2>2. /\ pc = [t \in Tasks |-> "code"] /\ on = [t \in Tasks |-> NoLock]
        /\ eax = [t \in Tasks |-> 0] /\ inside = [t \in Tasks |-> NoLock]
        /\ depth = [t \in Tasks |-> 0]
    OBVIOUS
  <2> HIDE DEF Init
  <2> QED  BY <2>1, <2>2 DEF LockTypes, Values, MaxDepth
<1>3. Places  BY DEF Places, Unlocked
<1>4. Points  BY DEF Points, Semaphores, NoLock, MaxDepth
<1>5. Alone
  <2>1. \A l \in Locks : lock[l] = 0  OBVIOUS
  <2>2. \A t \in Tasks : /\ pc[t] = "code" /\ on[t] = NoLock /\ inside[t] = NoLock
                         /\ depth[t] = 0
    OBVIOUS
  <2>3. level = 0  OBVIOUS
  <2> HIDE DEF Init
  <2>4. SemaphoresOwned  BY <2>1 DEF SemaphoresOwned, Locks
  <2>5. SemaphoresAlone
    BY <2>2 DEF SemaphoresAlone, Owns, Semaphores, NoLock
  <2>6. PagesAlone  BY <2>1, <2>2, <2>3 DEF PagesAlone, OwnsPages, Locks, NoLock
  <2> QED  BY <2>4, <2>5, <2>6 DEF Alone
<1>6. FreshWalks  BY DEF FreshWalks, NoHandler, Contexts
<1>7. Walks
  <2>1. Pending = {}  BY DEF Pending
  <2>2. Distinct(doomed_task) /\ Range(doomed_task) = {}
    BY RangeEmpty DEF Distinct
  <2>3. \A c \in Contexts : ~irq[c].walking  BY DEF NoHandler, Contexts
  <2>4. \A t \in Tasks : freed[t] = 0  OBVIOUS
  <2> HIDE DEF Init
  <2> QED  BY <2>1, <2>2, <2>3, <2>4 DEF Walks
<1> QED  BY <1>1, <1>2, <1>3, <1>4, <1>5, <1>6, <1>7 DEF Inv

\* Steps that leave the locks alone.
LEMMA LocksFrame ==
  ASSUME LockTypes, Points, Alone, UNCHANGED <<lock, level, loop, own, trouble>>
  PROVE  LockTypes' /\ Points' /\ Alone'
<1> USE DEF loop, own, trouble
<1>1. LockTypes'  BY DEF LockTypes
<1>2. Points'  BY DEF Points
<1>3. \A t, l : Owns(t, l)' = Owns(t, l)  BY DEF Owns
<1>4. \A t : OwnsPages(t)' = OwnsPages(t)  BY DEF OwnsPages
<1>5. SemaphoresOwned' /\ SemaphoresAlone'
  BY <1>3 DEF Alone, SemaphoresOwned, SemaphoresAlone
<1>6. PagesAlone'  BY <1>4 DEF Alone, PagesAlone, PagesUndisturbed
<1> QED  BY <1>1, <1>2, <1>5, <1>6 DEF Alone

\* sched_new_thread
LEMMA NewKeeps ==
  ASSUME Inv, NEW t \in Tasks, New(t)
  PROVE  Inv'
<1> USE DEF Inv
<1>1. ring # <<>> /\ t = Head(ring)  BY ExecutesFacts DEF New
<1>2. PICK u \in Tasks \ (Range(ring) \cup asleep \cup exited) :
        ring' = <<t, u>> \o Tail(ring)
  BY DEF New
<1>3. UNCHANGED <<asleep, doomed_task, exited, lock, level, loop, own, irq, freed,
                  overlapped, trouble>>
  BY DEF New
<1>0. ring \in Seq(Tasks) /\ Distinct(ring)  BY DEF TaskTypes
<1>4. ring' \in Seq(Tasks) /\ Distinct(ring') /\ Range(ring') = Range(ring) \cup {u}
  BY <1>0, <1>1, <1>2, BehindHead
<1>5. TaskTypes'  BY <1>3, <1>4 DEF TaskTypes
<1>6. Places'  BY <1>3, <1>4 DEF Places, Unlocked, loop, own
<1>7. LockTypes' /\ Points' /\ Alone'  BY <1>3, LocksFrame
<1>8. FreshWalks' /\ Walks'  BY <1>3 DEF FreshWalks, Walks, Pending, trouble
<1> QED  BY <1>5, <1>6, <1>7, <1>8

\* sched_sleep
LEMMA SleepKeeps ==
  ASSUME Inv, NEW t \in Tasks, Sleep(t)
  PROVE  Inv'
<1> USE DEF Inv
<1>1. ring # <<>> /\ t = Head(ring) /\ t \in Range(ring) /\ Unlocked(t)
  BY ExecutesFacts DEF Sleep
<1>2. /\ ring' = Tail(ring) /\ asleep' = asleep \cup {t}
      /\ UNCHANGED <<doomed_task, exited, lock, level, loop, own, irq, freed,
                     overlapped, trouble>>
  BY DEF Sleep
<1>0. ring \in Seq(Tasks) /\ Distinct(ring) /\ doomed_task \in Seq(Tasks)
  BY DEF TaskTypes
<1>3. ring' \in Seq(Tasks) /\ Distinct(ring') /\ Range(ring') = Range(ring) \ {t}
  BY <1>0, <1>1, <1>2, TailRange
<1>4. TaskTypes'  BY <1>2, <1>3 DEF TaskTypes
<1>5. Places'  BY <1>1, <1>2, <1>3 DEF Places, Unlocked, loop, own
<1>6. LockTypes' /\ Points' /\ Alone'  BY <1>2, LocksFrame
<1>7. FreshWalks' /\ Walks'  BY <1>2 DEF FreshWalks, Walks, Pending, trouble
<1> QED  BY <1>4, <1>5, <1>6, <1>7

\* sched_exit: not seen by a walk that has begun.
LEMMA ExitKeeps ==
  ASSUME Inv, NEW t \in Tasks, Exit(t)
  PROVE  Inv'
<1> USE DEF Inv
<1>1. ring # <<>> /\ t = Head(ring) /\ t \in Range(ring) /\ Unlocked(t)
  BY ExecutesFacts DEF Exit
<1>2. /\ ring' = Tail(ring) /\ doomed_task' = <<t>> \o doomed_task
      /\ exited' = exited \cup {t}
      /\ overlapped' = (overlapped \/ \E c \in DOMAIN irq : irq[c].walking)
      /\ UNCHANGED <<asleep, lock, level, loop, own, irq, freed, trouble>>
  BY DEF Exit
<1>0. ring \in Seq(Tasks) /\ Distinct(ring) /\ doomed_task \in Seq(Tasks)
  BY DEF TaskTypes
<1>3. ring' \in Seq(Tasks) /\ Distinct(ring') /\ Range(ring') = Range(ring) \ {t}
  BY <1>0, <1>1, <1>2, TailRange
<1>4. doomed_task' \in Seq(Tasks)  BY <1>0, <1>2
<1>5. TaskTypes'  BY <1>2, <1>3, <1>4 DEF TaskTypes
<1>6. Places'  BY <1>1, <1>2, <1>3 DEF Places, Unlocked, loop, own
<1>7. LockTypes' /\ Points' /\ Alone'  BY <1>2, LocksFrame
<1>8. FreshWalks'  BY <1>2 DEF FreshWalks, trouble
<1>9. Walks'
  <2> SUFFICES ASSUME ~overlapped' PROVE Walks'  BY DEF Walks
  <2>1. ~overlapped /\ \A c \in Contexts : ~irq[c].walking
    BY <1>2 DEF TaskTypes
  <2>2. Distinct(doomed_task) /\ Range(doomed_task) = Pending
    BY <2>1 DEF Walks
  <2>3. t \notin exited  BY <1>1 DEF Places
  <2>4. freed[t] = 0  BY <2>1, <2>3 DEF Walks, TaskTypes
  <2>5. Pending' = Pending \cup {t}  BY <1>2, <2>4 DEF Pending
  <2>6. t \notin Range(doomed_task)  BY <2>2, <2>3 DEF Pending
  <2>7. Distinct(doomed_task') /\ Range(doomed_task') = Pending'
    BY <1>0, <1>2, <2>2, <2>5, <2>6, FrontRange
  <2> QED  BY <1>2, <2>1, <2>7 DEF Walks
<1> QED  BY <1>5, <1>6, <1>7, <1>8, <1>9

\* IRQ0 reads the list.
LEMMA TickKeeps ==
  ASSUME Inv, Tick
  PROVE  Inv'
<1> USE DEF Inv
<1> DEFINE c == Running
<1>1. c \in Contexts  BY RunningFacts
<1>2. /\ ~irq[c].walking
      /\ irq' = [irq EXCEPT ![c] = Walk(doomed_task)]
      /\ overlapped' = (overlapped \/ \E u \in DOMAIN irq : irq[u].walking)
      /\ UNCHANGED <<ring, asleep, doomed_task, exited, lock, level, loop, own,
                     freed, trouble>>
  BY DEF Tick, tasks
<1> HIDE DEF c
<1>3. doomed_task \in Seq(Tasks)  BY DEF TaskTypes
<1>4. /\ Walk(doomed_task) \in Handlers /\ Walk(doomed_task).walking
      /\ Walk(doomed_task).todo = doomed_task /\ ~Walk(doomed_task).yielded
  BY <1>3, WalkFacts
<1>5. TaskTypes'  BY <1>1, <1>2, <1>4 DEF TaskTypes
<1>6. Places'  BY <1>2 DEF Places, Unlocked, loop, own
<1>7. \A d \in Contexts : irq'[d] = IF d = c THEN Walk(doomed_task) ELSE irq[d]
  BY <1>1, <1>2 DEF TaskTypes
<1>8. LockTypes' /\ Points' /\ Alone'  BY <1>2, LocksFrame
<1>9. FreshWalks'  BY <1>2, <1>4, <1>7 DEF FreshWalks, trouble
<1>10. Walks'
  <2> SUFFICES ASSUME ~overlapped' PROVE Walks'  BY DEF Walks
  <2>1. ~overlapped /\ \A d \in Contexts : ~irq[d].walking
    BY <1>2 DEF TaskTypes
  <2>2. Distinct(doomed_task) /\ Range(doomed_task) = Pending
    BY <2>1 DEF Walks
  <2>3. \A d \in Contexts : irq'[d].walking => d = c /\ irq'[d].todo = doomed_task
    BY <1>4, <1>7, <2>1
  <2>4. Pending' = Pending  BY <1>2 DEF Pending
  <2>5. \A t \in Tasks : freed[t] <= 1 /\ (freed[t] = 1 => t \in exited)
    BY <2>1 DEF Walks
  <2> QED  BY <1>2, <2>2, <2>3, <2>4, <2>5 DEF Walks
<1> QED  BY <1>5, <1>6, <1>8, <1>9, <1>10

-----------------------------------------------------------------------------
(* The instructions of a task: what each one makes of the locks.           *)

LocksInv == LockTypes /\ Points /\ Alone

\* t neither gets a lock nor loses one, and writes neither a lock nor level.
LEMMA NobodyElse ==
  ASSUME LocksInv, LockTypes', NEW t \in Tasks,
         UNCHANGED <<lock, level, torn, keyed>>, contended \subseteq contended',
         \A u \in Tasks : u # t =>
           /\ pc'[u] = pc[u] /\ on'[u] = on[u] /\ eax'[u] = eax[u]
           /\ inside'[u] = inside[u] /\ depth'[u] = depth[u],
         \A l \in Semaphores : Owns(t, l)' <=> Owns(t, l),
         \A l \in Semaphores : on[t] = l \/ inside[t] = l =>
           on'[t] = l \/ inside'[t] = l,
         ~keyed => \A l \in Semaphores \ contended' :
           on'[t] = l /\ pc'[t] \in {"free", "get_lock"} => eax'[t] # 0,
         PagesUndisturbed' =>
           /\ OwnsPages(t)' <=> OwnsPages(t)
           /\ depth'[t] = depth[t]
           /\ on'[t] = "pages" /\ pc'[t] \in {"spin_lock", "free", "get_lock"} =>
                eax'[t] = t
           /\ on'[t] = "pages" /\ pc'[t] = "test" => eax'[t] = 0
           /\ on'[t] = "pages" /\ pc'[t] \in {"test", "zero"} => depth'[t] = 0
           /\ pc'[t] = "release" => depth'[t] = 0
  PROVE  Alone'
<1> USE DEF LocksInv, Alone
<1>1. \A u \in Tasks : \A l \in Semaphores : Owns(u, l)' <=> Owns(u, l)
  <2> SUFFICES ASSUME NEW u \in Tasks, NEW l \in Semaphores
               PROVE  Owns(u, l)' <=> Owns(u, l)
    OBVIOUS
  <2>1. CASE u = t  BY <2>1
  <2>2. CASE u # t  BY <2>2 DEF Owns
  <2> QED  BY <2>1, <2>2
<1>2. PagesUndisturbed' => /\ \A u \in Tasks : OwnsPages(u)' <=> OwnsPages(u)
                           /\ \A u \in Tasks : depth'[u] = depth[u]
  <2> SUFFICES ASSUME PagesUndisturbed', NEW u \in Tasks
               PROVE  (OwnsPages(u)' <=> OwnsPages(u)) /\ depth'[u] = depth[u]
    OBVIOUS
  <2>1. CASE u = t  BY <2>1
  <2>2. CASE u # t  BY <2>2 DEF OwnsPages
  <2> QED  BY <2>1, <2>2
<1>3. PagesUndisturbed' => PagesUndisturbed  BY DEF PagesUndisturbed
<1>4. SemaphoresOwned'
  <2> SUFFICES ASSUME NEW l \in Semaphores, lock[l] # 0
               PROVE  /\ \E u \in Tasks : on'[u] = l \/ inside'[u] = l
                      /\ ~keyed => \E u \in Tasks : Owns(u, l)'
    BY DEF SemaphoresOwned
  <2>1. PICK u \in Tasks : on[u] = l \/ inside[u] = l  BY DEF SemaphoresOwned
  <2>2. on'[u] = l \/ inside'[u] = l  BY <2>1
  <2> QED  BY <1>1, <2>2 DEF SemaphoresOwned
<1>5. SemaphoresAlone'
  <2> SUFFICES ASSUME ~keyed, NEW l \in Semaphores \ contended', NEW u \in Tasks
               PROVE  /\ on'[u] = l /\ pc'[u] \in {"free", "get_lock"} => eax'[u] # 0
                      /\ Owns(u, l)' => lock[l] # 0
                      /\ \A v \in Tasks : Owns(u, l)' /\ Owns(v, l)' => u = v
    BY DEF SemaphoresAlone
  <2> QED  BY <1>1 DEF SemaphoresAlone
<1>6. PagesAlone'
  <2> SUFFICES ASSUME PagesUndisturbed' PROVE PagesAlone'  BY DEF PagesAlone
  <2>1. /\ lock["pages"] = 0 => level = 0
        /\ lock["pages"] # 0 => lock["pages"] \in Tasks /\ OwnsPages(lock["pages"])'
        /\ \A u \in Tasks : OwnsPages(u)' => lock["pages"] = u /\ level = depth'[u]
    BY <1>2, <1>3 DEF PagesAlone
  <2>2. \A u \in Tasks :
          /\ on'[u] = "pages" /\ pc'[u] \in {"spin_lock", "free", "get_lock"} =>
               eax'[u] = u
          /\ on'[u] = "pages" /\ pc'[u] = "test" => eax'[u] = 0
          /\ on'[u] = "pages" /\ pc'[u] \in {"test", "zero"} => depth'[u] = 0
          /\ pc'[u] = "release" => depth'[u] = 0
    BY <1>3 DEF PagesAlone
  <2> QED  BY <2>1, <2>2 DEF PagesAlone
<1> QED  BY <1>4, <1>5, <1>6

LEMMA CallLocks ==
  ASSUME LocksInv, NEW t \in Tasks, t # 0, Call(t), UNCHANGED <<torn, keyed>>
  PROVE  LocksInv'
<1> USE DEF LocksInv
<1>1. PICK l \in Locks :
        /\ depth[t] = 0 \/ l = "pages"
        /\ inside[t] = NoLock \/ (inside[t] = "heap" /\ l = "pages")
        /\ on' = [on EXCEPT ![t] = l]
        /\ pc[t] = "code"
        /\ pc' = [pc EXCEPT ![t] = IF l = "pages" THEN "spin_lock" ELSE "free"]
  BY DEF Call, Goto
<1>2. /\ depth[t] < MaxDepth /\ eax' = [eax EXCEPT ![t] = t]
      /\ UNCHANGED <<lock, level, inside, depth, contended>>
  BY DEF Call, own
<1>3. /\ on[t] = NoLock
      /\ on'[t] = l /\ eax'[t] = t /\ pc'[t] = (IF l = "pages" THEN "spin_lock" ELSE "free")
      /\ \A u \in Tasks : u # t => on'[u] = on[u] /\ pc'[u] = pc[u] /\ eax'[u] = eax[u]
  BY <1>1, <1>2 DEF Points, LockTypes
<1>4. LockTypes'  BY <1>1, <1>2 DEF LockTypes, Values
<1>5. Points'  BY <1>1, <1>2, <1>3 DEF Points, Locks, Semaphores, NoLock
<1>6. Alone'
  <2>1. \A k \in Semaphores : Owns(t, k)' <=> Owns(t, k)
    BY <1>1, <1>2, <1>3 DEF Owns
  <2>2. \A k \in Semaphores : on[t] # k  BY <1>3 DEF Semaphores, NoLock
  <2>3. OwnsPages(t)' <=> OwnsPages(t)  BY <1>1, <1>2, <1>3 DEF OwnsPages
  <2> QED  BY <1>2, <1>3, <1>4, <2>1, <2>2, <2>3, NobodyElse
<1> QED  BY <1>4, <1>5, <1>6

LEMMA SpinLockLocks ==
  ASSUME LocksInv, NEW t \in Tasks, t # 0, SpinLock(t), UNCHANGED <<torn, keyed>>
  PROVE  LocksInv'
<1> USE DEF LocksInv
<1>1. /\ pc[t] = "spin_lock" /\ on[t] = "pages"
      /\ pc' = [pc EXCEPT ![t] = IF lock["pages"] = eax[t] THEN "got_lock" ELSE "free"]
      /\ UNCHANGED <<lock, level, on, eax, inside, depth, contended>>
  BY DEF SpinLock, Goto, own, Points
<1>2. /\ pc'[t] = (IF lock["pages"] = eax[t] THEN "got_lock" ELSE "free")
      /\ \A u \in Tasks : u # t => pc'[u] = pc[u]
  BY <1>1 DEF LockTypes
<1>3. LockTypes'  BY <1>1 DEF LockTypes
<1>4. Points'  BY <1>1, <1>2 DEF Points, Locks, Semaphores, NoLock
<1>5. Alone'
  <2>1. \A k \in Semaphores : Owns(t, k)' <=> Owns(t, k)
    BY <1>1, <1>2 DEF Owns
  <2>2. PagesUndisturbed => (OwnsPages(t)' <=> OwnsPages(t)) /\ eax[t] = t
    <3> SUFFICES ASSUME PagesUndisturbed
                 PROVE  (OwnsPages(t)' <=> OwnsPages(t)) /\ eax[t] = t
      OBVIOUS
    <3>1. eax[t] = t  BY <1>1 DEF Alone, PagesAlone
    <3>2. lock["pages"] = t => OwnsPages(t)  BY DEF Alone, PagesAlone
    <3>3. OwnsPages(t) => lock["pages"] = t  BY DEF Alone, PagesAlone
    <3> QED  BY <1>1, <1>2, <3>1, <3>2, <3>3 DEF OwnsPages
  <2>3. PagesUndisturbed' => PagesUndisturbed  BY <1>1 DEF PagesUndisturbed
  <2>4. \A k \in Semaphores : on[t] # k  BY <1>1 DEF Semaphores
  <2> QED  BY <1>1, <1>2, <1>3, <2>1, <2>2, <2>3, <2>4, NobodyElse
<1> QED  BY <1>3, <1>4, <1>5

LEMMA FreeLocks ==
  ASSUME LocksInv, NEW t \in Tasks, t # 0, Free(t), UNCHANGED <<torn, keyed>>
  PROVE  LocksInv'
<1> USE DEF LocksInv
<1>1. /\ pc[t] = "free" /\ on[t] \in Locks
      /\ pc' = [pc EXCEPT ![t] = "get_lock"]
      /\ UNCHANGED <<lock, level, on, eax, inside, depth, contended>>
  BY DEF Free, Goto, own, Points
<1>2. pc'[t] = "get_lock" /\ \A u \in Tasks : u # t => pc'[u] = pc[u]
  BY <1>1 DEF LockTypes
<1>3. LockTypes'  BY <1>1 DEF LockTypes
<1>4. Points'  BY <1>1, <1>2 DEF Points
<1>5. Alone'
  <2>1. \A k \in Semaphores : Owns(t, k)' <=> Owns(t, k)
    BY <1>1, <1>2 DEF Owns
  <2>2. OwnsPages(t)' <=> OwnsPages(t)  BY <1>1, <1>2 DEF OwnsPages
  <2>3. ~keyed => \A l \in Semaphores \ contended : on[t] = l => eax[t] # 0
    BY <1>1 DEF Alone, SemaphoresAlone
  <2>4. PagesUndisturbed => (on[t] = "pages" => eax[t] = t)
    BY <1>1 DEF Alone, PagesAlone
  <2>5. PagesUndisturbed' => PagesUndisturbed  BY <1>1 DEF PagesUndisturbed
  <2> QED  BY <1>1, <1>2, <1>3, <2>1, <2>2, <2>3, <2>4, <2>5, NobodyElse
<1> QED  BY <1>3, <1>4, <1>5

LEMMA FreeYieldsLocks ==
  ASSUME LocksInv, NEW t \in Tasks, t # 0, FreeYields(t), UNCHANGED <<torn, keyed>>
  PROVE  LocksInv'
<1> USE DEF LocksInv
<1>1. /\ pc[t] = "free" /\ on[t] \in Locks
      /\ pc' = [pc EXCEPT ![t] = IF on[t] = "pages" THEN "spin_lock" ELSE "free"]
      /\ eax' = [eax EXCEPT ![t] = 0]
      /\ contended' = contended \cup {on[t]}
      /\ UNCHANGED <<lock, level, on, inside, depth>>
  BY DEF FreeYields, Goto, Mutex, own, Points
<1>2. /\ pc'[t] = (IF on[t] = "pages" THEN "spin_lock" ELSE "free")
      /\ \A u \in Tasks : u # t => pc'[u] = pc[u] /\ eax'[u] = eax[u]
  BY <1>1 DEF LockTypes
<1>3. LockTypes'  BY <1>1 DEF LockTypes, Values
<1>4. Points'  BY <1>1, <1>2 DEF Points, Locks
<1>5. Alone'
  <2>1. \A k \in Semaphores : Owns(t, k)' <=> Owns(t, k)
    BY <1>1, <1>2 DEF Owns
  <2>2. OwnsPages(t)' <=> OwnsPages(t)  BY <1>1, <1>2 DEF OwnsPages
  <2>3. \A l \in Semaphores \ contended' : on[t] # l  BY <1>1
  <2>4. PagesUndisturbed' => on[t] # "pages"  BY <1>1 DEF PagesUndisturbed
  <2>5. pc'[t] # "release"  BY <1>2
  <2> QED  BY <1>1, <1>2, <1>3, <2>1, <2>2, <2>3, <2>4, <2>5, NobodyElse
<1> QED  BY <1>3, <1>4, <1>5

\* One lock for all, the mutex: no semaphore is concerned.
LEMMA SemaphoresFrame ==
  ASSUME LocksInv, NEW t \in Tasks,
         \A l \in Semaphores : lock'[l] = lock[l], keyed' = keyed,
         contended \subseteq contended',
         \A u \in Tasks : u # t =>
           /\ pc'[u] = pc[u] /\ on'[u] = on[u] /\ eax'[u] = eax[u]
           /\ inside'[u] = inside[u],
         on[t] \notin Semaphores, on'[t] \notin Semaphores, inside'[t] = inside[t]
  PROVE  SemaphoresOwned' /\ SemaphoresAlone'
<1> USE DEF LocksInv, Alone
<1>1. ASSUME NEW u \in Tasks, NEW l \in Semaphores
      PROVE  /\ Owns(u, l)' <=> Owns(u, l)
             /\ on'[u] = l \/ inside'[u] = l <=> on[u] = l \/ inside[u] = l
             /\ on'[u] = l => on[u] = l /\ pc'[u] = pc[u] /\ eax'[u] = eax[u]
  <2>1. CASE u = t  BY <2>1 DEF Owns
  <2>2. CASE u # t  BY <2>2 DEF Owns
  <2> QED  BY <2>1, <2>2
<1>2. SemaphoresOwned'  BY <1>1 DEF SemaphoresOwned
<1>3. SemaphoresAlone'  BY <1>1 DEF SemaphoresAlone
<1> QED  BY <1>2, <1>3

\* One of the semaphores: the mutex is not concerned.
LEMMA PagesFrame ==
  ASSUME LocksInv, NEW t \in Tasks,
         lock'["pages"] = lock["pages"], level' = level,
         contended \subseteq contended', UNCHANGED <<torn, keyed, depth>>,
         \A u \in Tasks : u # t =>
           pc'[u] = pc[u] /\ on'[u] = on[u] /\ eax'[u] = eax[u],
         on[t] # "pages", on'[t] # "pages",
         pc[t] \notin {"zero", "got_lock", "release"},
         pc'[t] \notin {"zero", "got_lock", "release"}
  PROVE  PagesAlone'
<1> USE DEF LocksInv, Alone
<1>1. ASSUME NEW u \in Tasks  PROVE OwnsPages(u)' <=> OwnsPages(u)
  <2>1. CASE u = t  BY <2>1 DEF OwnsPages
  <2>2. CASE u # t  BY <2>2 DEF OwnsPages
  <2> QED  BY <2>1, <2>2
<1> SUFFICES ASSUME PagesUndisturbed' PROVE PagesAlone'  BY DEF PagesAlone
<1>2. PagesUndisturbed  BY DEF PagesUndisturbed
<1>3. /\ lock["pages"] = 0 => level = 0
      /\ lock["pages"] # 0 => lock["pages"] \in Tasks /\ OwnsPages(lock["pages"])'
      /\ \A u \in Tasks : OwnsPages(u)' => lock["pages"] = u /\ level = depth[u]
  BY <1>1, <1>2 DEF PagesAlone
<1>4. ASSUME NEW u \in Tasks
      PROVE  /\ on'[u] = "pages" /\ pc'[u] \in {"spin_lock", "free", "get_lock"} =>
                  eax'[u] = u
             /\ on'[u] = "pages" /\ pc'[u] = "test" => eax'[u] = 0
             /\ on'[u] = "pages" /\ pc'[u] \in {"test", "zero"} => depth[u] = 0
             /\ pc'[u] = "release" => depth[u] = 0
  <2>1. CASE u = t  BY <2>1
  <2>2. CASE u # t  BY <1>2, <2>2 DEF PagesAlone
  <2> QED  BY <2>1, <2>2
<1> QED  BY <1>3, <1>4 DEF PagesAlone

LEMMA GetLockLocks ==
  ASSUME LocksInv, NEW t \in Tasks, t # 0, GetLock(t), UNCHANGED <<torn, keyed>>
  PROVE  LocksInv'
<1> USE DEF LocksInv
<1>0. pc[t] = "get_lock" /\ on[t] \in Locks  BY DEF GetLock, Goto, Points
<1> PICK l \in Locks : l = on[t]  BY <1>0
<1>1. /\ pc[t] = "get_lock" /\ on[t] = l
      /\ pc' = [pc EXCEPT ![t] = "test"]
      /\ lock' = [lock EXCEPT ![l] = eax[t]]
      /\ eax' = [eax EXCEPT ![t] = lock[l]]
      /\ contended' = contended \cup (IF l = "pages" /\ lock["pages"] # 0
                                        THEN {"pages"} ELSE {})
      /\ UNCHANGED <<level, on, inside, depth>>
  BY DEF GetLock, Goto, Mutex, Taken, own, Points
<1>2. /\ pc'[t] = "test" /\ eax'[t] = lock[l]
      /\ \A u \in Tasks : u # t => pc'[u] = pc[u] /\ eax'[u] = eax[u]
      /\ lock'[l] = eax[t] /\ \A k \in Locks : k # l => lock'[k] = lock[k]
  BY <1>1 DEF LockTypes
<1>3. LockTypes'
  <2>1. "pages" \in Locks  BY DEF Locks
  <2>2. lock' \in [Locks -> Values] /\ eax' \in [Tasks -> Values]
        /\ contended' \in SUBSET Locks
    BY <1>1, <2>1 DEF LockTypes
  <2> QED  BY <1>1, <2>2 DEF LockTypes
<1>4. Points'  BY <1>1, <1>2 DEF Points
<1>5. CASE l = "pages"
  <2>1. "pages" \notin Semaphores  BY DEF Semaphores
  <2>2. \A k \in Semaphores : k \in Locks /\ k # l  BY <1>5, <2>1 DEF Locks
  <2>3. SemaphoresOwned' /\ SemaphoresAlone'
    BY <1>1, <1>2, <1>5, <2>1, <2>2, SemaphoresFrame
  <2>4. PagesAlone'
    <3> SUFFICES ASSUME PagesUndisturbed' PROVE PagesAlone'  BY DEF PagesAlone
    <3>1. PagesUndisturbed /\ lock["pages"] = 0
      BY <1>1, <1>5 DEF PagesUndisturbed
    <3>2. level = 0 /\ eax[t] = t /\ \A u \in Tasks : ~OwnsPages(u) \/ u = 0
      BY <1>1, <1>5, <3>1 DEF Alone, PagesAlone
    <3>3. \A u \in Tasks : ~OwnsPages(u)  BY <3>2, ReaperAssumption DEF Idle
    <3>4. lock'["pages"] = t /\ eax'[t] = 0  BY <1>2, <1>5, <3>1, <3>2
    <3>5. depth[t] = 0  BY <3>3 DEF OwnsPages, LockTypes, MaxDepth
    <3>6. OwnsPages(t)'  BY <1>1, <1>2, <1>5, <3>4 DEF OwnsPages
    <3>7. \A u \in Tasks : u # t => ~OwnsPages(u)'
      BY <1>1, <1>2, <3>3 DEF OwnsPages
    <3>8. \A u \in Tasks :
            /\ on'[u] = "pages" /\ pc'[u] \in {"spin_lock", "free", "get_lock"} =>
                 eax'[u] = u
            /\ on'[u] = "pages" /\ pc'[u] = "test" => eax'[u] = 0
            /\ on'[u] = "pages" /\ pc'[u] \in {"test", "zero"} => depth'[u] = 0
            /\ pc'[u] = "release" => depth'[u] = 0
      BY <1>1, <1>2, <3>1, <3>4, <3>5 DEF Alone, PagesAlone
    <3> QED  BY <1>1, <3>2, <3>4, <3>5, <3>6, <3>7, <3>8 DEF PagesAlone
  <2> QED  BY <1>3, <1>4, <2>3, <2>4 DEF Alone
<1>6. CASE l \in Semaphores
  <2>0. l # "pages"  BY <1>6 DEF Semaphores
  <2>1. PagesAlone'
    <3>1. "pages" \in Locks  BY DEF Locks
    <3> QED  BY <1>1, <1>2, <2>0, <3>1, PagesFrame
  <2>2. \A u \in Tasks : \A k \in Semaphores : u # t \/ k # l =>
          (Owns(u, k)' <=> Owns(u, k))
    BY <1>1, <1>2 DEF Owns
  <2>3. inside[t] = NoLock /\ ~Owns(t, l)
    BY <1>1, <1>6 DEF Points, Owns, Semaphores, NoLock
  <2>4. lock[l] = 0 => Owns(t, l)'  BY <1>1, <1>2 DEF Owns
  <2>5. SemaphoresOwned'
    <3> SUFFICES ASSUME NEW k \in Semaphores, lock'[k] # 0
                 PROVE  /\ \E u \in Tasks : on'[u] = k \/ inside'[u] = k
                        /\ ~keyed => \E u \in Tasks : Owns(u, k)'
      BY DEF SemaphoresOwned
    <3>1. CASE k = l
      <4>1. on'[t] = k  BY <1>1, <3>1
      <4>2. lock[l] # 0 /\ ~keyed => \E u \in Tasks : Owns(u, l)
        BY <1>6 DEF Alone, SemaphoresOwned
      <4>3. ~keyed => \E u \in Tasks : Owns(u, l)'
        BY <1>6, <2>2, <2>3, <2>4, <3>1, <4>2
      <4> QED  BY <3>1, <4>1, <4>3
    <3>2. CASE k # l
      <4>1. lock[k] # 0  BY <1>2, <3>2 DEF Locks
      <4> QED  BY <1>1, <2>2, <3>2, <4>1 DEF Alone, SemaphoresOwned
    <3> QED  BY <3>1, <3>2
  <2>6. SemaphoresAlone'
    <3> SUFFICES ASSUME ~keyed, NEW k \in Semaphores, k \notin contended,
                        NEW u \in Tasks
                 PROVE  /\ on'[u] = k /\ pc'[u] \in {"free", "get_lock"} => eax'[u] # 0
                        /\ Owns(u, k)' => lock'[k] # 0
                        /\ \A v \in Tasks : Owns(u, k)' /\ Owns(v, k)' => u = v
      BY <1>1 DEF SemaphoresAlone
    <3>0. \A w \in Tasks :
            /\ on[w] = k /\ pc[w] \in {"free", "get_lock"} => eax[w] # 0
            /\ Owns(w, k) => lock[k] # 0
            /\ \A v \in Tasks : Owns(w, k) /\ Owns(v, k) => w = v
      BY DEF Alone, SemaphoresAlone
    <3>1. on'[u] = k /\ pc'[u] \in {"free", "get_lock"} => eax'[u] # 0
      BY <1>1, <1>2, <3>0
    <3>2. CASE k # l
      <4>1. lock'[k] = lock[k]  BY <1>2, <3>2 DEF Locks
      <4> QED  BY <2>2, <3>0, <3>1, <3>2, <4>1
    <3>3. CASE k = l
      <4>1. lock'[k] # 0  BY <1>1, <1>2, <3>0, <3>3
      <4>2. Owns(t, l)' => lock[l] = 0  BY <1>1, <1>2, <2>3 DEF Owns
      <4>3. \A w \in Tasks : Owns(w, k)' /\ w # t => Owns(w, k)  BY <1>6, <2>2
      <4>4. ASSUME NEW v \in Tasks, Owns(u, k)', Owns(v, k)'  PROVE u = v
        <5>2. CASE lock[k] = 0
          <6>1. \A w \in Tasks : ~Owns(w, k)  BY <3>0, <5>2
          <6> QED  BY <4>3, <4>4, <6>1
        <5>3. CASE lock[k] # 0
          <6>1. ~Owns(t, k)'  BY <3>3, <4>2, <5>3
          <6> QED  BY <3>0, <4>3, <4>4, <6>1
        <5> QED  BY <5>2, <5>3
      <4> QED  BY <3>1, <4>1, <4>4
    <3> QED  BY <3>2, <3>3
  <2> QED  BY <1>3, <1>4, <2>1, <2>5, <2>6 DEF Alone
<1> QED  BY <1>1, <1>5, <1>6 DEF Locks

LEMMA TestLocks ==
  ASSUME LocksInv, NEW t \in Tasks, t # 0, Test(t), UNCHANGED <<torn, keyed>>
  PROVE  LocksInv'
<1> USE DEF LocksInv
<1>0. /\ pc[t] = "test" /\ on[t] \in Locks
      /\ UNCHANGED <<lock, level, depth, contended>>
  BY DEF Test, Leave, Goto, Points
<1>1. CASE eax[t] = 0 /\ on[t] # "pages"
  <2>1. /\ pc' = [pc EXCEPT ![t] = "code"] /\ on' = [on EXCEPT ![t] = NoLock]
        /\ eax' = [eax EXCEPT ![t] = 0] /\ inside' = [inside EXCEPT ![t] = on[t]]
    BY <1>1 DEF Test, Leave, Goto, Mutex
  <2>2. /\ pc'[t] = "code" /\ on'[t] = NoLock /\ eax'[t] = 0 /\ inside'[t] = on[t]
        /\ \A u \in Tasks : u # t => /\ pc'[u] = pc[u] /\ on'[u] = on[u]
                                     /\ eax'[u] = eax[u] /\ inside'[u] = inside[u]
    BY <2>1 DEF LockTypes
  <2>3. on[t] \in Semaphores /\ inside[t] = NoLock /\ depth[t] = 0
    BY <1>0, <1>1 DEF Locks, Points
  <2>4. LockTypes'  BY <1>0, <2>1, <2>3 DEF LockTypes, Values
  <2>5. Points'  BY <1>0, <2>2, <2>3 DEF Points, Locks, Semaphores, NoLock
  <2>6. \A k \in Semaphores : Owns(t, k)' <=> Owns(t, k)
    BY <1>0, <1>1, <2>2, <2>3 DEF Owns, Semaphores, NoLock
  <2>7. OwnsPages(t)' <=> OwnsPages(t)
    BY <1>0, <1>1, <2>2, <2>3 DEF OwnsPages
  <2>8. /\ \A k \in Semaphores : on[t] = k \/ inside[t] = k => inside'[t] = k
        /\ \A k \in Semaphores : on'[t] # k
        /\ pc'[t] # "release" /\ on'[t] # "pages"
    BY <2>2, <2>3 DEF Semaphores, NoLock
  <2>9. Alone'
    BY <1>0, <2>2, <2>4, <2>6, <2>7, <2>8, NobodyElse
  <2> QED  BY <2>4, <2>5, <2>9
<1>2. CASE eax[t] # 0 \/ on[t] = "pages"
  <2>1. /\ pc' = [pc EXCEPT ![t] =
                    IF eax[t] = 0 THEN "zero"
                    ELSE IF on[t] = "pages" THEN "spin_lock" ELSE "free"]
        /\ UNCHANGED <<on, eax, inside>>
    BY <1>2 DEF Test, Leave, Goto, Mutex
  <2>2. /\ pc'[t] = (IF eax[t] = 0 THEN "zero"
                     ELSE IF on[t] = "pages" THEN "spin_lock" ELSE "free")
        /\ \A u \in Tasks : u # t => pc'[u] = pc[u]
    BY <2>1 DEF LockTypes
  <2>3. LockTypes'  BY <1>0, <2>1 DEF LockTypes
  <2>4. Points'
    BY <1>0, <1>2, <2>1, <2>2 DEF Points, Locks, Semaphores, NoLock
  <2>5. \A k \in Semaphores : Owns(t, k)' <=> Owns(t, k)
    BY <1>0, <1>2, <2>1, <2>2 DEF Owns, Semaphores
  <2>6. PagesUndisturbed => (on[t] = "pages" => eax[t] = 0 /\ depth[t] = 0)
    BY <1>0 DEF Alone, PagesAlone
  <2>7. OwnsPages(t)' <=> OwnsPages(t)
    BY <1>0, <1>2, <2>1, <2>2 DEF OwnsPages
  <2>8. PagesUndisturbed' => PagesUndisturbed  BY <1>0 DEF PagesUndisturbed
  <2>9. pc'[t] \in {"free", "get_lock"} => eax[t] # 0  BY <2>2
  <2>10. on[t] # "pages" => pc'[t] = "free"  BY <1>2, <2>2
  <2>11. Alone'
    BY <1>0, <2>1, <2>2, <2>3, <2>5, <2>6, <2>7, <2>8, <2>9, <2>10, NobodyElse
  <2> QED  BY <2>3, <2>4, <2>11
<1> QED  BY <1>1, <1>2

\* What the owner of the mutex does to it, and to its own state.
LEMMA OwnerSteps ==
  ASSUME LocksInv, LockTypes', NEW t \in Tasks, t # 0, OwnsPages(t),
         UNCHANGED <<contended, torn, keyed>>,
         \A l \in Semaphores : lock'[l] = lock[l],
         \A u \in Tasks : u # t =>
           /\ pc'[u] = pc[u] /\ on'[u] = on[u] /\ eax'[u] = eax[u]
           /\ inside'[u] = inside[u] /\ depth'[u] = depth[u],
         on[t] \notin Semaphores, on'[t] \notin Semaphores, inside'[t] = inside[t],
         PagesUndisturbed =>
           /\ \/ OwnsPages(t)' /\ lock'["pages"] = t /\ level' = depth'[t]
              \/ ~OwnsPages(t)' /\ lock'["pages"] = 0 /\ level' = 0
           /\ pc'[t] \in {"code", "got_lock"} \/ (pc'[t] = "release" /\ depth'[t] = 0)
  PROVE  Alone'
<1> USE DEF LocksInv, Alone
<1>1. SemaphoresOwned' /\ SemaphoresAlone'  BY SemaphoresFrame
<1>2. PagesAlone'
  <2> SUFFICES ASSUME PagesUndisturbed' PROVE PagesAlone'  BY DEF PagesAlone
  <2>1. PagesUndisturbed  BY DEF PagesUndisturbed
  <2>2. \A u \in Tasks : u # t => ~OwnsPages(u)  BY <2>1 DEF PagesAlone
  <2>3. \A u \in Tasks : u # t => ~OwnsPages(u)'  BY <2>2 DEF OwnsPages
  <2>4. \A u \in Tasks :
          /\ on'[u] = "pages" /\ pc'[u] \in {"spin_lock", "free", "get_lock"} =>
               eax'[u] = u
          /\ on'[u] = "pages" /\ pc'[u] = "test" => eax'[u] = 0
          /\ on'[u] = "pages" /\ pc'[u] \in {"test", "zero"} => depth'[u] = 0
          /\ pc'[u] = "release" => depth'[u] = 0
    BY <2>1 DEF PagesAlone
  <2> QED  BY <2>1, <2>3, <2>4 DEF PagesAlone
<1> QED  BY <1>1, <1>2

LEMMA ZeroLocks ==
  ASSUME LocksInv, NEW t \in Tasks, t # 0, Zero(t), UNCHANGED <<torn, keyed>>
  PROVE  LocksInv'
<1> USE DEF LocksInv
<1>1. /\ pc[t] = "zero" /\ on[t] = "pages"
      /\ pc' = [pc EXCEPT ![t] = "got_lock"] /\ level' = 0
      /\ UNCHANGED <<lock, on, eax, inside, depth, contended>>
  BY DEF Zero, Goto, own, Points
<1>2. pc'[t] = "got_lock" /\ \A u \in Tasks : u # t => pc'[u] = pc[u]
  BY <1>1 DEF LockTypes
<1>3. LockTypes'  BY <1>1 DEF LockTypes
<1>4. Points'  BY <1>1, <1>2 DEF Points
<1>5. OwnsPages(t) /\ OwnsPages(t)'  BY <1>1, <1>2 DEF OwnsPages
<1>6. PagesUndisturbed => lock["pages"] = t /\ depth[t] = 0
  BY <1>1, <1>5 DEF Alone, PagesAlone
<1>7. on[t] \notin Semaphores  BY <1>1 DEF Semaphores
<1>8. Alone'  BY <1>1, <1>2, <1>3, <1>5, <1>6, <1>7, OwnerSteps
<1> QED  BY <1>3, <1>4, <1>8

LEMMA GotLockLocks ==
  ASSUME LocksInv, NEW t \in Tasks, t # 0, GotLock(t), UNCHANGED <<torn, keyed>>
  PROVE  LocksInv'
<1> USE DEF LocksInv
<1>1. /\ pc[t] = "got_lock" /\ on[t] = "pages" /\ depth[t] \in {0, 1}
      /\ pc' = [pc EXCEPT ![t] = "code"] /\ on' = [on EXCEPT ![t] = NoLock]
      /\ eax' = [eax EXCEPT ![t] = 0]
      /\ level' = (level + 1) % 65536
      /\ depth' = [depth EXCEPT ![t] = @ + 1]
      /\ UNCHANGED <<lock, inside, contended>>
  BY DEF GotLock, Leave, Goto, Points, LockTypes, MaxDepth
<1>2. /\ pc'[t] = "code" /\ on'[t] = NoLock /\ depth'[t] = depth[t] + 1
      /\ \A u \in Tasks : u # t => /\ pc'[u] = pc[u] /\ on'[u] = on[u]
                                   /\ eax'[u] = eax[u] /\ depth'[u] = depth[u]
  BY <1>1 DEF LockTypes
<1>3. LockTypes'
  <2>1. level' \in Nat /\ depth' \in [Tasks -> 0..MaxDepth] /\ eax' \in [Tasks -> Values]
    BY <1>1 DEF LockTypes, MaxDepth, Values
  <2> QED  BY <1>1, <2>1 DEF LockTypes
<1>4. Points'  BY <1>1, <1>2 DEF Points, Locks, Semaphores, NoLock
<1>5. OwnsPages(t) /\ OwnsPages(t)'  BY <1>1, <1>2 DEF OwnsPages
<1>6. PagesUndisturbed => lock["pages"] = t /\ level = depth[t]
  BY <1>5 DEF Alone, PagesAlone
<1>7. PagesUndisturbed => level' = depth'[t]  BY <1>1, <1>2, <1>6
<1>8. on[t] \notin Semaphores /\ on'[t] \notin Semaphores
  BY <1>1, <1>2 DEF Semaphores, NoLock
<1>9. Alone'  BY <1>1, <1>2, <1>3, <1>5, <1>6, <1>7, <1>8, OwnerSteps
<1> QED  BY <1>3, <1>4, <1>9

LEMMA ReleaseLevelLocks ==
  ASSUME LocksInv, NEW t \in Tasks, t # 0, ReleaseLevel(t), UNCHANGED <<torn, keyed>>
  PROVE  LocksInv'
<1> USE DEF LocksInv
<1>1. /\ pc[t] = "code" /\ on[t] = NoLock /\ depth[t] \in {1, 2}
      /\ pc' = [pc EXCEPT ![t] = IF level = 1 THEN "release" ELSE "code"]
      /\ level' = (level - 1) % 65536
      /\ depth' = [depth EXCEPT ![t] = @ - 1]
      /\ UNCHANGED <<lock, on, eax, inside, contended>>
  BY DEF ReleaseLevel, LastLevel, Goto, Points, LockTypes, MaxDepth
<1>2. /\ pc'[t] = (IF level = 1 THEN "release" ELSE "code")
      /\ depth'[t] = depth[t] - 1
      /\ \A u \in Tasks : u # t => pc'[u] = pc[u] /\ depth'[u] = depth[u]
  BY <1>1 DEF LockTypes
<1>3. LockTypes'
  <2>1. level' \in Nat /\ depth' \in [Tasks -> 0..MaxDepth]
    BY <1>1 DEF LockTypes, MaxDepth
  <2> QED  BY <1>1, <2>1 DEF LockTypes
<1>4. Points'  BY <1>1, <1>2 DEF Points, Locks, Semaphores, NoLock
<1>5. OwnsPages(t)  BY <1>1 DEF OwnsPages
<1>6. PagesUndisturbed => lock["pages"] = t /\ level = depth[t]
  BY <1>5 DEF Alone, PagesAlone
<1>7. PagesUndisturbed => /\ level' = depth'[t] /\ OwnsPages(t)'
                          /\ pc'[t] = "code" \/ (pc'[t] = "release" /\ depth'[t] = 0)
  BY <1>1, <1>2, <1>6 DEF OwnsPages
<1>8. on[t] \notin Semaphores  BY <1>1 DEF Semaphores, NoLock
<1>9. Alone'  BY <1>1, <1>2, <1>3, <1>5, <1>6, <1>7, <1>8, OwnerSteps
<1> QED  BY <1>3, <1>4, <1>9

LEMMA ReleaseLockLocks ==
  ASSUME LocksInv, NEW t \in Tasks, t # 0, ReleaseLock(t), UNCHANGED <<torn, keyed>>
  PROVE  LocksInv'
<1> USE DEF LocksInv
<1>1. /\ pc[t] = "release" /\ on[t] = NoLock
      /\ pc' = [pc EXCEPT ![t] = "code"] /\ on' = [on EXCEPT ![t] = NoLock]
      /\ eax' = [eax EXCEPT ![t] = 0]
      /\ lock' = [lock EXCEPT !["pages"] = 0]
      /\ UNCHANGED <<level, inside, depth, contended>>
  BY DEF ReleaseLock, Released, Leave, Goto, own, Points
<1>2. /\ pc'[t] = "code" /\ on'[t] = NoLock /\ lock'["pages"] = 0
      /\ \A l \in Semaphores : lock'[l] = lock[l]
      /\ \A u \in Tasks : u # t => pc'[u] = pc[u] /\ on'[u] = on[u] /\ eax'[u] = eax[u]
  BY <1>1 DEF LockTypes, Locks, Semaphores
<1>3. LockTypes'
  <2>1. lock' \in [Locks -> Values] /\ eax' \in [Tasks -> Values]
    BY <1>1 DEF LockTypes, Values
  <2> QED  BY <1>1, <2>1 DEF LockTypes
<1>4. Points'  BY <1>1, <1>2 DEF Points, Locks, Semaphores, NoLock
<1>5. OwnsPages(t)  BY <1>1 DEF OwnsPages
<1>6. PagesUndisturbed => depth[t] = 0 /\ level = 0
  BY <1>1, <1>5 DEF Alone, PagesAlone
<1>7. PagesUndisturbed => ~OwnsPages(t)'
  BY <1>1, <1>2, <1>6 DEF OwnsPages
<1>8. on[t] \notin Semaphores  BY <1>1 DEF Semaphores, NoLock
<1>9. Alone'  BY <1>1, <1>2, <1>3, <1>5, <1>6, <1>7, <1>8, OwnerSteps
<1> QED  BY <1>3, <1>4, <1>9

LEMMA ReleaseSemaphoreLocks ==
  ASSUME LocksInv, NEW t \in Tasks, t # 0, ReleaseSemaphore(t), UNCHANGED <<torn, keyed>>
  PROVE  LocksInv'
<1> USE DEF LocksInv
<1>0. inside[t] \in Semaphores  BY DEF ReleaseSemaphore, LockTypes
<1> PICK l \in Semaphores : l = inside[t]  BY <1>0
<1>1. /\ pc[t] = "code" /\ on[t] = NoLock /\ inside[t] = l
      /\ pc' = [pc EXCEPT ![t] = "code"] /\ on' = [on EXCEPT ![t] = NoLock]
      /\ eax' = [eax EXCEPT ![t] = 0] /\ inside' = [inside EXCEPT ![t] = NoLock]
      /\ lock' = [lock EXCEPT ![l] = 0]
      /\ UNCHANGED <<level, depth, contended>>
  BY DEF ReleaseSemaphore, Released, Leave, Goto, Points
<1>2. /\ pc'[t] = "code" /\ on'[t] = NoLock /\ inside'[t] = NoLock
      /\ lock'[l] = 0 /\ \A k \in Locks : k # l => lock'[k] = lock[k]
      /\ \A u \in Tasks : u # t => /\ pc'[u] = pc[u] /\ on'[u] = on[u]
                                   /\ eax'[u] = eax[u] /\ inside'[u] = inside[u]
  BY <1>1 DEF LockTypes, Locks
<1>3. LockTypes'
  <2>1. lock' \in [Locks -> Values] /\ eax' \in [Tasks -> Values]
    BY <1>1 DEF LockTypes, Values
  <2> QED  BY <1>1, <2>1 DEF LockTypes
<1>4. Points'  BY <1>1, <1>2 DEF Points, Locks, Semaphores, NoLock
<1>5. PagesAlone'
  <2>1. "pages" \in Locks /\ "pages" # l /\ on[t] # "pages" /\ on'[t] # "pages"
    BY <1>1, <1>2 DEF Locks, Semaphores, NoLock
  <2> QED  BY <1>1, <1>2, <2>1, PagesFrame
<1>6. \A u \in Tasks : \A k \in Semaphores : u # t \/ k # l =>
        (Owns(u, k)' <=> Owns(u, k))
  BY <1>1, <1>2 DEF Owns, Semaphores, NoLock
<1>7. ~Owns(t, l)' /\ Owns(t, l)
  BY <1>1, <1>2 DEF Owns, Semaphores, NoLock
<1>8. SemaphoresOwned'
  <2> SUFFICES ASSUME NEW k \in Semaphores, lock'[k] # 0
               PROVE  /\ \E u \in Tasks : on'[u] = k \/ inside'[u] = k
                      /\ ~keyed => \E u \in Tasks : Owns(u, k)'
    BY DEF SemaphoresOwned
  <2>1. k # l /\ lock[k] # 0  BY <1>2 DEF Locks
  <2>2. ~keyed => \E u \in Tasks : Owns(u, k)'
    BY <1>6, <2>1 DEF Alone, SemaphoresOwned
  <2>3. PICK u \in Tasks : on[u] = k \/ inside[u] = k
    BY <2>1 DEF Alone, SemaphoresOwned
  <2>4. u # t \/ FALSE  BY <1>1, <2>1, <2>3 DEF Semaphores, NoLock
  <2>5. on'[u] = k \/ inside'[u] = k  BY <1>2, <2>3, <2>4
  <2> QED  BY <2>2, <2>5
<1>9. SemaphoresAlone'
  <2> SUFFICES ASSUME ~keyed, NEW k \in Semaphores, k \notin contended,
                      NEW u \in Tasks
               PROVE  /\ on'[u] = k /\ pc'[u] \in {"free", "get_lock"} => eax'[u] # 0
                      /\ Owns(u, k)' => lock'[k] # 0
                      /\ \A v \in Tasks : Owns(u, k)' /\ Owns(v, k)' => u = v
    BY <1>1 DEF SemaphoresAlone
  <2>0. \A w \in Tasks :
          /\ on[w] = k /\ pc[w] \in {"free", "get_lock"} => eax[w] # 0
          /\ Owns(w, k) => lock[k] # 0
          /\ \A v \in Tasks : Owns(w, k) /\ Owns(v, k) => w = v
    BY DEF Alone, SemaphoresAlone
  <2>1. on'[u] = k /\ pc'[u] \in {"free", "get_lock"} => eax'[u] # 0
    BY <1>2, <2>0 DEF Semaphores, NoLock
  <2>2. CASE k # l
    <3>1. lock'[k] = lock[k]  BY <1>2, <2>2 DEF Locks
    <3> QED  BY <1>6, <2>0, <2>1, <2>2, <3>1
  <2>3. CASE k = l
    <3>1. \A w \in Tasks : ~Owns(w, k)'  BY <1>6, <1>7, <2>0, <2>3
    <3> QED  BY <2>1, <3>1
  <2> QED  BY <2>2, <2>3
<1> QED  BY <1>3, <1>4, <1>5, <1>8, <1>9 DEF Alone

\* irq1_handler: nothing is said any more but that the semaphores are wanted.
LEMMA KeyLocks ==
  ASSUME LocksInv, NEW t \in Tasks, Key(t)
  PROVE  LocksInv'
<1> USE DEF LocksInv
<1>1. /\ keyed' = TRUE /\ eax' = [eax EXCEPT ![t] = 1]
      /\ UNCHANGED <<lock, level, pc, on, inside, depth, contended, torn>>
  BY DEF Key, own
<1>2. LockTypes'  BY <1>1 DEF LockTypes, Values
<1>3. Points'  BY <1>1 DEF Points
<1>4. Alone'
  BY <1>1 DEF Alone, SemaphoresOwned, SemaphoresAlone, PagesAlone, PagesUndisturbed
<1> QED  BY <1>2, <1>3, <1>4

LEMMA StepLocks ==
  ASSUME Inv, NEW t \in Tasks, Step(t)
  PROVE  LocksInv'
<1>1. LocksInv  BY DEF Inv, LocksInv
<1>2. t # 0 /\ UNCHANGED <<torn, keyed>>
  BY ExecutesFacts DEF Step, Inv
<1> QED
  BY <1>1, <1>2, CallLocks, SpinLockLocks, FreeLocks, FreeYieldsLocks, GetLockLocks,
     TestLocks, ZeroLocks, GotLockLocks, ReleaseSemaphoreLocks, ReleaseLevelLocks,
     ReleaseLockLocks DEF Step

\* An instruction of a task.
LEMMA StepKeeps ==
  ASSUME Inv, NEW t \in Tasks, Step(t)
  PROVE  Inv'
<1> USE DEF Inv
<1>0. ring \in Seq(Tasks) /\ Distinct(ring)  BY DEF TaskTypes
<1>1. /\ t \in Range(ring)
      /\ UNCHANGED <<asleep, doomed_task, exited, irq, freed, overlapped>>
  BY ExecutesFacts DEF Step
<1>2. /\ ring' = ring \/ ring' = Rotated(ring)
      /\ contended \subseteq contended'
  BY DEF Step, Call, SpinLock, Free, FreeYields, GetLock, Test, Zero, GotLock,
         ReleaseSemaphore, ReleaseLevel, ReleaseLock
<1>3. ring' \in Seq(Tasks) /\ Distinct(ring') /\ Range(ring') = Range(ring)
  BY <1>0, <1>2, RotatedRange
<1>4. LockTypes' /\ Points' /\ Alone'  BY StepLocks DEF LocksInv
<1>5. TaskTypes'  BY <1>1, <1>3 DEF TaskTypes
<1>6. Places'
  <2>1. \A u \in Tasks : u # t =>
          pc'[u] = pc[u] /\ inside'[u] = inside[u] /\ depth'[u] = depth[u]
    BY DEF Step, Call, SpinLock, Free, FreeYields, GetLock, Test, Zero, GotLock,
           ReleaseSemaphore, ReleaseLevel, ReleaseLock, Goto, Leave, own, LockTypes
  <2> QED  BY <1>1, <1>3, <2>1 DEF Places, Unlocked
<1>7. FreshWalks'  BY <1>1, <1>2 DEF FreshWalks
<1>8. Walks'  BY <1>1 DEF Walks, Pending
<1> QED  BY <1>4, <1>5, <1>6, <1>7, <1>8

\* irq1_handler
LEMMA KeyKeeps ==
  ASSUME Inv, NEW t \in Tasks, Key(t)
  PROVE  Inv'
<1> USE DEF Inv
<1>1. UNCHANGED <<ring, asleep, doomed_task, exited, irq, freed, overlapped, pc,
                  inside, depth, contended>>
  BY DEF Key, tasks, own
<1>2. LockTypes' /\ Points' /\ Alone'  BY KeyLocks DEF LocksInv
<1>3. TaskTypes' /\ Places' /\ FreshWalks' /\ Walks'
  BY <1>1 DEF TaskTypes, Places, Unlocked, FreshWalks, Walks, Pending
<1> QED  BY <1>2, <1>3

\* What one step of an iteration makes of the handler.
LEMMA NextStepFacts ==
  ASSUME NEW h \in Handlers, h.walking, h.todo # <<>>
  PROVE  /\ NextStep(h) \in Handlers /\ NextStep(h).walking
         /\ ~NextStep(h).yielded
         /\ NextStep(h).todo = IF h.step = "pcb" THEN Tail(h.todo) ELSE h.todo
<1> DEFINE T == Seq(Tasks)
<1>1. h.todo \in T /\ h.step \in {"pages", "stacks", "ms", "pcb"}  BY DEF Handlers
<1>2. Tail(h.todo) \in T  BY <1>1
<1>3. CASE h.step = "pcb"
  <2>1. NextStep(h) = Walk(Tail(h.todo))  BY <1>3 DEF NextStep
  <2> QED  BY <1>2, <1>3, <2>1, WalkFacts
<1>4. CASE h.step # "pcb"
  <2>1. PICK s \in {"stacks", "ms", "pcb"} :
          NextStep(h) = [h EXCEPT !.step = s, !.yielded = FALSE]
    BY <1>1, <1>4 DEF NextStep
  <2> HIDE DEF T
  <2>2. h \in [walking : BOOLEAN, todo : T, step : {"pages", "stacks", "ms", "pcb"},
               yielded : BOOLEAN]
    BY DEF Handlers, T
  <2>3. /\ NextStep(h) \in [walking : BOOLEAN, todo : T,
                            step : {"pages", "stacks", "ms", "pcb"},
                            yielded : BOOLEAN]
        /\ NextStep(h).walking = h.walking /\ NextStep(h).yielded = FALSE
        /\ NextStep(h).todo = h.todo
    BY <2>1, <2>2
  <2> QED  BY <1>4, <2>3 DEF Handlers, T
<1> QED  BY <1>3, <1>4

\* Once or twice through the mutex, when it has been taken by one at a time:
\* its owner finds it as it was, or gone.
LEMMA PagesAfterFacts ==
  ASSUME LocksInv, PagesUndisturbed, NEW c \in Contexts, HandlerAx(c) = c,
         MayEnter("pages", c), NEW m \in PagesAfter(c)
  PROVE  /\ m.lock \in {0, lock["pages"]} /\ m.level \in Nat
         /\ m.lock = lock["pages"] => m.level = level
<1> USE DEF LocksInv, Alone
<1>1. /\ lock["pages"] = 0 \/ lock["pages"] = c
      /\ lock["pages"] = 0 => level = 0
      /\ level \in 0..2
  <2>1. lock["pages"] # 0 => level = depth[lock["pages"]] /\ lock["pages"] \in Tasks
    BY DEF PagesAlone
  <2> QED  BY <2>1 DEF MayEnter, PagesAlone, LockTypes, MaxDepth
<1> DEFINE p == [lock |-> lock["pages"], level |-> level]
           n == Took(p, c)
<1>2. p.lock = lock["pages"] /\ p.level = level  OBVIOUS
<1>3. m = Gave(n) \/ m = Gave(Gave(Took(n, c)))  BY DEF PagesAfter
<1>4. CASE lock["pages"] = c
  <2>1. n.lock = c /\ n.level = level + 1  BY <1>1, <1>2, <1>4 DEF Took
  <2> HIDE DEF n, p
  <2> DEFINE q == Took(n, c)
             r == Gave(q)
  <2>2. q.lock = c /\ q.level = level + 2
    <3>1. n \in [lock : {c}, level : Nat]
      <4>1. p = [lock |-> lock["pages"], level |-> level]  BY DEF p
      <4> QED  BY <1>1, <1>4, <4>1 DEF n, Took
    <3> QED  BY <1>1, <2>1, <3>1 DEF Took
  <2> HIDE DEF q
  <2>3. r.lock = c /\ r.level = level + 1  BY <1>1, <2>2 DEF Gave
  <2>4. /\ Gave(n).lock = (IF level = 0 THEN 0 ELSE c) /\ Gave(n).level = level
    BY <1>1, <2>1 DEF Gave
  <2> HIDE DEF r
  <2>5. /\ Gave(r).lock = (IF level = 0 THEN 0 ELSE c) /\ Gave(r).level = level
    BY <1>1, <2>3 DEF Gave
  <2> QED  BY <1>1, <1>3, <1>4, <2>4, <2>5 DEF r, q
<1>5. CASE lock["pages"] # c
  <2>1. n = [lock |-> c, level |-> 1]  BY <1>2, <1>5 DEF Took
  <2> HIDE DEF n, p
  <2> DEFINE q == Took(n, c)
             r == Gave(q)
  <2>2. q.lock = c /\ q.level = 2  BY <2>1 DEF Took
  <2> HIDE DEF q
  <2>3. r.lock = c /\ r.level = 1  BY <2>2 DEF Gave
  <2>4. Gave(n).lock = 0 /\ Gave(n).level = 0  BY <2>1 DEF Gave
  <2> HIDE DEF r
  <2>5. Gave(r).lock = 0 /\ Gave(r).level = 0  BY <2>3 DEF Gave
  <2> QED  BY <1>1, <1>3, <1>5, <2>4, <2>5 DEF r, q
<1> QED  BY <1>4, <1>5

\* A step of cleanup_doomed_tasks and the locks.
LEMMA CleanLocks ==
  ASSUME Inv, Clean
  PROVE  LocksInv'
<1> USE DEF Inv, LocksInv
<1> DEFINE c == Running
           h == irq[c]
<1>1. c \in Contexts /\ h \in Handlers  BY RunningFacts DEF TaskTypes
<1>2. UNCHANGED <<pc, on, eax, inside, depth, contended, keyed>>
  BY DEF Clean, loop, own
<1>3. h.walking /\ MayEnter(LockOf(h.step), HandlerAx(c))  BY DEF Clean
<1>4. CASE LockOf(h.step) # "pages"
  <2>1. UNCHANGED <<lock, level, torn>>  BY <1>4 DEF Clean
  <2> QED  BY <1>2, <2>1, LocksFrame DEF loop, own, trouble
<1>5. CASE LockOf(h.step) = "pages"
  <2>1. PICK m \in PagesAfter(c) :
          /\ lock' = [lock EXCEPT !["pages"] = m.lock]
          /\ level' = m.level
          /\ torn' = (torn \/ m.lock # lock["pages"])
    BY <1>5 DEF Clean
  <2>2. h.step = "pages"  BY <1>5 DEF LockOf
  <2> HIDE DEF c, h
  <2>3. m.lock \in Values /\ m.level \in Nat
    <3>1. Values = Contexts \cup {1} /\ lock["pages"] \in Values
      BY DEF Values, Contexts, Idle, LockTypes, Locks
    <3>2. HandlerAx(c) \in Values  BY <1>1, <3>1 DEF HandlerAx, Values
    <3> DEFINE R == [lock : Values, level : Nat]
    <3>3. \A x \in R : \A a \in Values : Took(x, a) \in R
      BY DEF Took
    <3>4. \A x \in R : Gave(x) \in R
      BY DEF Gave, Values
    <3>5. [lock |-> lock["pages"], level |-> level] \in R  BY <3>1 DEF LockTypes
    <3>6. c \in Values  BY <1>1, <3>1
    <3> HIDE DEF R
    <3>7. m \in R  BY <3>2, <3>3, <3>4, <3>5, <3>6 DEF PagesAfter
    <3> QED  BY <3>7 DEF R
  <2>4. /\ lock'["pages"] = m.lock
        /\ \A l \in Locks : l # "pages" => lock'[l] = lock[l]
    BY <2>1 DEF LockTypes, Locks
  <2>5. LockTypes'
    <3>1. lock' \in [Locks -> Values]  BY <2>1, <2>3 DEF LockTypes
    <3>2. torn' \in BOOLEAN  BY <2>1 DEF LockTypes
    <3> QED  BY <1>2, <2>1, <2>3, <3>1, <3>2 DEF LockTypes
  <2>6. Points'  BY <1>2 DEF Points
  <2>7. \A t, l : Owns(t, l)' <=> Owns(t, l)  BY <1>2 DEF Owns
  <2>8. \A l \in Semaphores : lock'[l] = lock[l]
    BY <2>4 DEF Locks, Semaphores
  <2>9. SemaphoresOwned' /\ SemaphoresAlone'
    BY <1>2, <2>7, <2>8 DEF Alone, SemaphoresOwned, SemaphoresAlone
  <2>10. PagesAlone'
    <3> SUFFICES ASSUME PagesUndisturbed' PROVE PagesAlone'  BY DEF PagesAlone
    <3>1. PagesUndisturbed /\ m.lock = lock["pages"]
      BY <1>2, <2>1 DEF PagesUndisturbed
    <3>2. HandlerAx(c) = c
      BY <1>1, <1>3, <2>2, <3>1 DEF FreshWalks, PagesUndisturbed, HandlerAx, h
    <3>3. m.level = level
      BY <1>1, <1>3, <1>5, <3>1, <3>2, PagesAfterFacts
    <3>4. lock'["pages"] = lock["pages"] /\ level' = level
      BY <2>1, <2>4, <3>1, <3>3
    <3>5. \A t : OwnsPages(t)' <=> OwnsPages(t)  BY <1>2 DEF OwnsPages
    <3> QED  BY <1>2, <3>1, <3>4, <3>5 DEF Alone, PagesAlone
  <2> QED  BY <2>5, <2>6, <2>9, <2>10 DEF Alone
<1> QED  BY <1>4, <1>5

\* A step of cleanup_doomed_tasks.
LEMMA CleanKeeps ==
  ASSUME Inv, Clean
  PROVE  Inv'
<1> USE DEF Inv
<1> DEFINE c == Running
           h == irq[c]
<1>0. LockTypes' /\ Points' /\ Alone'  BY CleanLocks DEF LocksInv
<1>1. /\ h.walking /\ h.todo # <<>>
      /\ \/ irq' = [irq EXCEPT ![c] = NextStep(h)]
         \/ irq' = [irq EXCEPT ![c].yielded = FALSE] /\ h.step # "pcb"
      /\ freed' = IF h.step = "pcb" THEN [freed EXCEPT ![Head(h.todo)] = @ + 1] ELSE freed
      /\ UNCHANGED <<ring, asleep, doomed_task, exited, pc, inside, depth,
                     overlapped, contended>>
  BY DEF Clean, LockOf, tasks, loop, own
<1>2. c \in Contexts /\ h \in Handlers  BY RunningFacts DEF TaskTypes
<1>3. h.todo \in Seq(Tasks)  BY <1>2 DEF Handlers
<1>4. PICK n : /\ irq' = [irq EXCEPT ![c] = n]
               /\ n \in Handlers /\ n.walking /\ ~n.yielded
               /\ n.todo = IF h.step = "pcb" THEN Tail(h.todo) ELSE h.todo
  <2>1. CASE irq' = [irq EXCEPT ![c] = NextStep(h)]
    <3> HIDE DEF c, h
    <3> WITNESS NextStep(h)
    <3> QED  BY <1>1, <1>2, <2>1, NextStepFacts
  <2>2. CASE irq' = [irq EXCEPT ![c].yielded = FALSE] /\ h.step # "pcb"
    <3> DEFINE T == Seq(Tasks)
               H == [walking : BOOLEAN, todo : T,
                     step : {"pages", "stacks", "ms", "pcb"}, yielded : BOOLEAN]
               n == [h EXCEPT !.yielded = FALSE]
    <3>1. h \in H /\ Handlers = H  BY <1>2 DEF Handlers
    <3>2. irq' = [irq EXCEPT ![c] = n]  BY <2>2
    <3> HIDE DEF T, c, h
    <3>3. n \in H /\ n.walking = h.walking /\ n.yielded = FALSE /\ n.todo = h.todo
      BY <3>1
    <3> HIDE DEF n, H
    <3> WITNESS n
    <3> QED  BY <1>1, <2>2, <3>1, <3>2, <3>3
  <2> QED  BY <1>1, <2>1, <2>2
<1> HIDE DEF c, h
<1>5. \A d \in Contexts : irq'[d] = IF d = c THEN n ELSE irq[d]
  BY <1>2, <1>4 DEF TaskTypes
<1>6. TaskTypes'
  <2>1. irq' \in [Contexts -> Handlers]  BY <1>4 DEF TaskTypes
  <2>2. freed' \in [Tasks -> Nat]
    <3>1. freed \in [Tasks -> Nat]  BY DEF TaskTypes
    <3> DEFINE x == Head(h.todo)
    <3>2. freed' \in {freed, [freed EXCEPT ![x] = freed[x] + 1]}  BY <1>1
    <3>3. x \in Tasks  BY <1>1, <1>3
    <3> HIDE DEF x
    <3> QED  BY <3>1, <3>2, <3>3
  <2> QED  BY <1>1, <2>1, <2>2 DEF TaskTypes
<1>7. Places'  BY <1>1 DEF Places, Unlocked
<1>8. FreshWalks'  BY <1>1, <1>4, <1>5 DEF FreshWalks
<1>9. Walks'
  <2> SUFFICES ASSUME ~overlapped PROVE Walks'  BY <1>1 DEF Walks
  <2>1. /\ \A d \in Contexts : irq[d].walking => d = c
        /\ Distinct(doomed_task) /\ Pending \subseteq Range(doomed_task)
        /\ Distinct(h.todo) /\ Range(h.todo) = Pending
        /\ \A t \in Tasks : freed[t] <= 1 /\ (freed[t] = 1 => t \in exited)
    BY <1>1, <1>2 DEF Walks, h
  <2>2. \A d \in Contexts : irq'[d].walking => d = c  BY <1>5, <2>1
  <2>3. irq'[c].walking /\ irq'[c].todo = n.todo  BY <1>2, <1>4, <1>5
  <2>4. CASE h.step # "pcb"
    <3>1. Pending' = Pending /\ freed' = freed  BY <1>1, <2>4 DEF Pending
    <3> QED  BY <1>1, <1>2, <1>4, <2>1, <2>2, <2>3, <2>4, <3>1 DEF Walks
  <2>5. CASE h.step = "pcb"
    <3> DEFINE x == Head(h.todo)
    <3>1. /\ Distinct(Tail(h.todo)) /\ Range(Tail(h.todo)) = Pending \ {x}
          /\ x \in Tasks /\ x \in Pending
      BY <1>1, <1>3, <2>1, TailRange
    <3>2. freed' = [freed EXCEPT ![x] = @ + 1]  BY <1>1, <2>5
    <3> HIDE DEF x
    <3>3. freed[x] = 0 /\ x \in exited  BY <3>1 DEF Pending
    <3>4. freed'[x] = 1 /\ \A t \in Tasks : t # x => freed'[t] = freed[t]
      BY <3>1, <3>2, <3>3 DEF TaskTypes
    <3>5. Pending' = Pending \ {x}
      BY <1>1, <3>1, <3>4 DEF Pending, TaskTypes
    <3>6. \A t \in Tasks : freed'[t] <= 1 /\ (freed'[t] = 1 => t \in exited)
      BY <2>1, <3>3, <3>4
    <3> QED  BY <1>1, <1>2, <1>4, <2>1, <2>2, <2>3, <2>5, <3>1, <3>5, <3>6 DEF Walks
  <2> QED  BY <2>4, <2>5
<1> QED  BY <1>0, <1>6, <1>7, <1>8, <1>9

\* The handler yields for a lock.
LEMMA CleanYieldsKeeps ==
  ASSUME Inv, CleanYields
  PROVE  Inv'
<1> USE DEF Inv
<1> DEFINE c == Running
<1>1. /\ irq' = [irq EXCEPT ![c].yielded = TRUE]
      /\ ring' = Rotated(ring)
      /\ contended' = contended \cup {LockOf(irq[c].step)}
      /\ UNCHANGED <<asleep, doomed_task, exited, lock, level, pc, on, eax, inside,
                     depth, freed, overlapped, torn, keyed>>
  BY DEF CleanYields, loop, own
<1>2. c \in Contexts /\ ring \in Seq(Tasks) /\ Distinct(ring)
  BY RunningFacts DEF TaskTypes
<1> HIDE DEF c
<1>3. ring' \in Seq(Tasks) /\ Distinct(ring') /\ Range(ring') = Range(ring)
  BY <1>1, <1>2, RotatedRange
<1>4. /\ irq' \in [Contexts -> Handlers]
      /\ \A d \in Contexts : /\ irq'[d].walking = irq[d].walking
                             /\ irq'[d].todo = irq[d].todo
                             /\ irq'[d].step = irq[d].step
                             /\ d # c => irq'[d] = irq[d]
  <2> DEFINE T == Seq(Tasks)
             H == [walking : BOOLEAN, todo : T,
                   step : {"pages", "stacks", "ms", "pcb"}, yielded : BOOLEAN]
  <2>1. irq \in [Contexts -> Handlers] /\ Handlers = H  BY DEF TaskTypes, Handlers
  <2> HIDE DEF T
  <2>2. irq' = [irq EXCEPT ![c] = [irq[c] EXCEPT !.yielded = TRUE]]  BY <1>1
  <2>3. irq[c] \in H  BY <1>2, <2>1
  <2>4. /\ [irq[c] EXCEPT !.yielded = TRUE] \in H
        /\ [irq[c] EXCEPT !.yielded = TRUE].walking = irq[c].walking
        /\ [irq[c] EXCEPT !.yielded = TRUE].todo = irq[c].todo
        /\ [irq[c] EXCEPT !.yielded = TRUE].step = irq[c].step
    BY <2>3
  <2> DEFINE n == [irq[c] EXCEPT !.yielded = TRUE]
  <2> HIDE DEF n, H
  <2>5. irq' \in [Contexts -> H] /\ \A d \in Contexts : irq'[d] = IF d = c THEN n ELSE irq[d]
    BY <1>2, <2>1, <2>2, <2>4 DEF n
  <2>6. n.walking = irq[c].walking /\ n.todo = irq[c].todo /\ n.step = irq[c].step
    BY <2>4 DEF n
  <2> QED  BY <2>1, <2>5, <2>6
<1>5. LockOf(irq[c].step) \in Locks
  <2>1. irq[c].step \in {"pages", "stacks", "ms", "pcb"}
    BY <1>2 DEF TaskTypes, Handlers
  <2> QED  BY <2>1 DEF LockOf, Locks, Semaphores
<1>6. TaskTypes' /\ LockTypes'
  BY <1>1, <1>3, <1>4, <1>5 DEF TaskTypes, LockTypes
<1>7. Places' /\ Points'  BY <1>1, <1>3 DEF Places, Unlocked, Points
<1>8. Alone'
  <2>1. \A t, l : Owns(t, l)' <=> Owns(t, l)  BY <1>1 DEF Owns
  <2>2. \A t : OwnsPages(t)' <=> OwnsPages(t)  BY <1>1 DEF OwnsPages
  <2>3. SemaphoresOwned' /\ SemaphoresAlone'
    BY <1>1, <2>1 DEF Alone, SemaphoresOwned, SemaphoresAlone
  <2>4. PagesUndisturbed' => PagesUndisturbed  BY <1>1 DEF PagesUndisturbed
  <2>5. PagesAlone'  BY <1>1, <2>2, <2>4 DEF Alone, PagesAlone
  <2> QED  BY <2>3, <2>5 DEF Alone
<1>9. FreshWalks'
  <2> SUFFICES ASSUME "pages" \notin contended', NEW d \in Contexts,
                      irq'[d].walking, irq'[d].step = "pages"
               PROVE  ~irq'[d].yielded
    BY DEF FreshWalks
  <2>1. irq[c].step # "pages"  BY <1>1 DEF LockOf
  <2>2. d # c  BY <1>2, <1>4, <2>1
  <2> QED  BY <1>1, <1>4, <2>2 DEF FreshWalks
<1>10. Walks'  BY <1>1, <1>4 DEF Walks, Pending
<1> QED  BY <1>6, <1>7, <1>8, <1>9, <1>10

(* The end of a tick, whatever it does to the ring: a ready task stays     *)
(* ready, and a sleeper may become ready.                                  *)
LEMMA TickEndKeeps ==
  ASSUME Inv, NEW r, TickEnd(r), ring' \in Seq(Tasks), Distinct(ring'),
         asleep' \in SUBSET asleep,
         Range(ring') = Range(ring) \cup (asleep \ asleep')
  PROVE  Inv'
<1> USE DEF Inv
<1> DEFINE c == Running
<1>1. /\ irq[c].walking /\ irq[c].todo = <<>> /\ doomed_task' = <<>>
      /\ irq' = [irq EXCEPT ![c] = NoHandler]
      /\ UNCHANGED <<lock, level, loop, own, exited, freed, overlapped, trouble>>
  BY DEF TickEnd
<1>2. c \in Contexts  BY RunningFacts
<1> HIDE DEF c
<1>3. NoHandler \in Handlers /\ ~NoHandler.walking /\ ~NoHandler.yielded
  BY DEF NoHandler, Handlers
<1>4. \A d \in Contexts : irq'[d] = IF d = c THEN NoHandler ELSE irq[d]
  BY <1>1, <1>2 DEF TaskTypes
<1>5. TaskTypes'
  <2>1. irq' \in [Contexts -> Handlers]  BY <1>1, <1>3 DEF TaskTypes
  <2>2. doomed_task' \in Seq(Tasks)  BY <1>1
  <2>3. asleep' \in SUBSET Tasks  BY DEF TaskTypes
  <2> QED  BY <1>1, <2>1, <2>2, <2>3 DEF TaskTypes
<1>6. Places'  BY <1>1 DEF Places, Unlocked, loop, own
<1>7. LockTypes' /\ Points' /\ Alone'  BY <1>1, LocksFrame
<1>8. FreshWalks'  BY <1>1, <1>3, <1>4 DEF FreshWalks, trouble
<1>9. Walks'
  <2> SUFFICES ASSUME ~overlapped PROVE Walks'  BY <1>1 DEF Walks
  <2>1. /\ \A d \in Contexts : irq[d].walking => d = c
        /\ Range(irq[c].todo) = Pending
        /\ \A t \in Tasks : freed[t] <= 1 /\ (freed[t] = 1 => t \in exited)
    BY <1>1, <1>2 DEF Walks
  <2>2. Pending' = {}  BY <1>1, <2>1, RangeEmpty DEF Pending
  <2>3. Distinct(doomed_task') /\ Range(doomed_task') = {}
    BY <1>1, RangeEmpty DEF Distinct
  <2>4. \A d \in Contexts : ~irq'[d].walking  BY <1>3, <1>4, <2>1
  <2> QED  BY <1>1, <2>1, <2>2, <2>3, <2>4 DEF Walks
<1> QED  BY <1>5, <1>6, <1>7, <1>8, <1>9

LEMMA TickEndsKeep ==
  ASSUME Inv, TickWakes \/ TickStays
  PROVE  Inv'
<1> USE DEF Inv
<1>0. ring \in Seq(Tasks) /\ Distinct(ring)  BY DEF TaskTypes
<1>1. CASE TickStays
  <2>1. TickEnd(ring) /\ ring' \in {ring, Rotated(ring)} /\ asleep' = asleep
    BY <1>1 DEF TickStays, TickEnd
  <2>2. ring' \in Seq(Tasks) /\ Distinct(ring') /\ Range(ring') = Range(ring)
    BY <1>0, <2>1, RotatedRange
  <2>3. Range(ring') = Range(ring) \cup (asleep \ asleep')  BY <2>1, <2>2
  <2> QED  BY <2>1, <2>2, <2>3, TickEndKeeps
<1>2. CASE TickWakes
  <2>1. PICK u \in asleep : TickEnd(Awake(ring, u)) /\ asleep' = asleep \ {u}
    BY <1>2 DEF TickWakes
  <2> DEFINE r == Awake(ring, u)
  <2>2. u \in Tasks /\ u \notin Range(ring)  BY <2>1 DEF TaskTypes, Places
  <2>3. r \in Seq(Tasks) /\ Distinct(r) /\ Range(r) = Range(ring) \cup {u}
    <3>1. CASE ring = <<>>
      <4>1. r = <<u>> /\ Range(ring) = {}  BY <3>1, RangeEmpty DEF Awake
      <4> QED  BY <2>2, <4>1, RangeOne
    <3>2. CASE ring # <<>>
      <4>1. r = <<Head(ring), u>> \o Tail(ring)  BY <3>2 DEF Awake
      <4> QED  BY <1>0, <2>2, <3>2, <4>1, BehindHead
    <3> QED  BY <3>1, <3>2
  <2>4. ring' \in {r, Rotated(r)}  BY <2>1 DEF TickEnd
  <2> HIDE DEF r
  <2>5. ring' \in Seq(Tasks) /\ Distinct(ring') /\ Range(ring') = Range(ring) \cup {u}
    BY <2>3, <2>4, RotatedRange
  <2>6. Range(ring') = Range(ring) \cup (asleep \ asleep') /\ asleep' \in SUBSET asleep
    BY <2>1, <2>5
  <2> QED  BY <2>1, <2>5, <2>6, TickEndKeeps DEF r
<1> QED  BY <1>1, <1>2

LEMMA NextInv ==
  ASSUME Inv, [Next]_vars
  PROVE  Inv'
<1>1. CASE UNCHANGED vars
  <2>1. UNCHANGED <<tasks, lock, level, loop, own, irq, freed, overlapped, trouble>>
    BY <1>1 DEF vars
  <2>2. LockTypes' /\ Points' /\ Alone'  BY <2>1, LocksFrame DEF Inv
  <2>3. TaskTypes' /\ Places' /\ FreshWalks' /\ Walks'
    BY <2>1 DEF Inv, TaskTypes, Places, Unlocked, FreshWalks, Walks, Pending, tasks,
                loop, own, trouble
  <2> QED  BY <2>2, <2>3 DEF Inv
<1>2. CASE Next
  BY <1>2, NewKeeps, SleepKeeps, ExitKeeps, StepKeeps, KeyKeeps, TickKeeps,
     CleanKeeps, CleanYieldsKeeps, TickEndsKeep DEF Next, sched_ms_tick
<1> QED  BY <1>1, <1>2

THEOREM Invariant ==
  Spec => []Inv
<1>1. Inv /\ [Next]_vars => Inv'  BY NextInv
<1> QED  BY InitInv, <1>1, PTL DEF Spec

-----------------------------------------------------------------------------
(* The properties of Reaper.                                               *)

\* Whoever has a lock, or is in the loop, keeps the CPU from being idle.
LEMMA NobodyInIdle ==
  ASSUME Inv, ring = <<>>, NEW t \in Tasks
  PROVE  Unlocked(t) /\ on[t] = NoLock
<1>1. Unlocked(t)  BY RangeEmpty DEF Inv, Places
<1> QED  BY <1>1 DEF Inv, Points, Unlocked

(* When the CPU is idle the semaphores are free, and so is the mutex if it *)
(* was taken by one at a time, so the handler does not have to yield       *)
(* without a current task.                                                 *)
THEOREM IdleNeverWaits ==
  Spec => []IdleFindsLocksFree
<1>1. Inv => IdleFindsLocksFree
  <2> SUFFICES ASSUME Inv, ring = <<>> PROVE IdleFindsLocksFree
    BY DEF IdleFindsLocksFree
  <2>1. \A t \in Tasks : Unlocked(t) /\ on[t] = NoLock  BY NobodyInIdle
  <2>2. ASSUME NEW l \in Semaphores PROVE lock[l] = 0
    BY <2>1 DEF Inv, Alone, SemaphoresOwned, Unlocked, Semaphores, NoLock
  <2>3. ASSUME PagesUndisturbed PROVE lock["pages"] = 0
    <3>1. \A t \in Tasks : ~OwnsPages(t)
      BY <2>1 DEF Unlocked, OwnsPages, Inv, LockTypes, MaxDepth
    <3> QED  BY <2>3, <3>1 DEF Inv, Alone, PagesAlone
  <2> QED  BY <2>2, <2>3 DEF IdleFindsLocksFree
<1> QED  BY Invariant, <1>1, PTL

(* As long as nobody has waited for a lock, the handler is inside together *)
(* only with the task it interrupted, and only in the page allocator.      *)
THEOREM SharesOnlyPages ==
  Spec => []SharesOnlyPagesBelow
<1>1. Inv => SharesOnlyPagesBelow
  <2> SUFFICES ASSUME Inv, NEW c \in Contexts, irq[c].walking,
                      MayEnter(LockOf(irq[c].step), HandlerAx(c))
               PROVE  LET l == LockOf(irq[c].step) IN
                      /\ l \in Semaphores \ contended /\ ~keyed =>
                           \A t \in Tasks : inside[t] # l
                      /\ l = "pages" /\ PagesUndisturbed =>
                           \A t \in Tasks : depth[t] > 0 => t = c
    BY DEF SharesOnlyPagesBelow, Inv, TaskTypes
  <2> DEFINE l == LockOf(irq[c].step)
  <2>1. ASSUME l \in Semaphores \ contended, ~keyed, NEW t \in Tasks
        PROVE  inside[t] # l
    <3>1. lock[l] = 0  BY <2>1 DEF MayEnter, Semaphores
    <3> QED  BY <2>1, <3>1 DEF Inv, Alone, SemaphoresAlone, Owns
  <2>2. ASSUME l = "pages", PagesUndisturbed, NEW t \in Tasks, depth[t] > 0
        PROVE  t = c
    <3>1. HandlerAx(c) = c
      BY <2>2 DEF LockOf, Inv, FreshWalks, PagesUndisturbed, HandlerAx
    <3>2. lock["pages"] = t /\ t # 0
      BY <2>2, ReaperAssumption DEF OwnsPages, Inv, Alone, PagesAlone, Idle
    <3> QED  BY <2>2, <3>1, <3>2 DEF MayEnter
  <2> QED  BY <2>1, <2>2
<1> QED  BY Invariant, <1>1, PTL

(* The kernel comes to a stop with its semaphores only when the handler    *)
(* waits on the stack of a task that is inside one of them.                *)
THEOREM StuckBelowHandler ==
  Spec => []StuckOnlyBelowHandler
<1>1. Inv => StuckOnlyBelowHandler
  <2> SUFFICES ASSUME Inv, ~keyed, ring # <<>>,
                      \A t \in Range(ring) : \E l \in Semaphores : WaitsFor(t, l)
               PROVE  \E t, u \in Range(ring) : \E l \in Semaphores :
                        irq[t].walking /\ Owns(t, l) /\ WaitsFor(u, l)
    BY DEF StuckOnlyBelowHandler
  <2>1. ring \in Seq(Tasks) /\ Distinct(ring)  BY DEF Inv, TaskTypes
  <2>2. PICK u \in Range(ring) : u \in Tasks  BY <2>1, TailRange
  <2>3. PICK l \in Semaphores : WaitsFor(u, l)  BY <2>2
  <2>4. lock[l] # 0  BY <2>3 DEF WaitsFor, Taken
  <2>5. PICK t \in Tasks : Owns(t, l)  BY <2>4 DEF Inv, Alone, SemaphoresOwned
  <2>6. ~Unlocked(t)  BY <2>5 DEF Owns, Unlocked, Semaphores, NoLock
  <2>7. t \in Range(ring)  BY <2>6 DEF Inv, Places
  <2>8. PICK k \in Semaphores : WaitsFor(t, k)  BY <2>7
  <2>9. irq[t].walking
    <3> SUFFICES ASSUME ~irq[t].walking PROVE FALSE  OBVIOUS
    <3>1. pc[t] = "free" /\ on[t] = k  BY <2>8 DEF WaitsFor
    <3>2. inside[t] = NoLock  BY <3>1 DEF Inv, Points
    <3> QED  BY <2>5, <3>1, <3>2 DEF Owns, Semaphores, NoLock
  <2> QED  BY <2>3, <2>5, <2>7, <2>9
<1> QED  BY Invariant, <1>1, PTL

(* As long as walks do not overlap, whoever exits is freed once, and       *)
(* nobody else is.                                                         *)
THEOREM Reaped ==
  Spec => []ReapedExactly
<1>1. Inv => ReapedExactly
  <2> SUFFICES ASSUME Inv, ~overlapped, NEW t \in Tasks
               PROVE  /\ t \in exited /\ freed[t] = 0 => t \in Range(doomed_task)
                      /\ t \in exited /\ freed[t] = 0 =>
                           \A c \in DOMAIN irq : irq[c].walking =>
                             t \in Range(irq[c].todo)
                      /\ freed[t] <= 1
                      /\ freed[t] = 1 => t \in exited \ (Range(ring) \cup asleep)
    BY DEF ReapedExactly
  <2>1. DOMAIN irq = Contexts  BY DEF Inv, TaskTypes
  <2>2. t \in exited /\ freed[t] = 0 => t \in Pending  BY DEF Pending
  <2>3. t \in exited => t \notin Range(ring) \cup asleep  BY DEF Inv, Places
  <2> QED  BY <2>1, <2>2, <2>3 DEF Inv, Walks
<1> QED  BY Invariant, <1>1, PTL

=============================================================================
