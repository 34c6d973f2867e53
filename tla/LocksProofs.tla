---------------------------- MODULE LocksProofs ----------------------------
(***************************************************************************)
(* Proofs about Locks, for any number of tasks and any depth of nesting    *)
(* that a uint16_t counts.                                                 *)
(***************************************************************************)
EXTENDS Locks, TLAPS

(* Where the two functions can be: the labels of the mutex, and the        *)
(* nesting that the caller respects.                                       *)
Shape ==
  \A t \in Tasks :
    /\ depth[t] <= MaxDepth
    /\ pc[t] \notin {"idle", "release"} => depth[t] < MaxDepth
    /\ kind = "semaphore" => /\ pc[t] \notin {"spin_lock", "zero", "got_lock", "release"}
                             /\ depth[t] > 0 => pc[t] = "idle"

\* What a contention spoils, and what a key spoils too, but only for a mutex.
Undisturbed == ~contended /\ (kind = "semaphore" \/ ~keyed)

\* Until then EAX is not 0, and a mutex finds the caller's tid.
EaxUntilContended ==
  Undisturbed => \A t \in Tasks :
    /\ pc[t] # "yield"
    /\ pc[t] \in {"spin_lock", "free", "get_lock"} =>
         eax[t] # 0 /\ (kind = "mutex" => eax[t] = t)
    /\ kind = "mutex" /\ pc[t] = "test" => eax[t] = 0

\* Until then the lock says that there is an owner, and which.
LockNamesOwner ==
  Undisturbed =>
    /\ \A t \in Tasks : Owns(t) => lock # 0 /\ (kind = "mutex" => lock = t)
    /\ kind = "mutex" /\ lock # 0 => lock \in Tasks /\ Owns(lock)

\* Until then level is what the owner of the mutex knows.
LevelKnown ==
  Undisturbed /\ kind = "mutex" => \A t \in Tasks :
    /\ pc[t] \in {"free", "get_lock", "test", "zero", "release"} => depth[t] = 0
    /\ depth[t] > 0 \/ pc[t] = "got_lock" => level = depth[t]
    /\ pc[t] = "release" => level = 0

Inv ==
  /\ TypeOK
  /\ Shape
  /\ LockHasOwner
  /\ ExclusionUntilContended
  /\ EaxUntilContended
  /\ LockNamesOwner
  /\ LevelKnown

-----------------------------------------------------------------------------
LEMMA InitInv == Init => Inv
<1> SUFFICES ASSUME Init PROVE Inv
  OBVIOUS
<1>1. TypeOK
  <2>1. contended \in BOOLEAN /\ keyed \in BOOLEAN  BY DEF Init
  <2>2. /\ kind \in {"semaphore", "mutex"}
        /\ lock \in Tasks \cup {0, 1}
        /\ level \in Nat /\ level < 65536
    BY DEF Init
  <2>3. /\ pc \in [Tasks -> Labels]
        /\ eax \in [Tasks -> Tasks \cup {0, 1}]
        /\ depth \in [Tasks -> Nat]
    BY DEF Init, Labels
  <2> QED  BY <2>1, <2>2, <2>3 DEF TypeOK
<1>2. Shape  BY MaxDepthAssumption DEF Init, Shape
<1>3. LockHasOwner  BY DEF Init, LockHasOwner
<1>4. ExclusionUntilContended  BY DEF Init, ExclusionUntilContended, Owns
<1>5. EaxUntilContended  BY DEF Init, EaxUntilContended, Undisturbed
<1>6. LockNamesOwner  BY DEF Init, LockNamesOwner, Undisturbed, Owns
<1>7. LevelKnown  BY DEF Init, LevelKnown, Undisturbed
<1> QED  BY <1>1, <1>2, <1>3, <1>4, <1>5, <1>6, <1>7 DEF Inv

\* Types do not depend on what the lock is worth.
LEMMA TypeStep == TypeOK /\ [Next]_vars => TypeOK'
<1> SUFFICES ASSUME TypeOK, [Next]_vars PROVE TypeOK'
  OBVIOUS
<1> USE TasksAssumption DEF TypeOK, Goto, Labels
<1>1. ASSUME NEW t \in Tasks, Acquire(t) PROVE TypeOK'
  BY <1>1 DEF Acquire
<1>2. ASSUME NEW t \in Tasks, Steps(t) PROVE TypeOK'
  <2>1. CASE SpinLock(t)  BY <2>1 DEF SpinLock
  <2>2. CASE Free(t)  BY <2>2 DEF Free
  <2>3. CASE Yield(t)  BY <2>3 DEF Yield
  <2>4. CASE GetLock(t)  BY <2>4 DEF GetLock
  <2>5. CASE Test(t)  BY <2>5 DEF Test, AfterTest, Won
  <2>6. CASE Zero(t)  BY <2>6 DEF Zero
  <2>7. CASE GotLock(t)  BY <2>7 DEF GotLock
  <2>8. CASE ReleaseLock(t)  BY <2>8 DEF ReleaseLock, ReleasedLock
  <2> QED  BY <1>2, <2>1, <2>2, <2>3, <2>4, <2>5, <2>6, <2>7, <2>8 DEF Steps
<1>3. ASSUME NEW t \in Tasks, Release(t) PROVE TypeOK'
  <2>1. CASE ReleaseSemaphore(t)  BY <2>1 DEF ReleaseSemaphore, ReleasedLock
  <2>2. CASE ReleaseLevel(t)  BY <2>2 DEF ReleaseLevel, StillHeld
  <2> QED  BY <1>3, <2>1, <2>2 DEF Release
<1>4. ASSUME NEW t \in Tasks, Key(t) PROVE TypeOK'
  BY <1>4 DEF Key
<1>5. CASE UNCHANGED vars  BY <1>5 DEF vars
<1> QED  BY <1>1, <1>2, <1>3, <1>4, <1>5 DEF Next

LEMMA ShapeStep == TypeOK /\ Shape /\ [Next]_vars => Shape'
<1> SUFFICES ASSUME TypeOK, Shape, [Next]_vars PROVE Shape'
  OBVIOUS
<1> USE MaxDepthAssumption DEF TypeOK, Shape, Goto, Labels
<1>1. ASSUME NEW t \in Tasks, Acquire(t) PROVE Shape'
  BY <1>1 DEF Acquire
<1>2. ASSUME NEW t \in Tasks, Steps(t) PROVE Shape'
  <2>1. CASE SpinLock(t)  BY <2>1 DEF SpinLock
  <2>2. CASE Free(t)  BY <2>2 DEF Free
  <2>3. CASE Yield(t)  BY <2>3 DEF Yield
  <2>4. CASE GetLock(t)  BY <2>4 DEF GetLock
  <2>5. CASE Test(t)  BY <2>5 DEF Test, AfterTest, Won
  <2>6. CASE Zero(t)  BY <2>6 DEF Zero
  <2>7. CASE GotLock(t)  BY <2>7 DEF GotLock
  <2>8. CASE ReleaseLock(t)  BY <2>8 DEF ReleaseLock
  <2> QED  BY <1>2, <2>1, <2>2, <2>3, <2>4, <2>5, <2>6, <2>7, <2>8 DEF Steps
<1>3. ASSUME NEW t \in Tasks, Release(t) PROVE Shape'
  <2>1. CASE ReleaseSemaphore(t)  BY <2>1 DEF ReleaseSemaphore
  <2>2. CASE ReleaseLevel(t)  BY <2>2 DEF ReleaseLevel
  <2> QED  BY <1>3, <2>1, <2>2 DEF Release
<1>4. ASSUME NEW t \in Tasks, Key(t) PROVE Shape'
  BY <1>4 DEF Key
<1>5. CASE UNCHANGED vars  BY <1>5 DEF vars
<1> QED  BY <1>1, <1>2, <1>3, <1>4, <1>5 DEF Next

\* A step after which nothing disturbs the lock yet found it free.
LEMMA FreeUndisturbed ==
  ASSUME NEW t, Free(t), Undisturbed' PROVE Undisturbed /\ lock = 0
  BY Zenon DEF Free, Undisturbed

LEMMA GetLockUndisturbed ==
  ASSUME NEW t, GetLock(t), Undisturbed'
  PROVE  Undisturbed /\ (kind = "mutex" => lock = 0)
  BY Zenon DEF GetLock, Undisturbed

\* What one step of task t preserves of the rest of the invariant.
LEMMA TaskStep ==
  ASSUME Inv, NEW t \in Tasks, Acquire(t) \/ Steps(t) \/ Key(t) \/ Release(t), TypeOK', Shape'
  PROVE  Inv'
<1> USE TasksAssumption, MaxDepthAssumption
    DEF TypeOK, Shape, LockHasOwner, ExclusionUntilContended, EaxUntilContended,
        LockNamesOwner, LevelKnown, Undisturbed, Owns, Goto
<1>1. CASE Acquire(t)
  <2>1. LockHasOwner'  BY <1>1 DEF Inv, Acquire
  <2>2. ExclusionUntilContended'  BY <1>1 DEF Inv, Acquire
  <2>3. EaxUntilContended'  BY <1>1 DEF Inv, Acquire
  <2>4. LockNamesOwner'  BY <1>1 DEF Inv, Acquire
  <2>5. LevelKnown'  BY <1>1 DEF Inv, Acquire
  <2> QED  BY <2>1, <2>2, <2>3, <2>4, <2>5 DEF Inv
<1>2. CASE SpinLock(t)
  <2>1. LockHasOwner'  BY <1>2 DEF Inv, SpinLock
  <2>2. ExclusionUntilContended'  BY <1>2 DEF Inv, SpinLock
  <2>3. EaxUntilContended'  BY <1>2 DEF Inv, SpinLock
  <2>4. LockNamesOwner'  BY <1>2 DEF Inv, SpinLock
  <2>5. LevelKnown'  BY <1>2 DEF Inv, SpinLock
  <2> QED  BY <2>1, <2>2, <2>3, <2>4, <2>5 DEF Inv
<1>3. CASE Free(t)
  <2>1. LockHasOwner'  BY <1>3 DEF Inv, Free
  <2>2. ExclusionUntilContended'  BY <1>3 DEF Inv, Free
  <2>3. EaxUntilContended'
    <3> SUFFICES ASSUME Undisturbed' PROVE EaxUntilContended'
      BY DEF EaxUntilContended
    <3>1. Undisturbed /\ lock = 0  BY ONLY <1>3, Undisturbed', FreeUndisturbed
    <3>2. pc' = [pc EXCEPT ![t] = "get_lock"] /\ pc[t] = "free"  BY <1>3, <3>1 DEF Free
    <3>3. kind' = kind /\ eax' = eax  BY <1>3 DEF Free
    <3> QED  BY <3>1, <3>2, <3>3 DEF Inv
  <2>4. LockNamesOwner'  BY <1>3 DEF Inv, Free
  <2>5. LevelKnown'  BY <1>3 DEF Inv, Free
  <2> QED  BY <2>1, <2>2, <2>3, <2>4, <2>5 DEF Inv
<1>4. CASE Yield(t)
  <2>1. LockHasOwner'  BY <1>4 DEF Inv, Yield
  <2>2. ExclusionUntilContended'  BY <1>4 DEF Inv, Yield
  <2>3. EaxUntilContended'  BY <1>4 DEF Inv, Yield
  <2>4. LockNamesOwner'  BY <1>4 DEF Inv, Yield
  <2>5. LevelKnown'  BY <1>4 DEF Inv, Yield
  <2> QED  BY <2>1, <2>2, <2>3, <2>4, <2>5 DEF Inv
<1>5. CASE GetLock(t)
  <2>1. LockHasOwner'  BY <1>5 DEF Inv, GetLock
  <2>2. ExclusionUntilContended'  BY <1>5 DEF Inv, GetLock
  <2>a. Undisturbed' => Undisturbed /\ (kind = "mutex" => lock = 0)
    BY ONLY <1>5, GetLockUndisturbed
  <2>b. /\ pc[t] = "get_lock" /\ pc' = [pc EXCEPT ![t] = "test"]
        /\ lock' = eax[t] /\ eax' = [eax EXCEPT ![t] = lock]
        /\ kind' = kind /\ depth' = depth
    BY <1>5 DEF GetLock
  <2>3. EaxUntilContended'
    <3> SUFFICES ASSUME Undisturbed' PROVE EaxUntilContended'
      BY DEF EaxUntilContended
    <3> QED  BY <2>a, <2>b DEF Inv
  <2>4. LockNamesOwner'
    <3> SUFFICES ASSUME Undisturbed' PROVE LockNamesOwner'
      BY DEF LockNamesOwner
    <3> QED  BY <2>a, <2>b DEF Inv
  <2>5. LevelKnown'  BY <1>5 DEF Inv, GetLock
  <2> QED  BY <2>1, <2>2, <2>3, <2>4, <2>5 DEF Inv
<1>6. CASE Test(t)
  <2>1. LockHasOwner'  BY <1>6 DEF Inv, Test, AfterTest, Won
  <2>2. ExclusionUntilContended'  BY <1>6 DEF Inv, Test, AfterTest, Won
  <2>3. EaxUntilContended'  BY <1>6 DEF Inv, Test, AfterTest, Won
  <2>4. LockNamesOwner'  BY <1>6 DEF Inv, Test, AfterTest, Won
  <2>5. LevelKnown'  BY <1>6 DEF Inv, Test, AfterTest, Won
  <2> QED  BY <2>1, <2>2, <2>3, <2>4, <2>5 DEF Inv
<1>7. CASE Zero(t)
  <2>1. LockHasOwner'  BY <1>7 DEF Inv, Zero
  <2>2. ExclusionUntilContended'  BY <1>7 DEF Inv, Zero
  <2>3. EaxUntilContended'  BY <1>7 DEF Inv, Zero
  <2>4. LockNamesOwner'  BY <1>7 DEF Inv, Zero
  <2>5. LevelKnown'  BY <1>7 DEF Inv, Zero
  <2> QED  BY <2>1, <2>2, <2>3, <2>4, <2>5 DEF Inv
<1>8. CASE GotLock(t)
  <2>1. LockHasOwner'  BY <1>8 DEF Inv, GotLock
  <2>2. ExclusionUntilContended'  BY <1>8 DEF Inv, GotLock
  <2>3. EaxUntilContended'  BY <1>8 DEF Inv, GotLock
  <2>4. LockNamesOwner'  BY <1>8 DEF Inv, GotLock
  <2>5. LevelKnown'  BY <1>8 DEF Inv, GotLock
  <2> QED  BY <2>1, <2>2, <2>3, <2>4, <2>5 DEF Inv
<1>9. CASE ReleaseLock(t)
  <2>1. LockHasOwner'  BY <1>9 DEF Inv, ReleaseLock, ReleasedLock
  <2>2. ExclusionUntilContended'  BY <1>9 DEF Inv, ReleaseLock, ReleasedLock
  <2>3. EaxUntilContended'  BY <1>9 DEF Inv, ReleaseLock, ReleasedLock
  <2>4. LockNamesOwner'  BY <1>9 DEF Inv, ReleaseLock, ReleasedLock
  <2>5. LevelKnown'  BY <1>9 DEF Inv, ReleaseLock, ReleasedLock
  <2> QED  BY <2>1, <2>2, <2>3, <2>4, <2>5 DEF Inv
<1>10. CASE ReleaseSemaphore(t)
  <2>1. LockHasOwner'  BY <1>10 DEF Inv, ReleaseSemaphore, ReleasedLock
  <2>2. ExclusionUntilContended'  BY <1>10 DEF Inv, ReleaseSemaphore, ReleasedLock
  <2>3. EaxUntilContended'  BY <1>10 DEF Inv, ReleaseSemaphore, ReleasedLock
  <2>4. LockNamesOwner'  BY <1>10 DEF Inv, ReleaseSemaphore, ReleasedLock
  <2>5. LevelKnown'  BY <1>10 DEF Inv, ReleaseSemaphore, ReleasedLock
  <2> QED  BY <2>1, <2>2, <2>3, <2>4, <2>5 DEF Inv
<1>11. CASE ReleaseLevel(t)
  <2>1. LockHasOwner'  BY <1>11 DEF Inv, ReleaseLevel, StillHeld
  <2>2. ExclusionUntilContended'  BY <1>11 DEF Inv, ReleaseLevel, StillHeld
  <2>3. EaxUntilContended'  BY <1>11 DEF Inv, ReleaseLevel, StillHeld
  <2>4. LockNamesOwner'  BY <1>11 DEF Inv, ReleaseLevel, StillHeld
  <2>5. LevelKnown'  BY <1>11 DEF Inv, ReleaseLevel, StillHeld
  <2> QED  BY <2>1, <2>2, <2>3, <2>4, <2>5 DEF Inv
<1>12. CASE Key(t)
  <2>1. LockHasOwner'  BY <1>12 DEF Inv, Key
  <2>2. ExclusionUntilContended'  BY <1>12 DEF Inv, Key
  <2>3. EaxUntilContended'  BY <1>12 DEF Inv, Key
  <2>4. LockNamesOwner'  BY <1>12 DEF Inv, Key
  <2>5. LevelKnown'  BY <1>12 DEF Inv, Key
  <2> QED  BY <2>1, <2>2, <2>3, <2>4, <2>5 DEF Inv
<1> QED  BY <1>1, <1>2, <1>3, <1>4, <1>5, <1>6, <1>7, <1>8, <1>9, <1>10, <1>11, <1>12 DEF Steps, Release

LEMMA InvStep == Inv /\ [Next]_vars => Inv'
<1> SUFFICES ASSUME Inv, [Next]_vars PROVE Inv'
  OBVIOUS
<1>1. TypeOK' /\ Shape'
  BY TypeStep, ShapeStep DEF Inv
<1>2. CASE UNCHANGED vars
  BY <1>2 DEF vars, Inv, TypeOK, Shape, LockHasOwner, ExclusionUntilContended,
              EaxUntilContended, LockNamesOwner, LevelKnown, Undisturbed, Owns
<1>3. ASSUME NEW t \in Tasks, Acquire(t) \/ Steps(t) \/ Key(t) \/ Release(t) PROVE Inv'
  BY <1>1, <1>3, TaskStep
<1> QED  BY <1>2, <1>3 DEF Next

LEMMA Invariance == Spec => []Inv
  BY InitInv, InvStep, PTL DEF Spec

-----------------------------------------------------------------------------
(* The theorems.                                                           *)

\* The lock, EAX and the 16-bit level of mutex_acquire and mutex_release
\* stay in their types, however the tasks are preempted.
THEOREM TypeCorrect == Spec => []TypeOK
  BY Invariance, PTL DEF Inv

\* A lock that semaphore_acquire or mutex_acquire finds taken has an owner
\* that will release it, unless a key came in the loop (for the mutex: and
\* until the first contention).
THEOREM NoOrphanedLock == Spec => []LockHasOwner
  BY Invariance, PTL DEF Inv

\* Until a task waits in sched_yield, loses the xchg of a mutex, or a key
\* comes in the loop of a mutex, the spin loops exclude every second owner.
THEOREM Exclusion == Spec => []ExclusionUntilContended
  BY Invariance, PTL DEF Inv

\* Until then mutex->level is the number of acquisitions mutex_release has
\* still to undo.
THEOREM LevelCounts == Spec => []LevelUntilContended
<1>1. Inv => LevelUntilContended
  BY DEF Inv, LevelKnown, LevelUntilContended, Undisturbed
<1> QED  BY <1>1, Invariance, PTL

=============================================================================
