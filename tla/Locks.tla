------------------------------- MODULE Locks -------------------------------
(***************************************************************************)
(* The two locks of the kernel, kernel/src/arch/i386/sync/semaphore.c and  *)
(* mutex.c, instruction by instruction: the timer may preempt a task       *)
(* between any two of them.  Both are the same loop around one xchg; the   *)
(* mutex first asks whether the task has the lock already, and counts its  *)
(* acquisitions in level.                                                  *)
(*                                                                         *)
(* Each task keeps its own EAX, which the asm statement loads with its tid *)
(* once, before the loop.  The call of sched_yield inside the loop comes   *)
(* back with EAX = 0, the argument sched_sleep loaded for int 50.          *)
(*                                                                         *)
(* A key pressed in the loop changes EAX too, as irq1_handler saves no     *)
(* register.  (The address of the lock is taken to be in a register that   *)
(* the C functions the handler calls preserve.)                            *)
(***************************************************************************)
EXTENDS Integers, FiniteSets

CONSTANTS
  Tasks,     \* the tids of the tasks that use the lock
  MaxDepth   \* bound: how deep a task nests its acquisitions of a mutex

ASSUME TasksAssumption == Tasks \subseteq Nat \ {0}
ASSUME MaxDepthAssumption ==  \* level is a uint16_t
  MaxDepth \in Nat /\ 0 < MaxDepth /\ MaxDepth < 65536

VARIABLES
  kind,       \* "semaphore" or "mutex": which of the two functions this is
  lock, level,
  pc,         \* the instruction each task executes next
  eax,
  depth,      \* history: acquisitions a task has not released yet
  contended,  \* history: has a task yielded, or lost the xchg of a mutex?
  keyed       \* history: has a key been pressed in the loop?

vars == <<kind, lock, level, pc, eax, depth, contended, keyed>>

Labels == {"idle", "spin_lock", "free", "yield", "get_lock", "test", "zero",
           "got_lock", "release"}

Init ==
  /\ kind \in {"semaphore", "mutex"}
  /\ lock = 0
  /\ level = 0
  /\ pc = [t \in Tasks |-> "idle"]
  /\ eax = [t \in Tasks |-> 0]
  /\ depth = [t \in Tasks |-> 0]
  /\ contended = FALSE
  /\ keyed = FALSE

Goto(t, from, to) ==
  /\ pc[t] = from
  /\ pc' = [pc EXCEPT ![t] = to]

-----------------------------------------------------------------------------
(* semaphore_acquire and mutex_acquire.  Bad... are the mistakes the       *)
(* properties are tried on.                                                *)

\* The call: tid goes to EAX.  Only the mutex may be acquired again.
Acquire(t) ==
  /\ kind = "semaphore" => depth[t] = 0
  /\ depth[t] < MaxDepth
  /\ Goto(t, "idle", IF kind = "mutex" THEN "spin_lock" ELSE "free")
  /\ eax' = [eax EXCEPT ![t] = t]
  /\ UNCHANGED <<kind, lock, level, depth, contended, keyed>>

\* cmp %2, %0; je got_lock: do we already have the lock?  (mutex only)
SpinLock(t) ==
  /\ Goto(t, "spin_lock", IF lock = eax[t] THEN "got_lock" ELSE "free")
  /\ UNCHANGED <<kind, lock, level, eax, depth, contended, keyed>>

\* cmp $0, %0; je get_lock: is the lock free?
BadFree(t) ==  \* waits while the lock is free
  /\ Goto(t, "free", IF lock # 0 THEN "get_lock" ELSE "yield")
  /\ contended' = (contended \/ lock # 0)
  /\ UNCHANGED <<kind, lock, level, eax, depth, keyed>>

Free(t) ==
  /\ Goto(t, "free", IF lock = 0 THEN "get_lock" ELSE "yield")
  /\ contended' = (contended \/ lock # 0)
  /\ UNCHANGED <<kind, lock, level, eax, depth, keyed>>

\* call sched_yield; jmp spin_lock
Yield(t) ==
  /\ Goto(t, "yield", IF kind = "mutex" THEN "spin_lock" ELSE "free")
  /\ eax' = [eax EXCEPT ![t] = 0]
  /\ UNCHANGED <<kind, lock, level, depth, contended, keyed>>

(* xchg %eax, %0.  A task that loses leaves its own tid in the lock and    *)
(* takes the tid of the owner: the mutex will mistake it for the owner.    *)
GetLock(t) ==
  /\ Goto(t, "get_lock", "test")
  /\ lock' = eax[t]
  /\ eax' = [eax EXCEPT ![t] = lock]
  /\ contended' = (contended \/ (kind = "mutex" /\ lock # 0))
  /\ UNCHANGED <<kind, level, depth, keyed>>

\* cmp $0, %eax; jne spin_lock
Won(t) == IF kind = "mutex" THEN "zero" ELSE "idle"

BadAfterTest(t) == Won(t)  \* does not look at what xchg returned

AfterTest(t) ==
  IF eax[t] = 0 THEN Won(t) ELSE IF kind = "mutex" THEN "spin_lock" ELSE "free"

Test(t) ==
  /\ Goto(t, "test", AfterTest(t))
  /\ depth' = IF AfterTest(t) = "idle" THEN [depth EXCEPT ![t] = 1] ELSE depth
  /\ UNCHANGED <<kind, lock, level, eax, contended, keyed>>

\* movw $0, %1 (mutex only)
Zero(t) ==
  /\ Goto(t, "zero", "got_lock")
  /\ level' = 0
  /\ UNCHANGED <<kind, lock, eax, depth, contended, keyed>>

\* got_lock: incw %1 (mutex only)
GotLock(t) ==
  /\ Goto(t, "got_lock", "idle")
  /\ level' = (level + 1) % 65536
  /\ depth' = [depth EXCEPT ![t] = @ + 1]
  /\ UNCHANGED <<kind, lock, eax, contended, keyed>>

-----------------------------------------------------------------------------
(* irq1_handler interrupts the loop: it returns with EAX = 1, the argument *)
(* of pic_send_eoi that it pops.                                           *)
Key(t) ==
  /\ pc[t] \in {"spin_lock", "free", "get_lock", "test"}
  /\ eax' = [eax EXCEPT ![t] = 1]
  /\ keyed' = TRUE
  /\ UNCHANGED <<kind, lock, level, pc, depth, contended>>

-----------------------------------------------------------------------------
(* semaphore_release, and mutex_release with its two accesses to memory.   *)

\* What the owner writes to the lock: 0, nobody.
BadReleasedLock == lock  \* forgets to free the lock

BadFreeLock == -1  \* another mark for a free lock than the loop expects

ReleasedLock == 0

ReleaseSemaphore(t) ==
  /\ kind = "semaphore"
  /\ depth[t] > 0
  /\ Goto(t, "idle", "idle")
  /\ lock' = ReleasedLock
  /\ depth' = [depth EXCEPT ![t] = 0]
  /\ UNCHANGED <<kind, level, eax, contended, keyed>>

BadStillHeld == FALSE  \* frees the lock whatever the level

StillHeld == level # 1

\* --mutex->level == 0?  The level is a uint16_t.
ReleaseLevel(t) ==
  /\ kind = "mutex"
  /\ depth[t] > 0
  /\ Goto(t, "idle", IF StillHeld THEN "idle" ELSE "release")
  /\ level' = (level - 1) % 65536
  /\ depth' = [depth EXCEPT ![t] = @ - 1]
  /\ UNCHANGED <<kind, lock, eax, contended, keyed>>

\* mutex->lock = 0
ReleaseLock(t) ==
  /\ Goto(t, "release", "idle")
  /\ lock' = ReleasedLock
  /\ UNCHANGED <<kind, level, eax, depth, contended, keyed>>

-----------------------------------------------------------------------------
Steps(t) ==
  \/ SpinLock(t) \/ Free(t) \/ Yield(t) \/ GetLock(t) \/ Test(t) \/ Zero(t)
  \/ GotLock(t) \/ ReleaseLock(t)

Release(t) == ReleaseSemaphore(t) \/ ReleaseLevel(t)

Next == \E t \in Tasks : Acquire(t) \/ Steps(t) \/ Key(t) \/ Release(t)

Spec == Init /\ [][Next]_vars

(* The scheduler runs every task again and again, so a task inside the     *)
(* functions goes on; and a task that holds the lock gives it back.        *)
Fairness == \A t \in Tasks : WF_vars(Steps(t)) /\ WF_vars(Release(t))

FairSpec == Spec /\ Fairness

-----------------------------------------------------------------------------
(* Properties.                                                             *)

\* Every variable has its type.
TypeOK ==
  /\ kind \in {"semaphore", "mutex"}
  /\ lock \in Tasks \cup {0, 1}
  /\ level \in Nat /\ level < 65536
  /\ pc \in [Tasks -> Labels]
  /\ eax \in [Tasks -> Tasks \cup {0, 1}]
  /\ depth \in [Tasks -> Nat]
  /\ contended \in BOOLEAN
  /\ keyed \in BOOLEAN

\* t has won the xchg, or is in its critical section, or is just leaving it.
Owns(t) ==
  \/ depth[t] > 0
  \/ pc[t] \in {"zero", "got_lock", "release"}
  \/ pc[t] = "test" /\ eax[t] = 0

(* The lock is not taken by nobody: when it is not 0, some task has won    *)
(* the xchg and has not released it yet.  Were it not so, everybody would  *)
(* yield for ever.  (After a contention two tasks may update the level of  *)
(* a mutex at the same time, and it is never released; a key between the   *)
(* xchg and its test makes the winner take itself for a loser.)            *)
LockHasOwner ==
  ~keyed /\ (kind = "semaphore" \/ ~contended) /\ lock # 0 =>
    \E t \in Tasks : Owns(t)

\* Two tasks are never between acquire and release at the same time.
MutualExclusion == \A t, u \in Tasks : depth[t] > 0 /\ depth[u] > 0 => t = u

(* As long as nobody had to wait in sched_yield, or lost the xchg of a     *)
(* mutex, two tasks do not own the lock at the same time, wherever they    *)
(* are preempted; whoever loses the xchg of a semaphore goes on waiting.   *)
(* A key can orphan a semaphore, but never makes two tasks share it; it    *)
(* may make a mutex mistake its caller for task 1.                         *)
ExclusionUntilContended ==
  ~contended /\ (kind = "semaphore" \/ ~keyed) =>
    \A t, u \in Tasks : Owns(t) /\ Owns(u) => t = u

\* As long as nobody had to wait, and no key came, level counts the
\* acquisitions of the owner.
LevelUntilContended ==
  ~contended /\ ~keyed /\ kind = "mutex" =>
    \A t \in Tasks : depth[t] > 0 => level = depth[t]

(* When tasks want the semaphore, some task gets it: the loop cannot go    *)
(* round for ever with nobody inside, unless a key orphaned the lock.      *)
SomeoneEnters ==
  kind = "semaphore" =>
    (\E t \in Tasks : pc[t] # "idle") ~> (keyed \/ \E t \in Tasks : depth[t] > 0)

=============================================================================
