------------------------------- MODULE Reaper -------------------------------
(***************************************************************************)
(* cleanup_doomed_tasks in the timer interrupt (sched/scheduler.c),        *)
(* composed with the locks it takes there: the mutex of the page allocator *)
(* and the semaphore of the stacks in mm_free_stack, the semaphore of the  *)
(* heap in free.  The handler runs on the stack of the task it interrupted *)
(* and under its tid, with interrupts off.  When it finds a lock taken it  *)
(* calls sched_yield: other tasks run, and are interrupted by other ticks, *)
(* while it is half way through the list.                                  *)
(*                                                                         *)
(* The ring is the sequence of the ready tasks, the current one first      *)
(* (Scheduler has its links).  A task takes and releases its locks one     *)
(* instruction after the other, as in Locks, and the tick may come between *)
(* any two of them.  The handler, which nothing interrupts unless it       *)
(* yields, takes and releases a lock in one step.                          *)
(***************************************************************************)
EXTENDS Integers, Sequences, SequencesExt, FiniteSets

CONSTANTS
  Tasks,   \* the tids of the tasks; the idle task has tid 0
  First    \* the task of kernel_main

Idle == 0

ASSUME ReaperAssumption == Idle \notin Tasks /\ First \in Tasks

Semaphores == {"heap", "stacks"}
Locks == Semaphores \cup {"pages"}

NoLock == "none"

MaxDepth == 2  \* mm_map_page calls mm_alloc_physical_page, and so on

VARIABLES
  ring,         \* the ready tasks; the first one runs
  asleep,       \* the tasks in sched_sleep
  doomed_task,  \* the list of exited tasks
  lock, level,  \* the two semaphores, and the mutex with its level
  pc, on,       \* the instruction each task is at, and on which lock
  eax,          \* its EAX in the loop of an acquisition
  inside,       \* the semaphore each task has, and
  depth,        \*   how often it has the mutex
  irq,          \* the timer handler that runs on the stack of each task
  exited,       \* history: the tasks that have called sched_exit
  freed,        \* history: how often the memory of each task was freed
  overlapped,   \* history: was the list read or added to during a walk?
  contended,    \* history: the locks somebody yielded for (or, of the
                \*   mutex, lost the xchg of)
  torn,         \* history: did the handler free the mutex under its owner?
  keyed         \* history: was a key pressed in the loop?

loop == <<pc, on, eax>>
own == <<inside, depth>>
trouble == <<contended, torn, keyed>>
tasks == <<ring, asleep, doomed_task, exited>>
vars == <<tasks, lock, level, loop, own, irq, freed, overlapped, trouble>>

\* The handler is somewhere in cleanup_doomed_tasks, or does not run.
NoHandler ==
  [walking |-> FALSE, todo |-> <<>>, step |-> "pages", yielded |-> FALSE]

Walk(list) == [NoHandler EXCEPT !.walking = TRUE, !.todo = list]

Running == IF ring = <<>> THEN Idle ELSE Head(ring)

(* sched_park_task(0), and the end of a quantum: the next of the ring.     *)
Rotated(r) == IF r = <<>> THEN r ELSE Append(Tail(r), Head(r))

Init ==
  /\ ring = <<First>>
  /\ asleep = {}
  /\ doomed_task = <<>>
  /\ lock = [l \in Locks |-> 0]
  /\ level = 0
  /\ pc = [t \in Tasks |-> "code"]
  /\ on = [t \in Tasks |-> NoLock]
  /\ eax = [t \in Tasks |-> 0]
  /\ inside = [t \in Tasks |-> NoLock]
  /\ depth = [t \in Tasks |-> 0]
  /\ irq = [c \in Tasks \cup {Idle} |-> NoHandler]
  /\ exited = {}
  /\ freed = [t \in Tasks |-> 0]
  /\ overlapped = FALSE
  /\ contended = {}
  /\ torn = FALSE
  /\ keyed = FALSE

-----------------------------------------------------------------------------
(* What tasks do in their own code: interrupts are on.                     *)

Executes(t) ==
  /\ Running = t
  /\ ~irq[t].walking

\* t neither has a lock nor takes one.
Unlocked(t) == pc[t] = "code" /\ inside[t] = NoLock /\ depth[t] = 0

\* sched_new_thread puts the new task behind the current one.
New(t) ==
  /\ Executes(t)
  /\ Unlocked(t)
  /\ \E u \in Tasks \ (Range(ring) \cup asleep \cup exited) :
       ring' = <<t, u>> \o Tail(ring)
  /\ UNCHANGED <<asleep, doomed_task, exited, lock, level, loop, own, irq,
                 freed, overlapped, trouble>>

\* sched_sleep: nobody sleeps with one of these locks.
Sleep(t) ==
  /\ Executes(t)
  /\ Unlocked(t)
  /\ ring' = Tail(ring)
  /\ asleep' = asleep \cup {t}
  /\ UNCHANGED <<doomed_task, exited, lock, level, loop, own, irq, freed,
                 overlapped, trouble>>

(* sched_exit, sched_kill_task: to the front of the doomed tasks.          *)
(* kernel_main ends in an endless loop instead.                            *)
Exit(t) ==
  /\ Executes(t)
  /\ Unlocked(t)
  /\ t # First
  /\ ring' = Tail(ring)
  /\ doomed_task' = <<t>> \o doomed_task
  /\ exited' = exited \cup {t}
  /\ overlapped' = (overlapped \/ \E c \in DOMAIN irq : irq[c].walking)
  /\ UNCHANGED <<asleep, lock, level, loop, own, irq, freed, trouble>>

-----------------------------------------------------------------------------
(* semaphore_acquire and mutex_acquire, in malloc, in free, in the         *)
(* functions of the page allocator and in those of the stacks.  The        *)
(* conditions are on the task alone; Step adds that it executes.  Bad...   *)
(* are the mistakes the properties are tried on.                           *)

Mutex(t) == on[t] = "pages"

Goto(t, from, to) ==
  /\ pc[t] = from
  /\ pc' = [pc EXCEPT ![t] = to]

\* The end of an acquisition or of a release.
Leave(t, from) ==
  /\ Goto(t, from, "code")
  /\ on' = [on EXCEPT ![t] = NoLock]
  /\ eax' = [eax EXCEPT ![t] = 0]

(* tid goes to EAX.  The functions of the page allocator call each other   *)
(* with the mutex taken, and malloc calls them with the heap taken.        *)
Call(t) ==
  /\ \E l \in Locks :
       /\ depth[t] = 0 \/ l = "pages"
       /\ inside[t] = NoLock \/ (inside[t] = "heap" /\ l = "pages")
       /\ on' = [on EXCEPT ![t] = l]
       /\ Goto(t, "code", IF l = "pages" THEN "spin_lock" ELSE "free")
  /\ depth[t] < MaxDepth
  /\ eax' = [eax EXCEPT ![t] = t]
  /\ UNCHANGED <<ring, lock, level, own, contended>>

\* cmp %2, %0; je got_lock  (mutex only)
SpinLock(t) ==
  /\ Goto(t, "spin_lock", IF lock[on[t]] = eax[t] THEN "got_lock" ELSE "free")
  /\ UNCHANGED <<ring, lock, level, on, eax, own, contended>>

\* cmp $0, %0; je get_lock
Taken(l) == lock[l] # 0

Free(t) ==
  /\ Goto(t, "free", "get_lock")
  /\ ~Taken(on[t])
  /\ UNCHANGED <<ring, lock, level, on, eax, own, contended>>

(* Else call sched_yield, which comes back with EAX = 0; jmp spin_lock.    *)
(* Other tasks cannot tell the comparison from the call.                   *)
FreeYields(t) ==
  /\ Goto(t, "free", IF Mutex(t) THEN "spin_lock" ELSE "free")
  /\ Taken(on[t])
  /\ eax' = [eax EXCEPT ![t] = 0]
  /\ ring' = Rotated(ring)
  /\ contended' = contended \cup {on[t]}
  /\ UNCHANGED <<lock, level, on, own>>

\* xchg %eax, %0
GetLock(t) ==
  /\ Goto(t, "get_lock", "test")
  /\ lock' = [lock EXCEPT ![on[t]] = eax[t]]
  /\ eax' = [eax EXCEPT ![t] = lock[on[t]]]
  /\ contended' = contended \cup (IF Mutex(t) /\ Taken("pages") THEN {"pages"}
                                                                ELSE {})
  /\ UNCHANGED <<ring, level, on, own>>

\* cmp $0, %eax; jne spin_lock
Test(t) ==
  /\ \/ /\ eax[t] = 0 /\ ~Mutex(t)
        /\ Leave(t, "test")
        /\ inside' = [inside EXCEPT ![t] = on[t]]
     \/ /\ eax[t] # 0 \/ Mutex(t)
        /\ Goto(t, "test", IF eax[t] = 0 THEN "zero"
                           ELSE IF Mutex(t) THEN "spin_lock" ELSE "free")
        /\ UNCHANGED <<on, eax, inside>>
  /\ UNCHANGED <<ring, lock, level, depth, contended>>

\* movw $0, %1  (mutex only)
Zero(t) ==
  /\ Goto(t, "zero", "got_lock")
  /\ level' = 0
  /\ UNCHANGED <<ring, lock, on, eax, own, contended>>

\* got_lock: incw %1  (mutex only)
GotLock(t) ==
  /\ Leave(t, "got_lock")
  /\ level' = (level + 1) % 65536
  /\ depth' = [depth EXCEPT ![t] = @ + 1]
  /\ UNCHANGED <<ring, lock, inside, contended>>

-----------------------------------------------------------------------------
(* semaphore_release and mutex_release: the last lock taken first.         *)

BadReleased(l) == lock  \* forgets to free the lock

Released(l) == [lock EXCEPT ![l] = 0]

ReleaseSemaphore(t) ==
  /\ inside[t] # NoLock /\ depth[t] = 0
  /\ Leave(t, "code")
  /\ lock' = Released(inside[t])
  /\ inside' = [inside EXCEPT ![t] = NoLock]
  /\ UNCHANGED <<ring, level, depth, contended>>

BadLastLevel == level = 0  \* tests the level before it is decremented

LastLevel == level = 1

\* --mutex->level == 0?
ReleaseLevel(t) ==
  /\ depth[t] > 0
  /\ Goto(t, "code", IF LastLevel THEN "release" ELSE "code")
  /\ level' = (level - 1) % 65536
  /\ depth' = [depth EXCEPT ![t] = @ - 1]
  /\ UNCHANGED <<ring, lock, on, eax, inside, contended>>

\* mutex->lock = 0
ReleaseLock(t) ==
  /\ Leave(t, "release")
  /\ lock' = Released("pages")
  /\ UNCHANGED <<ring, level, own, contended>>

Step(t) ==
  /\ Executes(t)
  /\ \/ Call(t) \/ SpinLock(t) \/ Free(t) \/ FreeYields(t) \/ GetLock(t)
     \/ Test(t) \/ Zero(t) \/ GotLock(t)
     \/ ReleaseSemaphore(t) \/ ReleaseLevel(t) \/ ReleaseLock(t)
  /\ UNCHANGED <<asleep, doomed_task, exited, irq, freed, overlapped, torn, keyed>>

(* irq1_handler interrupts the loop and leaves 1 in EAX (Locks).           *)
Key(t) ==
  /\ Executes(t)
  /\ pc[t] \in {"spin_lock", "free", "get_lock", "test"}
  /\ eax' = [eax EXCEPT ![t] = 1]
  /\ keyed' = TRUE
  /\ UNCHANGED <<tasks, lock, level, pc, on, own, irq, freed, overlapped,
                 contended, torn>>

-----------------------------------------------------------------------------
(* irq0_handler on the stack of c: sched_ms_tick.                          *)

Tick ==
  LET c == Running IN
  /\ ~irq[c].walking
  /\ irq' = [irq EXCEPT ![c] = Walk(doomed_task)]
  /\ overlapped' = (overlapped \/ \E u \in DOMAIN irq : irq[u].walking)
  /\ UNCHANGED <<tasks, lock, level, loop, own, freed, trouble>>

\* The steps of one iteration, and the lock each one takes.
LockOf(step) == IF step \in {"ms", "pcb"} THEN "heap" ELSE step

BadNextStep(h) ==  \* does not go on to the next task of the list
  CASE h.step = "pages" -> [h EXCEPT !.step = "stacks", !.yielded = FALSE]
    [] h.step = "stacks" -> [h EXCEPT !.step = "ms", !.yielded = FALSE]
    [] h.step = "ms" -> [h EXCEPT !.step = "pcb", !.yielded = FALSE]
    [] h.step = "pcb" -> Walk(<<>>)

NextStep(h) ==
  CASE h.step = "pages" -> [h EXCEPT !.step = "stacks", !.yielded = FALSE]
    [] h.step = "stacks" -> [h EXCEPT !.step = "ms", !.yielded = FALSE]
    [] h.step = "ms" -> [h EXCEPT !.step = "pcb", !.yielded = FALSE]
    [] h.step = "pcb" -> Walk(Tail(h.todo))

\* EAX in the handler: the tid, or 0 once it has yielded for this lock.
HandlerAx(c) == IF irq[c].yielded THEN 0 ELSE c

BadMayEnter(l, a) == lock[l] = 0 \/ l = "pages"  \* a mutex open to all

\* The handler does not have to wait for the lock.
MayEnter(l, a) == lock[l] = 0 \/ (l = "pages" /\ lock[l] = a)

\* mutex_acquire when it does not wait, and mutex_release.
Took(m, a) ==
  IF m.lock = a THEN [m EXCEPT !.level = (@ + 1) % 65536]
                ELSE [lock |-> a, level |-> 1]

Gave(m) ==
  [lock |-> IF m.level = 1 THEN 0 ELSE m.lock, level |-> (m.level - 1) % 65536]

(* mm_free_physical_page; or mm_unmap_page, which may call the former with *)
(* the mutex taken.                                                        *)
PagesAfter(c) ==
  LET m == Took([lock |-> lock["pages"], level |-> level], HandlerAx(c)) IN
  {Gave(m), Gave(Gave(Took(m, c)))}

(* mm_free_stack, which calls these functions for each of its pages, then  *)
(* free(task->ms) and free(task->pcb): one lock after the other, each      *)
(* taken and released with interrupts off.  The owner of the mutex whose   *)
(* level is 0, between its xchg and its incw or at the end of its release, *)
(* finds the lock gone when the handler leaves it.                         *)
Clean ==
  LET c == Running
      h == irq[c]
      l == LockOf(h.step)
  IN /\ h.walking /\ h.todo # <<>>
     /\ MayEnter(l, HandlerAx(c))
     /\ \/ /\ l # "pages"
           /\ irq' = [irq EXCEPT ![c] = NextStep(h)]
           /\ UNCHANGED <<lock, level, torn>>
        \/ /\ l = "pages"
           /\ irq' \in {[irq EXCEPT ![c] = NextStep(h)],
                        [irq EXCEPT ![c].yielded = FALSE]}
           /\ \E m \in PagesAfter(c) :
                /\ lock' = [lock EXCEPT !["pages"] = m.lock]
                /\ level' = m.level
                /\ torn' = (torn \/ m.lock # lock["pages"])
     /\ freed' = IF h.step = "pcb" THEN [freed EXCEPT ![Head(h.todo)] = @ + 1]
                 ELSE freed
     /\ UNCHANGED <<tasks, loop, own, overlapped, contended, keyed>>

(* The lock is taken: sched_yield inside the interrupt.  (In idle it would *)
(* follow the null pointer current_task.)                                  *)
CleanYields ==
  LET c == Running
      l == LockOf(irq[c].step)
  IN /\ c # Idle
     /\ irq[c].walking /\ irq[c].todo # <<>>
     /\ ~MayEnter(l, HandlerAx(c))
     /\ irq' = [irq EXCEPT ![c].yielded = TRUE]
     /\ ring' = Rotated(ring)
     /\ contended' = contended \cup {l}
     /\ UNCHANGED <<asleep, doomed_task, exited, lock, level, loop, own, freed,
                    overlapped, torn, keyed>>

(* doomed_task = NULL; then a sleeper may be put behind the current task,  *)
(* and the quantum may end.                                                *)
Awake(r, u) == IF r = <<>> THEN <<u>> ELSE <<Head(r), u>> \o Tail(r)

TickEnd(r) ==
  LET c == Running IN
  /\ irq[c].walking /\ irq[c].todo = <<>>
  /\ doomed_task' = <<>>
  /\ irq' = [irq EXCEPT ![c] = NoHandler]
  /\ ring' \in {r, Rotated(r)}
  /\ UNCHANGED <<lock, level, loop, own, exited, freed, overlapped, trouble>>

TickWakes == \E u \in asleep : TickEnd(Awake(ring, u)) /\ asleep' = asleep \ {u}

TickStays == TickEnd(ring) /\ UNCHANGED asleep

sched_ms_tick == Clean \/ CleanYields \/ TickWakes \/ TickStays

-----------------------------------------------------------------------------
Next ==
  \/ \E t \in Tasks : New(t) \/ Sleep(t) \/ Exit(t) \/ Step(t) \/ Key(t)
  \/ Tick
  \/ sched_ms_tick

Spec == Init /\ [][Next]_vars

-----------------------------------------------------------------------------
(* Properties.                                                             *)

(* As long as nobody read doomed_task, or added to it, during a walk that  *)
(* had to yield, no task that exited is forgotten: it is in the list until *)
(* the end of the walk that frees it, and that happens once.  A ready or   *)
(* sleeping task is not freed.                                             *)
ReapedExactly ==
  ~overlapped => \A t \in Tasks :
    /\ t \in exited /\ freed[t] = 0 => t \in Range(doomed_task)
    /\ t \in exited /\ freed[t] = 0 =>
         \A c \in DOMAIN irq : irq[c].walking => t \in Range(irq[c].todo)
    /\ freed[t] <= 1
    /\ freed[t] = 1 => t \in exited \ (Range(ring) \cup asleep)

\* The mutex has only ever been taken by one task, or handler, at a time.
PagesUndisturbed == "pages" \notin contended /\ ~torn /\ ~keyed

(* When the CPU is idle the semaphores are free, whoever had to wait for   *)
(* them before, and so is the mutex of the pages unless somebody waited    *)
(* for it, lost its xchg, or had it freed under him by the handler (its    *)
(* level is then wrong and it may never be released): the handler, which   *)
(* would yield with no current task, does not have to.                     *)
IdleFindsLocksFree ==
  ring = <<>> =>
    /\ \A l \in Semaphores : lock[l] = 0
    /\ PagesUndisturbed => lock["pages"] = 0

(* As long as nobody has waited for a lock, the handler does not enter it  *)
(* while a task is inside, wherever in the acquisition and the release the *)
(* tick comes, except that the mutex of the pages lets it in when the task *)
(* it interrupted has it: they have the same tid.  (The mutex is another   *)
(* matter once the handler has freed it under its owner.)                  *)
SharesOnlyPagesBelow ==
  \A c \in DOMAIN irq : irq[c].walking /\ irq[c].todo # <<>> =>
    LET l == LockOf(irq[c].step) IN
    MayEnter(l, HandlerAx(c)) =>
      /\ l \in Semaphores \ contended /\ ~keyed => \A t \in Tasks : inside[t] # l
      /\ l = "pages" /\ PagesUndisturbed => \A t \in Tasks : depth[t] > 0 => t = c

\* The semaphore l is what t, or the handler that runs on it, waits for.
WaitsFor(t, l) ==
  /\ Taken(l)
  /\ IF irq[t].walking THEN irq[t].todo # <<>> /\ LockOf(irq[t].step) = l
                       ELSE pc[t] = "free" /\ on[t] = l

\* t is inside the semaphore l, or about to find that it is.
Owns(t, l) == inside[t] = l \/ (pc[t] = "test" /\ on[t] = l /\ eax[t] = 0)

(* When every task that could run waits for a semaphore, itself or in the  *)
(* timer interrupt, it is because a tick came to a task inside one of the  *)
(* semaphores that are waited for, and waits on its stack: that task never *)
(* goes on.  There is no other way for the kernel to come to a stop with   *)
(* semaphores; a key may orphan one (Locks).                               *)
StuckOnlyBelowHandler ==
  /\ ~keyed /\ ring # <<>>
  /\ \A t \in Range(ring) : \E l \in Semaphores : WaitsFor(t, l)
  => \E t, u \in Range(ring) : \E l \in Semaphores :
       irq[t].walking /\ Owns(t, l) /\ WaitsFor(u, l)

=============================================================================
