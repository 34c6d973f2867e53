----------------------------- MODULE Scheduler -----------------------------
(***************************************************************************)
(* The preemptive scheduler of n00b-os on its single CPU                   *)
(* (kernel/src/arch/i386/sched/scheduler.c and interrupts.S).              *)
(*                                                                         *)
(* The static pointers of scheduler.c and the fields of task_t are the     *)
(* variables below, under their own names.  One field, next, links a task  *)
(* into the schedule ring, into the list of sleepers or into the list of   *)
(* doomed tasks, whichever it is in.                                       *)
(*                                                                         *)
(* The three handlers (IRQ0, int 50, int 51) sit behind interrupt gates:   *)
(* they run with interrupts off and end in sched_switch_next_task.  A loop *)
(* of a handler is one step per iteration; phase says which step of which  *)
(* handler comes next, and nothing else happens until it is "task" again.  *)
(*                                                                         *)
(* The code of a thread runs with interrupts on or off (itr).  Interrupts  *)
(* being on, IRQ0 may come between any two of its statements: this is why  *)
(* the four assignments put_in_schedule_ring makes on behalf of            *)
(* sched_new_thread are steps of their own.                                *)
(***************************************************************************)
EXTENDS Integers, FiniteSets

CONSTANTS
  Tasks,           \* every task_t that is ever allocated, the idle task apart
  First,           \* the task of kernel_main, set up by sched_init_tasks
  NULL,            \* the null pointer; as current_task it stands for idle
  Undef,           \* the content of a field nobody has written yet
  Priorities,      \* the values of enum thread_priority (ticks of a quantum)
  PRIORITY_NORMAL, \* the one the initial pcb has
  MaxSleep,        \* bound: the longest sched_sleep of the instance
  TickInWindow     \* may IRQ0 come while sched_new_thread edits the ring?

ASSUME TasksAssumption ==
  /\ First \in Tasks
  /\ NULL \notin Tasks
  /\ Undef \notin Tasks \cup {NULL}
ASSUME PrioritiesAssumption ==
  /\ Priorities \subseteq Nat \ {0}
  /\ PRIORITY_NORMAL \in Priorities
ASSUME BoundsAssumption ==
  /\ MaxSleep \in Nat
  /\ TickInWindow \in BOOLEAN

VARIABLES
  current_task,    \* the running task, NULL in idle
  switching,       \* will sched_switch_next_task change the task?
  switched_task,   \* the task it will change to, NULL for idle
  sleeping_task,   \* head of the list of sleepers
  doomed_task,     \* head of the list of exited tasks
  next, previous, remaining_ticks,  \* the fields of task_t
  priority,        \* pcb->priority
  itr,             \* the interrupt flag each task runs with, or will resume with
  at, born,        \* position in sched_new_thread, and its new_task
  phase,           \* "task", or the step of the handler that is executing
  reap,            \* local of cleanup_doomed_tasks: task
  walk,            \* locals of the loop in sched_park_task
  state, due, saved
    (* History.  state: the part of its life each task is in.  due: the     *)
    (* ticks left until the sleep a task asked for is over.  saved: does    *)
    (* task->ms hold the context to resume (of idle_task for NULL)?         *)

heads == <<sleeping_task, doomed_task>>
links == <<next, previous>>
creation == <<at, born, itr, priority>>
locals == <<reap, walk>>
history == <<state, due, saved>>
vars == <<current_task, switching, switched_task, heads, links,
          remaining_ticks, creation, phase, locals, history>>

OrNull(S) == S \cup {NULL}

\* Statements 1 to 4 of put_in_schedule_ring, then *tid = new_task->pcb->tid.
Positions == {"code", "next", "previous", "next_previous", "current_next", "tid"}

\* From the read of current_task->next to its update: the ring is inconsistent.
Window == {"previous", "next_previous", "current_next"}

NoWalk == [going |-> NULL, previous |-> NULL, t |-> NULL, remaining |-> 0]

In(s) == {t \in Tasks : state[t] = s}

-----------------------------------------------------------------------------
(* sched_init_tasks: the idle task and the first task exist.  The first    *)
(* task is alone in the ring and runs with interrupts off, as the boot     *)
(* loader left them; its previous and its ms are not initialized.          *)
Init ==
  /\ current_task = First
  /\ switching = FALSE
  /\ switched_task = NULL
  /\ sleeping_task = NULL
  /\ doomed_task = NULL
  /\ next = [t \in Tasks |-> IF t = First THEN First ELSE Undef]
  /\ previous = [t \in Tasks |-> Undef]
  /\ priority = [t \in Tasks |-> PRIORITY_NORMAL]
  /\ remaining_ticks = [t \in Tasks |-> PRIORITY_NORMAL]
  /\ itr = [t \in Tasks |-> FALSE]
  /\ at = [t \in Tasks |-> "code"]
  /\ born = [t \in Tasks |-> NULL]
  /\ phase = "task"
  /\ reap = NULL
  /\ walk = NoWalk
  /\ state = [t \in Tasks |-> IF t = First THEN "ready" ELSE "unborn"]
  /\ due = [t \in Tasks |-> 0]
  /\ saved = [t \in OrNull(Tasks) |-> t = NULL]

-----------------------------------------------------------------------------
(* Threads.                                                                *)

Executes(t) == phase = "task" /\ current_task = t

\* nexttid ends in itr_enable.
ItrAfterNexttid(t) == [itr EXCEPT ![t] = TRUE]

(* sched_new_thread up to the call of put_in_schedule_ring.  It turns      *)
(* interrupts off, but nexttid turns them on again before it returns: the  *)
(* new task is built, and linked, with interrupts on.                      *)
NewThread(t) ==
  /\ Executes(t)
  /\ at[t] = "code"
  /\ \E n \in In("unborn"), p \in Priorities :
       /\ priority' = [priority EXCEPT ![n] = p]
       /\ remaining_ticks' = [remaining_ticks EXCEPT ![n] = p]
       /\ itr' = [ItrAfterNexttid(t) EXCEPT ![n] = TRUE]
       /\ born' = [born EXCEPT ![t] = n]
       /\ at' = [at EXCEPT ![t] = "next"]
       /\ state' = [state EXCEPT ![n] = "embryo"]
       /\ saved' = [saved EXCEPT ![n] = TRUE]
  /\ UNCHANGED <<current_task, switching, switched_task, heads, links, phase,
                 locals, due>>

(* put_in_schedule_ring as sched_new_thread calls it: the caller is        *)
(* running, so current_task is not NULL and the first branch is taken.     *)
LinkNext(t) ==
  /\ at[t] = "next"
  /\ next' = [next EXCEPT ![born[t]] = next[current_task]]
  /\ at' = [at EXCEPT ![t] = "previous"]
  /\ UNCHANGED <<previous, born, state>>

LinkPrevious(t) ==
  /\ at[t] = "previous"
  /\ previous' = [previous EXCEPT ![born[t]] = current_task]
  /\ at' = [at EXCEPT ![t] = "next_previous"]
  /\ UNCHANGED <<next, born, state>>

LinkNextPrevious(t) ==
  /\ at[t] = "next_previous"
  /\ previous' = [previous EXCEPT ![next[born[t]]] = born[t]]
  /\ at' = [at EXCEPT ![t] = "current_next"]
  /\ UNCHANGED <<next, born, state>>

\* The last one; the caller may have asked for the identifier of the thread.
LinkCurrentNext(t) ==
  /\ at[t] = "current_next"
  /\ next' = [next EXCEPT ![current_task] = born[t]]
  /\ state' = [state EXCEPT ![born[t]] = "ready"]
  /\ \/ at' = [at EXCEPT ![t] = "tid"] /\ UNCHANGED born
     \/ at' = [at EXCEPT ![t] = "code"] /\ born' = [born EXCEPT ![t] = NULL]
  /\ UNCHANGED previous

\* *tid = new_task->pcb->tid, once interrupts are on.
ReadTid(t) ==
  /\ at[t] = "tid"
  /\ at' = [at EXCEPT ![t] = "code"]
  /\ born' = [born EXCEPT ![t] = NULL]
  /\ UNCHANGED <<links, state>>

Link(t) ==
  /\ Executes(t)
  /\ \/ LinkNext(t)
     \/ LinkPrevious(t)
     \/ LinkNextPrevious(t)
     \/ LinkCurrentNext(t)
     \/ ReadTid(t)
  /\ UNCHANGED <<current_task, switching, switched_task, heads,
                 remaining_ticks, itr, priority, phase, locals, due, saved>>

-----------------------------------------------------------------------------
(* remove_from_schedule_ring, on the current task c.  The definitions whose *)
(* name starts with Bad are the mistakes the properties are tried on.       *)

Alone(c) == next[c] = c

UnlinkedNext(c) ==
  IF Alone(c) THEN next ELSE [next EXCEPT ![previous[c]] = next[c]]

BadUnlinkedPrevious(c) == previous  \* forgets removed->next->previous

UnlinkedPrevious(c) ==
  IF Alone(c) THEN previous ELSE [previous EXCEPT ![next[c]] = previous[c]]

BadSuccessor(c) == next[c]  \* forgets that the task may be home alone

Successor(c) == IF Alone(c) THEN NULL ELSE next[c]

SwitchTo(s) ==
  /\ switched_task' = s
  /\ switching' = TRUE

(* int 50 with ms = 0 (sched_yield): the task stays in the ring.  The locks *)
(* create_new_task needs, of the heap and of the pages, yield too.          *)
Yield(t) ==
  /\ Executes(t)
  /\ at[t] \in {"code", "next"}
  /\ SwitchTo(next[t])
  /\ phase' = "switch"
  /\ UNCHANGED <<current_task, heads, links, remaining_ticks, creation, locals,
                 history>>

(* int 50 with ms > 0, up to the loop that looks for the task's place      *)
(* among the sleepers.                                                     *)
Sleep(t) ==
  /\ Executes(t)
  /\ at[t] = "code"
  /\ SwitchTo(Successor(t))
  /\ previous' = UnlinkedPrevious(t)
  /\ \E ms \in 1..MaxSleep :
       /\ due' = [due EXCEPT ![t] = ms]
       /\ \/ /\ sleeping_task = NULL
             /\ next' = [UnlinkedNext(t) EXCEPT ![t] = NULL]
             /\ remaining_ticks' = [remaining_ticks EXCEPT ![t] = ms]
             /\ sleeping_task' = t
             /\ state' = [state EXCEPT ![t] = "asleep"]
             /\ phase' = "switch"
             /\ UNCHANGED walk
          \/ /\ sleeping_task # NULL
             /\ next' = UnlinkedNext(t)
             /\ walk' = [going |-> t, previous |-> NULL, t |-> sleeping_task,
                         remaining |-> ms]
             /\ state' = [state EXCEPT ![t] = "parking"]
             /\ phase' = "walk"
             /\ UNCHANGED <<remaining_ticks, sleeping_task>>
  /\ UNCHANGED <<current_task, doomed_task, creation, reap, saved>>

\* An iteration of the loop: each sleeper counts from the one before it.
WalkOn ==
  /\ phase = "walk"
  /\ walk.t # NULL
  /\ remaining_ticks[walk.t] < walk.remaining
  /\ walk' = [walk EXCEPT !.remaining = @ - remaining_ticks[walk.t],
                          !.previous = walk.t,
                          !.t = next[walk.t]]
  /\ UNCHANGED <<current_task, switching, switched_task, heads, links,
                 remaining_ticks, creation, phase, reap, history>>

\* After the loop: g counts from walk.previous, and t counts from g.
BadTicksAfterWalk ==  \* forgets t->remaining_ticks -= remaining
  [remaining_ticks EXCEPT ![walk.going] = walk.remaining]

TicksAfterWalk ==
  [t \in Tasks |->
     IF t = walk.going THEN walk.remaining
     ELSE IF t = walk.t THEN remaining_ticks[t] - walk.remaining
     ELSE remaining_ticks[t]]

\* Insert between previous and t.
WalkEnd ==
  LET g == walk.going IN
  /\ phase = "walk"
  /\ walk.t # NULL => remaining_ticks[walk.t] >= walk.remaining
  /\ remaining_ticks' = TicksAfterWalk
  /\ next' = [t \in Tasks |->
                IF t = g THEN walk.t
                ELSE IF t = walk.previous THEN g ELSE next[t]]
  /\ sleeping_task' = IF walk.previous = NULL THEN g ELSE sleeping_task
  /\ state' = [state EXCEPT ![g] = "asleep"]
  /\ walk' = NoWalk
  /\ phase' = "switch"
  /\ UNCHANGED <<current_task, switching, switched_task, doomed_task, previous,
                 creation, reap, due, saved>>

BadDoomedNext(t) == NULL  \* drops the tasks that are already doomed

DoomedNext(t) == doomed_task

(* int 51 (sched_exit, or the return of the thread's function).  The task  *)
(* of kernel_main never gets there: kernel_main ends in an endless loop.   *)
Exit(t) ==
  /\ Executes(t)
  /\ at[t] = "code"
  /\ t # First
  /\ SwitchTo(Successor(t))
  /\ previous' = UnlinkedPrevious(t)
  /\ next' = [UnlinkedNext(t) EXCEPT ![t] = DoomedNext(t)]
  /\ doomed_task' = t
  /\ state' = [state EXCEPT ![t] = "doomed"]
  /\ phase' = "switch"
  /\ UNCHANGED <<current_task, sleeping_task, remaining_ticks, creation, locals,
                 due, saved>>

-----------------------------------------------------------------------------
(* IRQ0: sched_ms_tick, once per millisecond.                              *)

InterruptsOn == current_task # NULL => itr[current_task]

InWindow == current_task # NULL /\ at[current_task] \in Window

Tick ==
  /\ phase = "task"
  /\ InterruptsOn
  /\ TickInWindow \/ ~InWindow
  /\ reap' = doomed_task
  /\ due' = [t \in Tasks |-> IF state[t] = "asleep" /\ due[t] > 0 THEN due[t] - 1
                                                                ELSE due[t]]
  /\ phase' = "clean"
  /\ UNCHANGED <<current_task, switching, switched_task, heads, links,
                 remaining_ticks, creation, walk, state, saved>>

\* cleanup_doomed_tasks: the stack, the machine state and the pcb are freed.
Clean ==
  /\ phase = "clean"
  /\ reap # NULL
  /\ reap' = next[reap]
  /\ state' = [state EXCEPT ![reap] = "dead"]
  /\ saved' = [saved EXCEPT ![reap] = FALSE]
  /\ UNCHANGED <<current_task, switching, switched_task, heads, links,
                 remaining_ticks, creation, phase, walk, due>>

(* mm_free_stack or free may find its lock taken: sched_yield inside the    *)
(* handler.  The walk may then meet other ticks, and the wait may never     *)
(* end: that is in Reaper, and is not followed here.                        *)
CleanYields ==
  /\ phase = "clean"
  /\ reap # NULL
  /\ phase' = "yield"
  /\ UNCHANGED <<current_task, switching, switched_task, heads, links,
                 remaining_ticks, creation, locals, history>>

BadDoomedAfterClean == doomed_task  \* forgets doomed_task = NULL

DoomedAfterClean == NULL

\* The head of the list counts for every task behind it.
BadTicksAfterMs ==  \* does not count while the CPU is idle
  [t \in Tasks |-> IF t = sleeping_task /\ current_task # NULL
                     THEN remaining_ticks[t] - 1 ELSE remaining_ticks[t]]

TicksAfterMs ==
  [t \in Tasks |-> IF t = sleeping_task THEN remaining_ticks[t] - 1
                                        ELSE remaining_ticks[t]]

\* Its end, and the decrement of the first sleeper.
CleanEnd ==
  /\ phase = "clean"
  /\ reap = NULL
  /\ doomed_task' = DoomedAfterClean
  /\ remaining_ticks' = TicksAfterMs
  /\ phase' = "wake"
  /\ UNCHANGED <<current_task, switching, switched_task, sleeping_task, links,
                 creation, locals, history>>

\* put_in_schedule_ring(w), from the handler.
PutInScheduleRing(w) ==
  LET anchor == IF current_task # NULL THEN current_task ELSE switched_task IN
  \/ /\ anchor # NULL
     /\ next' = [next EXCEPT ![w] = next[anchor], ![anchor] = w]
     /\ previous' = [previous EXCEPT ![w] = anchor, ![next[anchor]] = w]
     /\ UNCHANGED <<switched_task, switching>>
  \/ /\ anchor = NULL
     /\ next' = [next EXCEPT ![w] = w]
     /\ previous' = [previous EXCEPT ![w] = w]
     /\ switched_task' = w
     /\ switching' = TRUE

\* The condition of the loop that wakes the sleepers.
BadTimeIsUp == sleeping_task # NULL /\ remaining_ticks[sleeping_task] \in {0, 1}

TimeIsUp == sleeping_task # NULL /\ remaining_ticks[sleeping_task] = 0

BadAllAwake == TRUE  \* wakes with an if instead of a while

AllAwake == ~TimeIsUp

\* The loop that wakes the sleepers whose time has come.
Wake ==
  /\ phase = "wake"
  /\ TimeIsUp
  /\ PutInScheduleRing(sleeping_task)
  /\ sleeping_task' = next[sleeping_task]
  /\ state' = [state EXCEPT ![sleeping_task] = "ready"]
  /\ UNCHANGED <<current_task, doomed_task, remaining_ticks, creation, phase,
                 locals, due, saved>>

BadQuantumNext(c) == c  \* the task whose quantum ends goes on

QuantumNext(c) == next[c]

\* The quantum of the current task.
Quantum ==
  /\ phase = "wake"
  /\ AllAwake
  /\ phase' = "switch"
  /\ \/ /\ current_task = NULL
        /\ UNCHANGED <<remaining_ticks, switched_task, switching>>
     \/ /\ current_task # NULL
        /\ remaining_ticks' = [remaining_ticks EXCEPT ![current_task] = @ - 1]
        /\ switching' = (remaining_ticks[current_task] = 1)
        /\ switched_task' = IF switching' THEN QuantumNext(current_task)
                                      ELSE switched_task
  /\ UNCHANGED <<current_task, heads, links, creation, locals, history>>

-----------------------------------------------------------------------------
BadSavedBySwitch ==  \* forgets the context of the idle task
  [saved EXCEPT ![current_task] = current_task # NULL, ![switched_task] = FALSE]

SavedBySwitch ==
  [saved EXCEPT ![current_task] = TRUE, ![switched_task] = FALSE]

TicksAfterSwitch ==
  [t \in Tasks |-> IF t = switched_task THEN priority[t] ELSE remaining_ticks[t]]

(* switch_task, at the end of the three handlers: sched_switch_next_task,  *)
(* then iret on the stack it has chosen.                                   *)
Switch ==
  /\ phase = "switch"
  /\ phase' = "task"
  /\ \/ /\ switching
        /\ current_task' = switched_task
        /\ saved' = SavedBySwitch
        /\ remaining_ticks' = TicksAfterSwitch
     \/ /\ ~switching
        /\ UNCHANGED <<current_task, saved, remaining_ticks>>
  /\ UNCHANGED <<switching, switched_task, heads, links, creation, locals,
                 state, due>>

Handler == WalkOn \/ WalkEnd \/ Clean \/ CleanEnd \/ Wake \/ Quantum \/ Switch

\* A walk that has to wait: the end of what this module follows.
NotFollowed == phase = "yield" /\ UNCHANGED vars

Next ==
  \/ \E t \in Tasks : NewThread(t) \/ Link(t) \/ Yield(t) \/ Sleep(t) \/ Exit(t)
  \/ Tick
  \/ Handler
  \/ CleanYields
  \/ NotFollowed

Spec == Init /\ [][Next]_vars

(* A handler runs to its end and a thread inside sched_new_thread goes on, *)
(* as the CPU executes.  IRQ0 stays pending in the PIC until a task runs   *)
(* with interrupts on, so it is not passed over for ever: strong fairness. *)
Fairness ==
  /\ WF_vars(Handler)
  /\ \A t \in Tasks : WF_vars(Link(t))
  /\ SF_vars(Tick)

FairSpec == Spec /\ Fairness

-----------------------------------------------------------------------------
(* Properties.                                                             *)

\* Every variable has its type.
TypeOK ==
  /\ current_task \in OrNull(Tasks)
  /\ switching \in BOOLEAN
  /\ switched_task \in OrNull(Tasks)
  /\ sleeping_task \in OrNull(Tasks)
  /\ doomed_task \in OrNull(Tasks)
  /\ next \in [Tasks -> Tasks \cup {NULL, Undef}]
  /\ previous \in [Tasks -> Tasks \cup {NULL, Undef}]
  /\ remaining_ticks \in [Tasks -> Nat]
  /\ priority \in [Tasks -> Priorities]
  /\ itr \in [Tasks -> BOOLEAN]
  /\ at \in [Tasks -> Positions]
  /\ born \in [Tasks -> OrNull(Tasks)]
  /\ phase \in {"task", "walk", "clean", "yield", "wake", "switch"}
  /\ reap \in OrNull(Tasks)
  /\ walk \in [going : OrNull(Tasks), previous : OrNull(Tasks),
               t : OrNull(Tasks), remaining : Nat]
  /\ state \in [Tasks -> {"unborn", "embryo", "ready", "parking", "asleep",
                          "doomed", "dead"}]
  /\ due \in [Tasks -> Nat]
  /\ saved \in [OrNull(Tasks) -> BOOLEAN]
-----------------------------------------------------------------------------
(* Linked structures, without walking them: a set of tasks that next links *)
(* is one list, or one ring, when no part of it is closed under next.      *)

ClosedUnderNext(X) == \A t \in X : next[t] # NULL => next[t] \in X

(* head is the first of a list of exactly the tasks in S: every link stays *)
(* in S, no two tasks are followed by the same one, none is followed by    *)
(* the head, and the head leads to all of them.                            *)
IsList(head, S) ==
  /\ head \in OrNull(S)
  /\ \A t \in S : next[t] \in OrNull(S) /\ next[t] # t
  /\ \A t \in S : next[t] # NULL => next[t] # head
  /\ \A t, u \in S : next[t] = next[u] /\ next[t] # NULL => t = u
  /\ \A X \in SUBSET S : (head # NULL => head \in X) /\ ClosedUnderNext(X) => X = S

\* t, in sched_new_thread, is between its third and its fourth assignment.
LinkingAfter(t) == at[t] = "current_next"

(* The tasks that can run form one ring, whatever was created, put to      *)
(* sleep, woken up or killed before: next leads from any of them to all of *)
(* them and previous goes the other way.  (The previous of the first task  *)
(* is only set when it gets company, put_in_schedule_ring.)                *)
RingComplete ==
  LET Ready == In("ready") IN
  /\ \A t \in Ready : next[t] \in Ready
  /\ \A t \in Ready : \/ Alone(t) \/ LinkingAfter(t)
                        \/ previous[next[t]] = t
  /\ \A X \in SUBSET Ready : X # {} /\ ClosedUnderNext(X) => X = Ready

(* When no handler executes, current_task is a task that can run, and it   *)
(* is NULL (idle) only when there is none (remove_from_schedule_ring,      *)
(* put_in_schedule_ring and sched_switch_next_task together).  It has a    *)
(* quantum left: the unsigned decrement never wraps, and no task keeps the *)
(* CPU for more ticks than its priority.                                   *)
RunsReadyTask ==
  phase = "task" =>
    \/ /\ current_task \in In("ready")
       /\ remaining_ticks[current_task] \in 1..priority[current_task]
    \/ current_task = NULL /\ In("ready") = {}

(* The list that sched_park_task sorts by relative delay holds exactly the *)
(* sleeping tasks, and the sum of the remaining_ticks up to a task is the  *)
(* time it still has to sleep; due has lost the tick the handler counts.   *)
(* Once sched_ms_tick is done, all who sleep have time left: it wakes      *)
(* every task in the tick in which its sleep is over.                      *)
SleepListExact ==
  LET Asleep == In("asleep")
      uncounted == IF phase \in {"clean", "yield"} THEN 1 ELSE 0
  IN /\ IsList(sleeping_task, Asleep)
     /\ sleeping_task # NULL =>
          remaining_ticks[sleeping_task] = due[sleeping_task] + uncounted
     /\ \A t \in Asleep : next[t] # NULL =>
          due[next[t]] = due[t] + remaining_ticks[next[t]]
     /\ phase \in {"task", "switch", "walk"} => \A t \in Asleep : due[t] >= 1

\* A task is woken when all the ticks it asked for have passed, not before.
NeverEarly ==
  \A t \in Tasks : state[t] = "asleep" /\ state'[t] # "asleep" => due[t] = 0
WakesNeverEarly == [][NeverEarly]_vars

(* The list that cleanup_doomed_tasks goes through holds the tasks that    *)
(* sched_kill_task put there since the last tick; the ones before reap are *)
(* already freed.                                                          *)
DoomedListExact ==
  IsList(IF phase \in {"clean", "yield"} THEN reap ELSE doomed_task,
         In("doomed"))

(* sched_switch_next_task loads a context that was saved and not used      *)
(* since, of a task, of the idle task or of a brand new thread, and        *)
(* cleanup_doomed_tasks finds in the machine state of a task the address   *)
(* of a stack nobody executes on.                                          *)
ContextsSaved ==
  /\ phase = "switch" /\ switching =>
       switched_task = current_task \/ saved[switched_task]
  /\ phase = "clean" /\ reap # NULL => reap # current_task /\ saved[reap]

(* Whoever sleeps wakes up, unless a walk of cleanup_doomed_tasks, which   *)
(* every tick begins with, has found a lock taken: its wait may never end, *)
(* and the ticks that follow wait in the same walk.                        *)
SleeperWakes ==
  \A t \in Tasks :
    state[t] \in {"parking", "asleep"} ~> state[t] = "ready" \/ phase = "yield"

(* The memory of a task that exited is given back (cleanup_doomed_tasks),  *)
(* even when the CPU is idle, on the same condition: no walk finds a lock  *)
(* taken.                                                                  *)
DoomedReaped ==
  \A t \in Tasks : state[t] = "doomed" ~> state[t] = "dead" \/ phase = "yield"

(* A task that can run gets the CPU if the others go to sleep only a       *)
(* finite number of times; they may yield, use their quantum or exit.      *)
(* Tasks that take turns sleeping would keep it waiting for ever, as each  *)
(* one is put back right after current_task (put_in_schedule_ring).  What  *)
(* happens once a walk has found a lock taken is left open here too.       *)
ReadyRunsIfSleepEnds ==
  <>[](In("asleep") \cup In("parking") = {}) =>
    \A t \in Tasks :
      state[t] = "ready" ~> current_task = t \/ phase = "yield"

=============================================================================
