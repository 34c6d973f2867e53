-------------------------- MODULE SchedulerProofs --------------------------
(***************************************************************************)
(* Proofs about Scheduler, for every number of tasks, every priority and   *)
(* every length of sleep, as long as no tick falls into the window in      *)
(* which sched_new_thread edits the ring with interrupts on                *)
(* (TickInWindow = FALSE; MCScheduler_window shows what happens then).     *)
(*                                                                         *)
(* The first part is about links alone: nx is any function of links.  An   *)
(* argument along a list or round a ring uses that no part of it is closed *)
(* under the links; no induction is needed.                                *)
(***************************************************************************)
EXTENDS Scheduler, TLAPS

RingOf(S, nx) ==
  /\ \A t \in S : nx[t] \in S
  /\ \A X \in SUBSET S : X # {} /\ (\A t \in X : nx[t] \in X) => X = S

ListOf(head, S, nx) ==
  /\ head \in OrNull(S)
  /\ \A t \in S : nx[t] \in OrNull(S) /\ nx[t] # t
  /\ \A t \in S : nx[t] # NULL => nx[t] # head
  /\ \A t, u \in S : nx[t] = nx[u] /\ nx[t] # NULL => t = u
  /\ \A X \in SUBSET S :
       (head # NULL => head \in X) /\ (\A t \in X : nx[t] # NULL => nx[t] \in X)
         => X = S

-----------------------------------------------------------------------------
(* Rings.                                                                  *)

\* put_in_schedule_ring: w is put behind a.
LEMMA RingInsert ==
  ASSUME NEW S, NEW nx, NEW nx2, NEW a \in S, NEW w, w \notin S,
         RingOf(S, nx), nx2[w] = nx[a], nx2[a] = w,
         \A t \in S : t # a => nx2[t] = nx[t]
  PROVE  RingOf(S \cup {w}, nx2)
<1>1. \A t \in S \cup {w} : nx2[t] \in S \cup {w}
  BY DEF RingOf
<1>2. ASSUME NEW X \in SUBSET (S \cup {w}), X # {},
             \A t \in X : nx2[t] \in X
      PROVE  X = S \cup {w}
  <2> DEFINE Y == X \ {w}
  <2>1. Y \in SUBSET S  OBVIOUS
  <2>2. Y # {}  BY <1>2 DEF RingOf
  <2>3. \A t \in Y : nx[t] \in Y  BY <1>2, <2>1 DEF RingOf
  <2>4. Y = S  BY <2>1, <2>2, <2>3 DEF RingOf
  <2>5. w \in X  BY <2>4, <1>2
  <2> QED  BY <2>4, <2>5
<1> QED  BY <1>1, <1>2 DEF RingOf

\* In a ring of two tasks or more, somebody is before c.
LEMMA RingPredecessor ==
  ASSUME NEW S, NEW nx, NEW c \in S, RingOf(S, nx), nx[c] # c
  PROVE  \E p \in S : p # c /\ nx[p] = c
<1> SUFFICES ASSUME \A p \in S : nx[p] # c  PROVE FALSE  OBVIOUS
<1> DEFINE X == S \ {c}
<1>1. X \in SUBSET S /\ X # {} /\ \A t \in X : nx[t] \in X  BY DEF RingOf
<1>2. X = S  BY <1>1 DEF RingOf
<1> QED  BY <1>2

\* A task that is followed by itself is alone.
LEMMA RingAlone ==
  ASSUME NEW S, NEW nx, NEW c \in S, RingOf(S, nx), nx[c] = c
  PROVE  S = {c}
<1>1. {c} \in SUBSET S /\ {c} # {} /\ \A t \in {c} : nx[t] \in {c}  OBVIOUS
<1> QED  BY <1>1 DEF RingOf

\* remove_from_schedule_ring: c, which p is the only one before, goes.
LEMMA RingRemove ==
  ASSUME NEW S, NEW nx, NEW nx2, NEW c \in S, NEW p \in S, p # c,
         RingOf(S, nx), nx[p] = c, nx[c] # c,
         \A t \in S : nx[t] = c => t = p,
         nx2[p] = nx[c], \A t \in S : t # p /\ t # c => nx2[t] = nx[t]
  PROVE  RingOf(S \ {c}, nx2)
<1>1. \A t \in S \ {c} : nx2[t] \in S \ {c}  BY DEF RingOf
<1>2. ASSUME NEW X \in SUBSET (S \ {c}), X # {},
             \A t \in X : nx2[t] \in X
      PROVE  X = S \ {c}
  <2> DEFINE Y == IF p \in X THEN X \cup {c} ELSE X
  <2>1. Y \in SUBSET S /\ Y # {}  BY <1>2
  <2>2. \A t \in Y : nx[t] \in Y  BY <1>2
  <2>3. Y = S  BY <2>1, <2>2 DEF RingOf
  <2> QED  BY <2>3
<1> QED  BY <1>1, <1>2 DEF RingOf

\* Links of other tasks do not matter.
LEMMA RingFrame ==
  ASSUME NEW S, NEW nx, NEW nx2, RingOf(S, nx), \A t \in S : nx2[t] = nx[t]
  PROVE  RingOf(S, nx2)
  BY DEF RingOf

-----------------------------------------------------------------------------
(* Lists.                                                                  *)

\* A new head.
LEMMA ListPush ==
  ASSUME NEW S, NEW nx, NEW nx2, NEW head, NEW g, g \notin S, g # NULL,
         NULL \notin S, ListOf(head, S, nx), nx2[g] = head,
         \A t \in S : nx2[t] = nx[t]
  PROVE  ListOf(g, S \cup {g}, nx2)
<1> DEFINE T == S \cup {g}
<1>1. \A t \in T : nx2[t] \in OrNull(T) /\ nx2[t] # t  BY DEF ListOf, OrNull
<1>2. \A t \in T : nx2[t] # NULL => nx2[t] # g  BY DEF ListOf, OrNull
<1>3. \A t, u \in T : nx2[t] = nx2[u] /\ nx2[t] # NULL => t = u
  BY DEF ListOf, OrNull
<1>4. ASSUME NEW X \in SUBSET T, g \in X,
             \A t \in X : nx2[t] # NULL => nx2[t] \in X
      PROVE  X = T
  <2> DEFINE Y == X \ {g}
  <2>1. Y \in SUBSET S  OBVIOUS
  <2>2. head # NULL => head \in Y  BY <1>4 DEF ListOf, OrNull
  <2>3. \A t \in Y : nx[t] # NULL => nx[t] \in Y  BY <1>4, <1>2, <2>1
  <2>4. Y = S  BY <2>1, <2>2, <2>3 DEF ListOf
  <2> QED  BY <2>4, <1>4
<1>5. g \in OrNull(T)  BY DEF OrNull
<1> HIDE DEF T
<1>6. ListOf(g, T, nx2)  BY <1>1, <1>2, <1>3, <1>4, <1>5 DEF ListOf
<1> QED  BY <1>6 DEF T

\* The head is taken away.
LEMMA ListPop ==
  ASSUME NEW S, NEW nx, NEW head, head # NULL, NULL \notin S,
         ListOf(head, S, nx)
  PROVE  ListOf(nx[head], S \ {head}, nx)
<1> DEFINE T == S \ {head}
<1>0. head \in S  BY DEF ListOf, OrNull
<1>1. \A t \in T : nx[t] \in OrNull(T) /\ nx[t] # t  BY DEF ListOf, OrNull
<1>2. \A t \in T : nx[t] # NULL => nx[t] # nx[head]  BY <1>0 DEF ListOf
<1>3. \A t, u \in T : nx[t] = nx[u] /\ nx[t] # NULL => t = u  BY DEF ListOf
<1>4. ASSUME NEW X \in SUBSET T, nx[head] # NULL => nx[head] \in X,
             \A t \in X : nx[t] # NULL => nx[t] \in X
      PROVE  X = T
  <2> DEFINE Y == X \cup {head}
  <2>1. Y \in SUBSET S  BY <1>0
  <2>2. head \in Y  OBVIOUS
  <2>3. \A t \in Y : nx[t] # NULL => nx[t] \in Y  BY <1>4
  <2>4. Y = S  BY <2>1, <2>2, <2>3 DEF ListOf
  <2> QED  BY <2>4
<1>5. nx[head] \in OrNull(T)  BY <1>0 DEF ListOf, OrNull
<1> HIDE DEF T
<1>6. ListOf(nx[head], T, nx)  BY <1>1, <1>2, <1>3, <1>4, <1>5 DEF ListOf
<1> QED  BY <1>6 DEF T

\* g is put behind p.
LEMMA ListInsert ==
  ASSUME NEW S, NEW nx, NEW nx2, NEW head, NEW p \in S, NEW g, g \notin S,
         g # NULL, NULL \notin S, ListOf(head, S, nx), nx2[g] = nx[p],
         nx2[p] = g, \A t \in S : t # p => nx2[t] = nx[t]
  PROVE  ListOf(head, S \cup {g}, nx2)
<1> DEFINE T == S \cup {g}
<1>1. \A t \in T : nx2[t] \in OrNull(T) /\ nx2[t] # t  BY DEF ListOf, OrNull
<1>2. \A t \in T : nx2[t] # NULL => nx2[t] # head  BY DEF ListOf, OrNull
<1>3. \A t, u \in T : nx2[t] = nx2[u] /\ nx2[t] # NULL => t = u
  BY DEF ListOf, OrNull
<1>4. ASSUME NEW X \in SUBSET T, head # NULL => head \in X,
             \A t \in X : nx2[t] # NULL => nx2[t] \in X
      PROVE  X = T
  <2> DEFINE Y == X \ {g}
  <2>1. Y \in SUBSET S  OBVIOUS
  <2>2. head # NULL => head \in Y  BY <1>4 DEF ListOf, OrNull
  <2>3. \A t \in Y : nx[t] # NULL => nx[t] \in Y
    BY <1>4, <2>1 DEF ListOf, OrNull
  <2>4. Y = S  BY <2>1, <2>2, <2>3 DEF ListOf
  <2>5. g \in X  BY <2>4, <1>4
  <2> QED  BY <2>4, <2>5
<1>5. head \in OrNull(T)  BY DEF ListOf, OrNull
<1> HIDE DEF T
<1>6. ListOf(head, T, nx2)  BY <1>1, <1>2, <1>3, <1>4, <1>5 DEF ListOf
<1> QED  BY <1>6 DEF T

\* A list without a head is empty.
LEMMA ListEmpty ==
  ASSUME NEW S, NEW nx, ListOf(NULL, S, nx)
  PROVE  S = {}
<1>1. {} \in SUBSET S /\ \A t \in {} : nx[t] # NULL => nx[t] \in {}  OBVIOUS
<1> QED  BY <1>1 DEF ListOf

\* Links of other tasks do not matter.
LEMMA ListFrame ==
  ASSUME NEW S, NEW nx, NEW nx2, NEW head, ListOf(head, S, nx),
         \A t \in S : nx2[t] = nx[t]
  PROVE  ListOf(head, S, nx2)
  BY DEF ListOf

-----------------------------------------------------------------------------
(* The inductive invariant.                                                *)

Ready == In("ready")
Asleep == In("asleep")

\* The calling thread has a new task that is not yet in the ring.
Linking == {"next"} \cup Window

(* sched_new_thread: only a task in the ring creates tasks; its new task   *)
(* is its own; what the first assignments of put_in_schedule_ring have     *)
(* written is still there, as no handler runs in between.                  *)
Creation ==
  \A t \in Tasks :
    /\ at[t] # "code" => state[t] = "ready"
    /\ at[t] \in Linking => born[t] \in In("embryo")
    /\ \A u \in Tasks : at[t] \in Linking /\ at[u] \in Linking /\ born[t] = born[u]
                          => t = u
    /\ at[t] \in Window =>
         phase = "task" /\ current_task = t /\ next[born[t]] = next[t]
    /\ at[t] \in {"next_previous", "current_next"} => previous[born[t]] = t
    /\ at[t] = "current_next" => previous[next[t]] = born[t]

Ring ==
  /\ RingOf(Ready, next)
  /\ \A t \in Ready : next[t] = t \/ at[t] = "current_next" \/ previous[next[t]] = t

\* switched_task is a good choice for sched_switch_next_task.
GoodChoice == IF switched_task = NULL THEN Ready = {} ELSE switched_task \in Ready

(* Idle runs only when nobody is ready, and with switching set: the first  *)
(* task that wakes up is switched to whatever the quantum code does.       *)
Chosen ==
  /\ current_task = NULL => switching
  /\ phase \in {"task", "clean"} /\ current_task = NULL =>
       switched_task = NULL /\ Ready = {}
  /\ phase \in {"task", "clean", "wake"} /\ current_task # NULL =>
       current_task \in Ready
  /\ phase = "wake" /\ current_task = NULL => GoodChoice
  /\ phase = "walk" => switching
  /\ phase \in {"walk", "switch"} /\ switching => GoodChoice
  /\ phase = "switch" /\ ~switching => current_task \in Ready

Quanta ==
  /\ current_task # NULL
  /\ phase \in {"task", "clean", "wake"} \/ (phase = "switch" /\ ~switching)
  => remaining_ticks[current_task] \in 1..priority[current_task]

Sleepers ==
  /\ ListOf(sleeping_task, Asleep, next)
  /\ sleeping_task # NULL =>
       remaining_ticks[sleeping_task] =
         due[sleeping_task] + (IF phase \in {"clean", "yield"} THEN 1 ELSE 0)
  /\ \A t \in Asleep : next[t] # NULL =>
       due[next[t]] = due[t] + remaining_ticks[next[t]]
  /\ phase \in {"task", "switch", "walk"} => \A t \in Asleep : due[t] >= 1

\* The loop of sched_park_task has not gone too far.
Walking ==
  /\ \A t \in Tasks :
       state[t] = "parking" <=> phase = "walk" /\ t = walk.going
  /\ phase = "walk" =>
       /\ walk.going = current_task /\ current_task # NULL
       /\ walk.remaining >= 1
       /\ walk.t \in OrNull(Asleep)
       /\ walk.previous \in OrNull(Asleep)
       /\ walk.previous = NULL =>
            walk.t = sleeping_task /\ due[walk.going] = walk.remaining
       /\ walk.previous # NULL =>
            /\ next[walk.previous] = walk.t
            /\ due[walk.going] = due[walk.previous] + walk.remaining

Doomed ==
  ListOf(IF phase \in {"clean", "yield"} THEN reap ELSE doomed_task, In("doomed"), next)

\* Who does not run, and is neither to be built nor freed, has a context.
Contexts ==
  /\ current_task # NULL => saved[NULL]
  /\ \A t \in Tasks :
       t # current_task /\ state[t] \notin {"unborn", "dead"} => saved[t]

Inv ==
  /\ TypeOK
  /\ Creation
  /\ Ring
  /\ Chosen
  /\ Quanta
  /\ Sleepers
  /\ Walking
  /\ Doomed
  /\ Contexts

-----------------------------------------------------------------------------
(* The invariant holds initially, and every step keeps it.                 *)

LEMMA InitInv ==
  Init => Inv
<1> SUFFICES ASSUME Init PROVE Inv  OBVIOUS
<1> USE TasksAssumption, PrioritiesAssumption
<1>1. TypeOK  BY DEF Init, TypeOK, OrNull, Positions, NoWalk
<1>2. Ready = {First} /\ Asleep = {} /\ In("doomed") = {}
  BY DEF Init, Ready, Asleep, In
<1>3. Creation  BY DEF Init, Creation, Linking, Window
<1>4. Ring
  <2>1. \A X \in SUBSET {First} : X # {} => X = {First}  OBVIOUS
  <2> QED  BY <2>1, <1>2 DEF Init, Ring, RingOf
<1>5. Chosen  BY <1>2 DEF Init, Chosen
<1>6. Quanta  BY DEF Init, Quanta
<1>7. Sleepers  BY <1>2 DEF Init, Sleepers, ListOf, OrNull
<1>8. Walking  BY DEF Init, Walking
<1>9. Doomed  BY <1>2 DEF Init, Doomed, ListOf, OrNull
<1>10. Contexts  BY DEF Init, Contexts, OrNull
<1> QED  BY <1>1, <1>3, <1>4, <1>5, <1>6, <1>7, <1>8, <1>9, <1>10 DEF Inv

\* sched_yield
LEMMA YieldKeeps ==
  ASSUME Inv, NEW t \in Tasks, Yield(t)
  PROVE  Inv'
<1> USE TasksAssumption DEF Inv
<1>0. t \in Ready /\ next[t] \in Ready
  BY DEF Yield, Executes, Chosen, Ring, RingOf
<1>1. TypeOK'
  BY <1>0 DEF TypeOK, Yield, SwitchTo, Executes, OrNull, Ready, In, heads, links,
             creation, locals, history
<1>2. Ready' = Ready /\ Asleep' = Asleep /\ In("doomed")' = In("doomed")
  BY DEF Yield, history, Ready, Asleep, In
<1>3. Creation'
  BY DEF TypeOK, Yield, Executes, Creation, Linking, Window, In, creation, links,
         history
<1>4. Ring'
  BY <1>2 DEF Yield, Ring, creation, links
<1>5. Chosen'
  BY <1>0, <1>2 DEF Yield, SwitchTo, Executes, Chosen, GoodChoice, Ready, In
<1>6. Quanta'  BY DEF Yield, SwitchTo, Executes, Quanta
<1>7. Sleepers'
  BY <1>2 DEF Yield, Executes, Sleepers, heads, links, history
<1>8. Walking'
  BY <1>2 DEF Yield, Executes, Walking, locals, history
<1>9. Doomed'
  BY <1>2 DEF Yield, Executes, Doomed, heads, links
<1>10. Contexts'  BY DEF Yield, Executes, Contexts, history
<1> QED  BY <1>1, <1>3, <1>4, <1>5, <1>6, <1>7, <1>8, <1>9, <1>10

\* The loop of sched_park_task goes on.
LEMMA WalkOnKeeps ==
  ASSUME Inv, WalkOn
  PROVE  Inv'
<1> USE TasksAssumption DEF Inv
<1>0. walk.t \in Asleep /\ walk.t \in Tasks /\ next[walk.t] \in OrNull(Asleep)
  BY DEF WalkOn, Walking, OrNull, Sleepers, ListOf, Asleep, In
<1>1. TypeOK'
  <2>1. walk.remaining - remaining_ticks[walk.t] \in Nat
    BY <1>0 DEF TypeOK, WalkOn
  <2>2. next[walk.t] \in OrNull(Tasks)  BY <1>0 DEF OrNull, Asleep, In
  <2>3. walk' \in [going : OrNull(Tasks), previous : OrNull(Tasks),
                   t : OrNull(Tasks), remaining : Nat]
    BY <1>0, <2>1, <2>2 DEF TypeOK, WalkOn, OrNull
  <2> QED  BY <2>3 DEF TypeOK, WalkOn, heads, links, creation, history
<1>2. Ready' = Ready /\ Asleep' = Asleep /\ In("doomed")' = In("doomed")
  BY DEF WalkOn, history, Ready, Asleep, In
<1>3. Creation'
  BY DEF WalkOn, Creation, Linking, Window, In, creation, links, history
<1>4. Ring'  BY <1>2 DEF WalkOn, Ring, creation, links
<1>5. Chosen'  BY <1>2 DEF WalkOn, Chosen, GoodChoice
<1>6. Quanta'  BY DEF WalkOn, Quanta
<1>7. Sleepers'  BY <1>2 DEF WalkOn, Sleepers, heads, links, history
<1>8. Walking'
  <2> DEFINE w == walk
  <2>1. /\ w'.going = w.going /\ w'.previous = w.t /\ w'.t = next[w.t]
        /\ w'.remaining = w.remaining - remaining_ticks[w.t]
    BY DEF WalkOn, TypeOK
  <2>2. due[w.going] = due[w.t] + w'.remaining
    <3>1. CASE w.previous = NULL
      BY <3>1, <1>0, <2>1 DEF Walking, WalkOn, Sleepers, TypeOK
    <3>2. CASE w.previous # NULL
      <4>1. w.previous \in Asleep /\ next[w.previous] = w.t
        BY <3>2 DEF Walking, WalkOn, OrNull
      <4>2. due[w.t] = due[w.previous] + remaining_ticks[w.t]
        BY <4>1, <1>0, <3>2 DEF Sleepers, WalkOn
      <4>3. w.previous \in Tasks  BY <4>1 DEF Asleep, In
      <4> QED  BY <3>2, <4>1, <4>2, <4>3, <1>0, <2>1 DEF Walking, WalkOn, TypeOK
    <3> QED  BY <3>1, <3>2
  <2>3. w'.remaining >= 1  BY <2>1, <1>0 DEF WalkOn, TypeOK
  <2>4. w.t # NULL  BY <1>0
  <2> QED
    BY <1>0, <1>2, <2>1, <2>2, <2>3, <2>4 DEF Walking, WalkOn, links, heads, history, OrNull
<1>9. Doomed'  BY <1>2 DEF WalkOn, Doomed, heads, links
<1>10. Contexts'  BY DEF WalkOn, Contexts, history
<1> QED  BY <1>1, <1>3, <1>4, <1>5, <1>6, <1>7, <1>8, <1>9, <1>10

\* IRQ0: doomed_task is read.
LEMMA TickKeeps ==
  ASSUME TickInWindow = FALSE, Inv, Tick
  PROVE  Inv'
<1> USE TasksAssumption DEF Inv
<1>1. TypeOK'
  BY DEF TypeOK, Tick, OrNull, heads, links, creation
<1>2. Ready' = Ready /\ Asleep' = Asleep /\ In("doomed")' = In("doomed")
  BY DEF Tick, Ready, Asleep, In
<1>3. Creation'
  <2>1. \A t \in Tasks : at[t] \notin Window
    BY DEF Creation, Tick, InWindow
  <2> QED
    BY <2>1 DEF Tick, Creation, Linking, Window, In, creation, links
<1>4. Ring'  BY <1>2 DEF Tick, Ring, creation, links
<1>5. Chosen'  BY <1>2 DEF Tick, Chosen, GoodChoice
<1>6. Quanta'  BY DEF Tick, Quanta, creation
<1>7. Sleepers'
  <2>1. \A t \in Asleep : t \in Tasks /\ due'[t] = due[t] - 1 /\ due[t] \in Nat
                          /\ remaining_ticks[t] \in Nat
    BY DEF Tick, Sleepers, Asleep, In, TypeOK
  <2>2. ListOf(sleeping_task, Asleep, next)'  BY <1>2 DEF Tick, Sleepers, links, heads
  <2>3. sleeping_task \in OrNull(Asleep) /\ \A t \in Asleep : next[t] \in OrNull(Asleep)
    BY DEF Sleepers, ListOf
  <2>4. sleeping_task' # NULL =>
          remaining_ticks'[sleeping_task'] = due'[sleeping_task'] + 1
    BY <2>1, <2>3 DEF Tick, Sleepers, heads, OrNull
  <2>5. \A t \in Asleep : next'[t] # NULL =>
          due'[next'[t]] = due'[t] + remaining_ticks'[next'[t]]
    BY <2>1, <2>3 DEF Tick, Sleepers, links, OrNull
  <2> QED  BY <1>2, <2>2, <2>4, <2>5 DEF Sleepers, Tick
<1>8. Walking'  BY DEF Tick, Walking
<1>9. Doomed'  BY <1>2 DEF Tick, Doomed, heads, links
<1>10. Contexts'  BY DEF Tick, Contexts
<1> QED  BY <1>1, <1>3, <1>4, <1>5, <1>6, <1>7, <1>8, <1>9, <1>10

\* cleanup_doomed_tasks frees a task.
LEMMA CleanKeeps ==
  ASSUME Inv, Clean
  PROVE  Inv'
<1> USE TasksAssumption DEF Inv
<1> DEFINE D == In("doomed")
<1>0. ListOf(reap, D, next) /\ NULL \notin D
  BY DEF Clean, Doomed, In
<1>1. reap \in D /\ reap \in Tasks /\ next[reap] \in OrNull(D)
  BY <1>0 DEF Clean, ListOf, OrNull, In
<1>2. Ready' = Ready /\ Asleep' = Asleep /\ D' = D \ {reap}
  BY <1>1 DEF Clean, Ready, Asleep, In, TypeOK
<1>3. TypeOK'
  BY <1>1 DEF TypeOK, Clean, OrNull, In, heads, links, creation
<1>4. Creation'
  BY <1>1 DEF Clean, Creation, Linking, Window, In, creation, links, TypeOK
<1>5. Ring'  BY <1>2 DEF Clean, Ring, creation, links
<1>6. Chosen'  BY <1>2 DEF Clean, Chosen, GoodChoice
<1>7. Quanta'  BY DEF Clean, Quanta, creation
<1>8. Sleepers'  BY <1>2 DEF Clean, Sleepers, heads, links
<1>9. Walking'  BY <1>1 DEF Clean, Walking, TypeOK, In
<1>10. Doomed'
  <2>1. reap # NULL  BY DEF Clean
  <2>2. ListOf(next[reap], D \ {reap}, next)  BY <1>0, <2>1, ListPop
  <2> QED  BY <2>2, <1>2 DEF Clean, Doomed, links
<1>11. Contexts'  BY <1>1 DEF Clean, Contexts, TypeOK, In, OrNull
<1> QED  BY <1>3, <1>4, <1>5, <1>6, <1>7, <1>8, <1>9, <1>10, <1>11

\* A walk that finds a lock taken: only phase changes.
LEMMA CleanYieldsKeeps ==
  ASSUME Inv, CleanYields
  PROVE  Inv'
<1> USE DEF Inv, CleanYields, heads, links, creation, locals, history
<1>1. Ready' = Ready /\ Asleep' = Asleep /\ In("doomed")' = In("doomed")
  BY DEF Ready, Asleep, In
<1>2. TypeOK' /\ Creation' /\ Ring'
  BY <1>1 DEF TypeOK, Creation, Ring, Linking, Window, In
<1>3. Chosen' /\ Quanta'  BY <1>1 DEF Chosen, GoodChoice, Quanta
<1>4. Sleepers' /\ Walking'  BY <1>1 DEF Sleepers, Walking
<1>5. Doomed' /\ Contexts'  BY <1>1 DEF Doomed, Contexts
<1> QED  BY <1>2, <1>3, <1>4, <1>5

\* The end of cleanup_doomed_tasks; the first sleeper loses a tick.
LEMMA CleanEndKeeps ==
  ASSUME Inv, CleanEnd
  PROVE  Inv'
<1> USE TasksAssumption DEF Inv
<1>0. Ready' = Ready /\ Asleep' = Asleep /\ In("doomed")' = In("doomed")
  BY DEF CleanEnd, history, Ready, Asleep, In
<1>1. sleeping_task # NULL =>
        /\ sleeping_task \in Asleep
        /\ sleeping_task \in Tasks
        /\ remaining_ticks[sleeping_task] = due[sleeping_task] + 1
  BY DEF CleanEnd, Sleepers, ListOf, OrNull, Asleep, In
<1>2. remaining_ticks' \in [Tasks -> Nat]
  BY <1>1 DEF CleanEnd, TicksAfterMs, TypeOK
<1>3. TypeOK'
  BY <1>2 DEF TypeOK, CleanEnd, DoomedAfterClean, OrNull, heads, links, creation,
             locals, history
<1>4. Creation'
  BY DEF CleanEnd, Creation, Linking, Window, In, creation, links, history
<1>5. Ring'  BY <1>0 DEF CleanEnd, Ring, creation, links
<1>6. Chosen'  BY <1>0 DEF CleanEnd, Chosen, GoodChoice
<1>7. Quanta'
  <2> SUFFICES ASSUME current_task # NULL
               PROVE  remaining_ticks'[current_task] = remaining_ticks[current_task]
    BY DEF CleanEnd, Quanta, creation
  <2>1. current_task \in Ready /\ current_task \in Tasks
    BY DEF CleanEnd, Chosen, Ready, In
  <2>2. sleeping_task # current_task  BY <1>1, <2>1 DEF Ready, Asleep, In
  <2> QED  BY <2>1, <2>2 DEF CleanEnd, TicksAfterMs
<1>8. Sleepers'
  <2>1. ListOf(sleeping_task, Asleep, next)'
    BY <1>0 DEF CleanEnd, Sleepers, links
  <2>2. \A t \in Asleep : next[t] # NULL =>
          next[t] \in Tasks /\ remaining_ticks'[next[t]] = remaining_ticks[next[t]]
    BY DEF Sleepers, ListOf, CleanEnd, TicksAfterMs, OrNull, Asleep, In
  <2>3. sleeping_task # NULL =>
          remaining_ticks'[sleeping_task] = due[sleeping_task]
    BY <1>1 DEF CleanEnd, TicksAfterMs, TypeOK
  <2>4. sleeping_task # NULL => due[sleeping_task] = due[sleeping_task] + 0
    BY <1>1 DEF TypeOK
  <2> QED
    BY <1>0, <2>1, <2>2, <2>3, <2>4 DEF CleanEnd, Sleepers, links, history
<1>9. Walking'  BY DEF CleanEnd, Walking, history
<1>10. Doomed'  BY <1>0 DEF CleanEnd, Doomed, DoomedAfterClean, links
<1>11. Contexts'  BY DEF CleanEnd, Contexts, history
<1> QED  BY <1>3, <1>4, <1>5, <1>6, <1>7, <1>8, <1>9, <1>10, <1>11

\* sched_switch_next_task
LEMMA SwitchKeeps ==
  ASSUME Inv, Switch
  PROVE  Inv'
<1> USE TasksAssumption, PrioritiesAssumption DEF Inv
<1>0. Ready' = Ready /\ Asleep' = Asleep /\ In("doomed")' = In("doomed")
  BY DEF Switch, Ready, Asleep, In
<1>1. switching => GoodChoice /\ (switched_task # NULL => switched_task \in Ready
                                     /\ switched_task \in Tasks)
  BY DEF Switch, Chosen, GoodChoice, Ready, In
<1>a. \A t \in Tasks : priority[t] \in Nat \ {0}  BY DEF TypeOK
<1>2. remaining_ticks' \in [Tasks -> Nat]
  BY <1>a DEF Switch, TicksAfterSwitch, TypeOK
<1>3. TypeOK'
  BY <1>2 DEF TypeOK, Switch, SavedBySwitch, heads, links, creation, locals
<1>4. Creation'
  <2>1. \A t \in Tasks : at[t] \notin Window  BY DEF Creation, Switch
  <2> QED
    BY <2>1 DEF Switch, Creation, Linking, Window, In, creation, links
<1>5. Ring'  BY <1>0 DEF Switch, Ring, creation, links
<1>6. Chosen'
  BY <1>0, <1>1 DEF Switch, Chosen, GoodChoice
<1>7. Quanta'
  <2> SUFFICES ASSUME current_task' # NULL
               PROVE  remaining_ticks'[current_task'] \in 1..priority[current_task']
    BY DEF Switch, Quanta, creation
  <2>1. CASE switching
    <3>1. remaining_ticks'[switched_task] = priority[switched_task]
      BY <1>1, <2>1 DEF Switch, TicksAfterSwitch
    <3> QED  BY <1>1, <1>a, <2>1, <3>1 DEF Switch
  <2>2. CASE ~switching
    BY <2>2 DEF Switch, Quanta
  <2> QED  BY <2>1, <2>2
<1>8. Sleepers'
  <2>1. \A t \in Asleep : t \in Tasks /\ remaining_ticks'[t] = remaining_ticks[t]
    BY <1>1 DEF Switch, TicksAfterSwitch, Ready, Asleep, In
  <2>2. sleeping_task \in OrNull(Asleep) /\ \A t \in Asleep : next[t] \in OrNull(Asleep)
    BY DEF Sleepers, ListOf
  <2> QED
    BY <1>0, <2>1, <2>2 DEF Switch, Sleepers, heads, links, OrNull
<1>9. Walking'  BY DEF Switch, Walking
<1>10. Doomed'  BY <1>0 DEF Switch, Doomed, heads, links
<1>11. Contexts'
  BY <1>1 DEF Switch, SavedBySwitch, Contexts, TypeOK, OrNull
<1> QED  BY <1>3, <1>4, <1>5, <1>6, <1>7, <1>8, <1>9, <1>10, <1>11

\* The quantum of the current task.
LEMMA QuantumKeeps ==
  ASSUME Inv, Quantum
  PROVE  Inv'
<1> USE TasksAssumption, PrioritiesAssumption DEF Inv
<1>0. Ready' = Ready /\ Asleep' = Asleep /\ In("doomed")' = In("doomed")
  BY DEF Quantum, history, Ready, Asleep, In
<1>1. current_task # NULL =>
        /\ current_task \in Ready
        /\ current_task \in Tasks
        /\ next[current_task] \in Ready
        /\ next[current_task] \in Tasks
        /\ remaining_ticks[current_task] \in 1..priority[current_task]
        /\ priority[current_task] \in Nat
  BY DEF Quantum, Chosen, Ring, RingOf, Quanta, Ready, In, TypeOK
<1>2. remaining_ticks' \in [Tasks -> Nat]
  BY <1>1 DEF Quantum, TypeOK
<1>3. TypeOK'
  <2>1. current_task' \in OrNull(Tasks) /\ switched_task' \in OrNull(Tasks)
        /\ switching' \in BOOLEAN
    BY <1>1 DEF TypeOK, Quantum, QuantumNext, OrNull, heads
  <2> QED
    BY <1>2, <2>1 DEF TypeOK, Quantum, heads, links, creation, locals, history
<1>4. Creation'
  <2>1. \A t \in Tasks : at[t] \notin Window  BY DEF Creation, Quantum
  <2> QED
    BY <2>1 DEF Quantum, Creation, Linking, Window, In, creation, links, history
<1>5. Ring'  BY <1>0 DEF Quantum, Ring, creation, links
<1>6. Chosen'
  BY <1>0, <1>1 DEF Quantum, QuantumNext, Chosen, GoodChoice
<1>7. Quanta'
  <2> SUFFICES ASSUME current_task # NULL, ~switching'
               PROVE  remaining_ticks'[current_task] \in 1..priority[current_task]
    BY DEF Quantum, Quanta, creation
  <2>1. /\ remaining_ticks'[current_task] = remaining_ticks[current_task] - 1
        /\ remaining_ticks[current_task] # 1
    BY <1>1 DEF Quantum, TypeOK
  <2> QED  BY <1>1, <2>1
<1>8. Sleepers'
  <2>1. \A t \in Asleep : t \in Tasks /\ remaining_ticks'[t] = remaining_ticks[t]
    BY <1>1 DEF Quantum, Ready, Asleep, In, TypeOK
  <2>2. sleeping_task \in OrNull(Asleep) /\ \A t \in Asleep : next[t] \in OrNull(Asleep)
    BY DEF Sleepers, ListOf
  <2>3. \A t \in Asleep : due[t] >= 1
    <3> DEFINE X == {t \in Asleep : due[t] >= 1}
    <3>1. sleeping_task # NULL => sleeping_task \in X
      BY <2>1, <2>2 DEF Quantum, AllAwake, TimeIsUp, Sleepers, OrNull, TypeOK
    <3>2. \A t \in X : next[t] # NULL => next[t] \in X
      BY <2>1, <2>2 DEF Sleepers, OrNull, TypeOK
    <3>3. X \in SUBSET Asleep  OBVIOUS
    <3>4. X = Asleep  BY <3>1, <3>2, <3>3 DEF Sleepers, ListOf
    <3> QED  BY <3>4
  <2>4. ListOf(sleeping_task, Asleep, next)'
    BY <1>0 DEF Quantum, Sleepers, heads, links
  <2>5. sleeping_task # NULL =>
          remaining_ticks'[sleeping_task] = due[sleeping_task] + 0
    BY <2>1, <2>2 DEF Quantum, Sleepers, OrNull
  <2>6. \A t \in Asleep : next[t] # NULL =>
          due[next[t]] = due[t] + remaining_ticks'[next[t]]
    BY <2>1, <2>2 DEF Sleepers, OrNull
  <2> QED
    BY <1>0, <2>3, <2>4, <2>5, <2>6 DEF Quantum, Sleepers, heads, links, history
<1>9. Walking'  BY DEF Quantum, Walking, history
<1>10. Doomed'  BY <1>0 DEF Quantum, Doomed, heads, links
<1>11. Contexts'  BY DEF Quantum, Contexts, history
<1> QED  BY <1>3, <1>4, <1>5, <1>6, <1>7, <1>8, <1>9, <1>10, <1>11

(* remove_from_schedule_ring, called for the current task, takes it out of *)
(* the ring, mends the links on both sides, and finds the task that comes  *)
(* after it.                                                               *)
LEMMA Unlink ==
  ASSUME Inv, NEW t \in Tasks, Executes(t), at[t] = "code"
  PROVE  /\ t \in Ready
         /\ RingOf(Ready \ {t}, UnlinkedNext(t))
         /\ \A u \in Ready \ {t} :
              \/ UnlinkedNext(t)[u] = u
              \/ UnlinkedPrevious(t)[UnlinkedNext(t)[u]] = u
         /\ UnlinkedNext(t) \in [Tasks -> Tasks \cup {NULL, Undef}]
         /\ UnlinkedPrevious(t) \in [Tasks -> Tasks \cup {NULL, Undef}]
         /\ \A u \in Tasks \ Ready : UnlinkedNext(t)[u] = next[u]
         /\ IF Successor(t) = NULL THEN Ready \ {t} = {}
                                   ELSE Successor(t) \in Ready \ {t}
<1> USE TasksAssumption DEF Inv
<1> DEFINE nx == UnlinkedNext(t)
           pv == UnlinkedPrevious(t)
           p == previous[t]
<1>1. t \in Ready /\ next[t] \in Ready /\ NULL \notin Ready /\ Ready \subseteq Tasks
  BY DEF Executes, Chosen, Ring, RingOf, Ready, In
<1>2. \A u \in Ready : next[u] = u \/ previous[next[u]] = u
  BY <1>1 DEF Ring, Creation, Executes, Window, Ready, In
<1>3. nx \in [Tasks -> Tasks \cup {NULL, Undef}]
  BY <1>1 DEF UnlinkedNext, TypeOK
<1>4. pv \in [Tasks -> Tasks \cup {NULL, Undef}]
  BY <1>1 DEF UnlinkedPrevious, TypeOK
<1>5. CASE Alone(t)
  <2>1. Ready = {t}  BY <1>1, <1>5, RingAlone DEF Alone, Ring
  <2>2. Ready \ {t} = {}  BY <2>1
  <2>3. RingOf({}, nx)  BY DEF RingOf
  <2>4. nx = next  BY <1>5 DEF UnlinkedNext
  <2>5. Successor(t) = NULL  BY <1>5 DEF Successor
  <2> HIDE DEF nx, pv
  <2>6. RingOf(Ready \ {t}, nx)  BY <2>2, <2>3
  <2> QED  BY <1>1, <1>3, <1>4, <2>2, <2>4, <2>5, <2>6 DEF nx, pv
<1>6. CASE ~Alone(t)
  <2>1. PICK q \in Ready : q # t /\ next[q] = t
    BY <1>1, <1>6, RingPredecessor DEF Alone, Ring
  <2>2. p = q  BY <1>2, <2>1
  <2>3. \A u \in Ready : next[u] = t => u = p
    BY <1>2, <1>6, <2>2 DEF Alone
  <2>4. nx[p] = next[t] /\ \A u \in Tasks : u # p => nx[u] = next[u]
    BY <1>1, <1>6, <2>1, <2>2 DEF UnlinkedNext, TypeOK
  <2>5. pv[next[t]] = p /\ \A u \in Tasks : u # next[t] => pv[u] = previous[u]
    BY <1>1, <1>6, <2>1, <2>2 DEF UnlinkedPrevious, TypeOK
  <2>6. p \in Ready /\ p # t /\ next[p] = t /\ next[t] # t  BY <2>1, <2>2, <1>6 DEF Alone
  <2>7. Successor(t) = next[t]  BY <1>6 DEF Successor
  <2> HIDE DEF nx, pv, p
  <2>8. RingOf(Ready \ {t}, nx)
    <3>1. \A u \in Ready : u # p /\ u # t => nx[u] = next[u]  BY <1>1, <2>4
    <3>2. RingOf(Ready, next)  BY DEF Ring
    <3> QED  BY <1>1, <2>3, <2>4, <2>6, <3>1, <3>2, RingRemove
  <2>9. \A u \in Ready \ {t} : nx[u] = u \/ pv[nx[u]] = u
    <3> SUFFICES ASSUME NEW u \in Ready, u # t PROVE nx[u] = u \/ pv[nx[u]] = u
      OBVIOUS
    <3>1. CASE u = p  BY <3>1, <2>4, <2>5
    <3>2. CASE u # p
      <4>1. nx[u] = next[u] /\ next[u] \in Tasks
        BY <1>1, <2>4, <3>2 DEF Ring, RingOf
      <4>2. next[u] = u \/ next[u] # next[t]  BY <1>1, <1>2, <2>6
      <4> QED  BY <4>1, <4>2, <1>2, <2>5
    <3> QED  BY <3>1, <3>2
  <2> QED
    BY <1>1, <1>3, <1>4, <2>4, <2>6, <2>7, <2>8, <2>9 DEF nx, pv
<1> QED  BY <1>5, <1>6

\* sched_exit: out of the ring, to the front of the doomed tasks.
LEMMA ExitKeeps ==
  ASSUME Inv, NEW t \in Tasks, Exit(t)
  PROVE  Inv'
<1> USE TasksAssumption DEF Inv
<1> DEFINE nx == UnlinkedNext(t)
           pv == UnlinkedPrevious(t)
           D == In("doomed")
<1>0. Executes(t) /\ at[t] = "code" /\ phase = "task" /\ current_task = t
  BY DEF Exit, Executes
<1>1. /\ t \in Ready
      /\ RingOf(Ready \ {t}, nx)
      /\ \A u \in Ready \ {t} : nx[u] = u \/ pv[nx[u]] = u
      /\ nx \in [Tasks -> Tasks \cup {NULL, Undef}]
      /\ pv \in [Tasks -> Tasks \cup {NULL, Undef}]
      /\ \A u \in Tasks \ Ready : nx[u] = next[u]
      /\ IF Successor(t) = NULL THEN Ready \ {t} = {}
                                ELSE Successor(t) \in Ready \ {t}
  BY <1>0, Unlink
<1>2. next' = [nx EXCEPT ![t] = doomed_task] /\ previous' = pv
  BY DEF Exit, DoomedNext
<1>3. state' = [state EXCEPT ![t] = "doomed"] /\ switched_task' = Successor(t)
      /\ switching' = TRUE /\ phase' = "switch" /\ doomed_task' = t
  BY DEF Exit, SwitchTo
<1> HIDE DEF nx, pv
<1>4. Ready' = Ready \ {t} /\ Asleep' = Asleep /\ D' = D \cup {t} /\ t \notin D
      /\ t \notin Asleep
  BY <1>1, <1>3 DEF Ready, Asleep, In, TypeOK
<1>5. /\ next'[t] = doomed_task
      /\ \A u \in Tasks : u # t => next'[u] = nx[u]
      /\ \A u \in Tasks \ Ready : next'[u] = next[u]
  BY <1>1, <1>2
<1>6. TypeOK'
  <2>1. next' \in [Tasks -> Tasks \cup {NULL, Undef}]
    BY <1>1, <1>2 DEF TypeOK, OrNull
  <2>2. Successor(t) \in OrNull(Tasks)  BY <1>1 DEF OrNull, Ready, In
  <2> QED
    BY <1>1, <1>2, <1>3, <2>1, <2>2 DEF TypeOK, Exit, OrNull, creation, locals
<1>7. Creation'
  <2>1. \A u \in Tasks : at[u] \notin Window  BY <1>0 DEF Creation, Window
  <2>2. at' = at /\ born' = born  BY DEF Exit, creation
  <2>3. \A u \in Tasks : at[u] # "code" => u # t /\ state'[u] = "ready"
    BY <1>0, <1>3 DEF Creation, TypeOK
  <2>4. In("embryo") \subseteq In("embryo")'
    BY <1>1, <1>3 DEF Ready, In, TypeOK
  <2> QED  BY <2>1, <2>2, <2>3, <2>4 DEF Creation, Linking, Window
<1>8. Ring'
  <2>1. \A u \in Ready \ {t} : u \in Tasks /\ next'[u] = nx[u]
    BY <1>5 DEF Ready, In
  <2>2. RingOf(Ready \ {t}, next')  BY <1>1, <2>1, RingFrame
  <2> QED  BY <1>1, <1>2, <1>4, <2>1, <2>2 DEF Ring
<1>9. Chosen'
  BY <1>1, <1>0, <1>3, <1>4 DEF Exit, Chosen, GoodChoice
<1>10. Quanta'  BY <1>3 DEF Quanta
<1>11. Sleepers'
  <2>1. \A u \in Asleep : next'[u] = next[u]  BY <1>5 DEF Asleep, Ready, In
  <2>2. ListOf(sleeping_task, Asleep, next')  BY <2>1, ListFrame DEF Sleepers
  <2> QED
    BY <1>0, <1>3, <1>4, <2>1, <2>2 DEF Sleepers, Exit
<1>12. Walking'
  BY <1>0, <1>1, <1>3 DEF Walking, TypeOK, Ready, In
<1>13. Doomed'
  <2>1. \A u \in D : next'[u] = next[u]  BY <1>5 DEF Ready, In
  <2>2. ListOf(doomed_task, D, next)  BY <1>0 DEF Doomed
  <2>3. NULL \notin D /\ t # NULL  BY DEF In
  <2> HIDE DEF D
  <2>4. ListOf(t, D \cup {t}, next')  BY <1>4, <1>5, <2>1, <2>2, <2>3, ListPush
  <2> QED  BY <1>3, <1>4, <2>4 DEF Doomed, D
<1>14. Contexts'
  BY <1>0, <1>3 DEF Contexts, Exit, TypeOK
<1> QED
  BY <1>6, <1>7, <1>8, <1>9, <1>10, <1>11, <1>12, <1>13, <1>14

\* int 50 with ms > 0: out of the ring, into the list if it is empty.
LEMMA SleepKeeps ==
  ASSUME Inv, NEW t \in Tasks, Sleep(t)
  PROVE  Inv'
<1> USE TasksAssumption, BoundsAssumption DEF Inv
<1> DEFINE nx == UnlinkedNext(t)
           pv == UnlinkedPrevious(t)
           D == In("doomed")
           first == sleeping_task = NULL
<1>0. Executes(t) /\ at[t] = "code" /\ phase = "task" /\ current_task = t
  BY DEF Sleep, Executes
<1>1. /\ t \in Ready
      /\ RingOf(Ready \ {t}, nx)
      /\ \A u \in Ready \ {t} : nx[u] = u \/ pv[nx[u]] = u
      /\ nx \in [Tasks -> Tasks \cup {NULL, Undef}]
      /\ pv \in [Tasks -> Tasks \cup {NULL, Undef}]
      /\ \A u \in Tasks \ Ready : nx[u] = next[u]
      /\ IF Successor(t) = NULL THEN Ready \ {t} = {}
                                ELSE Successor(t) \in Ready \ {t}
  BY <1>0, Unlink
<1>2. PICK ms \in 1..MaxSleep :
        /\ due' = [due EXCEPT ![t] = ms]
        /\ first =>
             /\ next' = [nx EXCEPT ![t] = NULL]
             /\ remaining_ticks' = [remaining_ticks EXCEPT ![t] = ms]
             /\ sleeping_task' = t
             /\ state' = [state EXCEPT ![t] = "asleep"]
             /\ phase' = "switch"
             /\ UNCHANGED walk
        /\ ~first =>
             /\ next' = nx
             /\ walk' = [going |-> t, previous |-> NULL, t |-> sleeping_task,
                         remaining |-> ms]
             /\ state' = [state EXCEPT ![t] = "parking"]
             /\ phase' = "walk"
             /\ UNCHANGED <<remaining_ticks, sleeping_task>>
  BY DEF Sleep
<1>3. /\ switched_task' = Successor(t) /\ switching' = TRUE /\ previous' = pv
      /\ UNCHANGED <<current_task, doomed_task, at, born, itr, priority, reap, saved>>
  BY DEF Sleep, SwitchTo, creation
<1>4. ms \in Nat /\ ms >= 1  OBVIOUS
<1> HIDE DEF nx, pv
<1>5. /\ Ready' = Ready \ {t} /\ D' = D /\ t \notin Asleep /\ t \notin D
      /\ first => Asleep' = Asleep \cup {t}
      /\ ~first => Asleep' = Asleep
      /\ In("embryo")' = In("embryo")
  BY <1>1, <1>2 DEF Ready, Asleep, In, TypeOK
<1>6. /\ \A u \in Tasks : u # t => next'[u] = nx[u]
      /\ \A u \in Tasks \ Ready : next'[u] = next[u]
      /\ first => next'[t] = NULL
  BY <1>1, <1>2
<1>7. TypeOK'
  <2>1. next' \in [Tasks -> Tasks \cup {NULL, Undef}]  BY <1>1, <1>2
  <2>2. Successor(t) \in OrNull(Tasks)  BY <1>1 DEF OrNull, Ready, In
  <2>3. walk' \in [going : OrNull(Tasks), previous : OrNull(Tasks),
                   t : OrNull(Tasks), remaining : Nat]
    BY <1>2, <1>4 DEF TypeOK, OrNull
  <2>4. remaining_ticks' \in [Tasks -> Nat] /\ due' \in [Tasks -> Nat]
        /\ sleeping_task' \in OrNull(Tasks)
        /\ phase' \in {"walk", "switch"}
        /\ state' \in [Tasks -> {"unborn", "embryo", "ready", "parking", "asleep",
                                 "doomed", "dead"}]
    BY <1>2, <1>4 DEF TypeOK, OrNull
  <2> QED
    BY <1>1, <1>3, <2>1, <2>2, <2>3, <2>4 DEF TypeOK
<1>8. Creation'
  <2>1. \A u \in Tasks : at[u] \notin Window  BY <1>0 DEF Creation, Window
  <2>2. \A u \in Tasks : at[u] # "code" => u # t /\ state'[u] = "ready"
    BY <1>0, <1>2 DEF Creation, TypeOK
  <2> QED  BY <1>3, <1>5, <2>1, <2>2 DEF Creation, Linking, Window
<1>9. Ring'
  <2>1. \A u \in Ready \ {t} : u \in Tasks /\ next'[u] = nx[u]
    BY <1>6 DEF Ready, In
  <2>2. RingOf(Ready \ {t}, next')  BY <1>1, <2>1, RingFrame
  <2> QED  BY <1>1, <1>3, <1>5, <2>1, <2>2 DEF Ring
<1>10. Chosen'
  BY <1>0, <1>1, <1>2, <1>3, <1>5 DEF Chosen, GoodChoice
<1>11. Quanta'  BY <1>2, <1>3 DEF Quanta
<1>12. Sleepers'
  <2>0. \A u \in Asleep : u \in Tasks /\ u # t /\ next'[u] = next[u]
                          /\ due'[u] = due[u]
                          /\ remaining_ticks'[u] = remaining_ticks[u]
                          /\ next[u] \in OrNull(Asleep) /\ due[u] >= 1
    BY <1>0, <1>2, <1>5, <1>6 DEF Asleep, Ready, In, Sleepers, ListOf, TypeOK
  <2>1. ListOf(sleeping_task, Asleep, next')
    BY <2>0, ListFrame DEF Sleepers
  <2>2. CASE first
    <3>1. Asleep = {}  BY <2>2, ListEmpty DEF Sleepers
    <3>2. ListOf(t, Asleep \cup {t}, next')
      <4>1. NULL \notin Asleep /\ t # NULL  BY DEF Asleep, In
      <4> QED  BY <1>5, <1>6, <2>1, <2>2, <4>1, ListPush
    <3>3. Asleep' = {t} /\ next'[t] = NULL /\ due'[t] = ms /\ remaining_ticks'[t] = ms
      BY <1>2, <1>5, <1>6, <2>2, <3>1 DEF TypeOK
    <3>4. ms = ms + 0  BY <1>4
    <3> QED  BY <1>2, <1>4, <1>5, <2>2, <3>2, <3>3, <3>4 DEF Sleepers
  <2>3. CASE ~first
    <3>1. sleeping_task \in Asleep  BY <2>3 DEF Sleepers, ListOf, OrNull
    <3> QED
      BY <1>0, <1>2, <1>5, <2>0, <2>1, <2>3, <3>1 DEF Sleepers, OrNull
  <2> QED  BY <2>2, <2>3
<1>13. Walking'
  <2>1. \A u \in Tasks : state[u] # "parking"  BY <1>0 DEF Walking
  <2>2. CASE first
    BY <1>2, <2>1, <2>2 DEF Walking, TypeOK
  <2>3. CASE ~first
    <3>1. \A u \in Tasks : state'[u] = "parking" <=> phase' = "walk" /\ u = walk'.going
      BY <1>2, <2>1, <2>3 DEF TypeOK
    <3>2. due'[t] = ms /\ walk'.going = t /\ walk'.previous = NULL
          /\ walk'.t = sleeping_task /\ walk'.remaining = ms
      BY <1>2, <2>3 DEF TypeOK
    <3>3. sleeping_task \in OrNull(Asleep)  BY DEF Sleepers, ListOf
    <3> QED
      BY <1>0, <1>2, <1>3, <1>4, <1>5, <2>3, <3>1, <3>2, <3>3 DEF Walking, OrNull
  <2> QED  BY <2>2, <2>3
<1>14. Doomed'
  <2>1. \A u \in D : next'[u] = next[u]  BY <1>6 DEF Ready, In
  <2>2. ListOf(doomed_task, D, next)  BY <1>0 DEF Doomed
  <2> HIDE DEF D
  <2>3. ListOf(doomed_task, D, next')  BY <2>1, <2>2, ListFrame
  <2> QED  BY <1>2, <1>3, <1>5, <2>3 DEF Doomed, D
<1>15. Contexts'
  BY <1>0, <1>2, <1>3 DEF Contexts, TypeOK
<1> QED
  BY <1>7, <1>8, <1>9, <1>10, <1>11, <1>12, <1>13, <1>14, <1>15

\* The end of sched_park_task: going is put between previous and t.
LEMMA WalkEndKeeps ==
  ASSUME Inv, WalkEnd
  PROVE  Inv'
<1> USE TasksAssumption DEF Inv
<1> DEFINE g == walk.going
           p == walk.previous
           s == walk.t
           r == walk.remaining
           D == In("doomed")
<1>0. /\ phase = "walk" /\ g = current_task /\ g \in Tasks /\ g # NULL
      /\ state[g] = "parking"
      /\ r \in Nat /\ r >= 1
      /\ s \in OrNull(Asleep) /\ p \in OrNull(Asleep)
      /\ p = NULL => s = sleeping_task /\ due[g] = r
      /\ p # NULL => next[p] = s /\ due[g] = due[p] + r
  BY DEF WalkEnd, Walking, TypeOK, OrNull
<1>1. /\ s # NULL => s \in Asleep /\ s \in Tasks /\ remaining_ticks[s] >= r
      /\ p # NULL => p \in Asleep /\ p \in Tasks
      /\ g \notin Asleep /\ NULL \notin Asleep
  BY <1>0 DEF OrNull, Asleep, In, WalkEnd
<1>2. /\ next' = [u \in Tasks |-> IF u = g THEN s ELSE IF u = p THEN g ELSE next[u]]
      /\ remaining_ticks' = [u \in Tasks |->
           IF u = g THEN r ELSE IF u = s THEN remaining_ticks[u] - r
           ELSE remaining_ticks[u]]
      /\ sleeping_task' = IF p = NULL THEN g ELSE sleeping_task
      /\ state' = [state EXCEPT ![g] = "asleep"]
      /\ phase' = "switch"
  BY DEF WalkEnd, TicksAfterWalk
<1>3. UNCHANGED <<current_task, switching, switched_task, doomed_task, previous,
                  at, born, itr, priority, reap, due, saved>>
      /\ walk' = NoWalk
  BY DEF WalkEnd, creation
<1> HIDE DEF g, p, s, r
<1>4. /\ Ready' = Ready /\ D' = D /\ Asleep' = Asleep \cup {g}
      /\ In("embryo")' = In("embryo")
      /\ g \notin Ready /\ g \notin D
  BY <1>0, <1>2 DEF Ready, Asleep, In, TypeOK
<1>5. /\ next'[g] = s /\ (p # NULL => next'[p] = g)
      /\ \A u \in Tasks : u # g /\ u # p => next'[u] = next[u]
  BY <1>0, <1>1, <1>2
<1>6. TypeOK'
  <2>1. next' \in [Tasks -> Tasks \cup {NULL, Undef}]
    BY <1>0, <1>1, <1>2 DEF TypeOK
  <2>2. remaining_ticks' \in [Tasks -> Nat]
    BY <1>0, <1>1, <1>2 DEF TypeOK
  <2>3. walk' \in [going : OrNull(Tasks), previous : OrNull(Tasks),
                   t : OrNull(Tasks), remaining : Nat]
    BY <1>3 DEF NoWalk, OrNull
  <2>4. sleeping_task' \in OrNull(Tasks) /\ phase' = "switch"
        /\ state' \in [Tasks -> {"unborn", "embryo", "ready", "parking", "asleep",
                                 "doomed", "dead"}]
    BY <1>0, <1>2 DEF TypeOK, OrNull
  <2> QED  BY <1>3, <2>1, <2>2, <2>3, <2>4 DEF TypeOK
<1>7. Creation'
  <2>1. \A u \in Tasks : at[u] \notin Window  BY <1>0 DEF Creation
  <2>2. \A u \in Tasks : at[u] # "code" => state'[u] = "ready"
    BY <1>0, <1>2 DEF Creation, TypeOK
  <2> QED  BY <1>3, <1>4, <2>1, <2>2 DEF Creation, Linking, Window
<1>8. Ring'
  <2>1. \A u \in Ready : next'[u] = next[u]
    BY <1>1, <1>4, <1>5 DEF Ready, Asleep, In
  <2>2. RingOf(Ready, next')  BY <2>1, RingFrame DEF Ring
  <2> QED  BY <1>3, <1>4, <2>1, <2>2 DEF Ring
<1>9. Chosen'
  BY <1>0, <1>2, <1>3, <1>4 DEF Chosen, GoodChoice
<1>10. Quanta'  BY <1>0, <1>2, <1>3 DEF Quanta, Chosen
<1>11. Sleepers'
  <2>1. ListOf(sleeping_task', Asleep \cup {g}, next')
    <3>1. CASE p = NULL
      <4>1. \A u \in Asleep : next'[u] = next[u]
        BY <1>1, <1>5, <3>1 DEF Asleep, In
      <4>2. next'[g] = sleeping_task /\ sleeping_task' = g
        BY <1>0, <1>2, <1>5, <3>1
      <4>3. ListOf(sleeping_task, Asleep, next)  BY DEF Sleepers
      <4> QED  BY <1>0, <1>1, <4>1, <4>2, <4>3, ListPush
    <3>2. CASE p # NULL
      <4>1. \A u \in Asleep : u # p => next'[u] = next[u]
        BY <1>1, <1>5, <3>2 DEF Asleep, In
      <4>2. next'[g] = next[p] /\ next'[p] = g /\ sleeping_task' = sleeping_task
        BY <1>0, <1>2, <1>5, <3>2
      <4>3. ListOf(sleeping_task, Asleep, next)  BY DEF Sleepers
      <4>4. p \in Asleep  BY <1>1, <3>2
      <4> QED  BY <1>0, <1>1, <4>1, <4>2, <4>3, <4>4, ListInsert
    <3> QED  BY <3>1, <3>2
  <2>2. \A u \in Asleep : u \in Tasks /\ u # g /\ next[u] \in OrNull(Asleep)
                          /\ remaining_ticks[u] \in Nat /\ due[u] \in Nat /\ due[u] >= 1
    BY <1>0, <1>1 DEF Asleep, In, Sleepers, ListOf, TypeOK
  <2>3. \A u \in Asleep : remaining_ticks'[u] =
          IF u = s THEN remaining_ticks[u] - r ELSE remaining_ticks[u]
    BY <1>2, <2>2
  <2>4. remaining_ticks'[g] = r /\ due' = due /\ due[g] \in Nat
    BY <1>0, <1>2, <1>3 DEF TypeOK
  <2>5. sleeping_task' # NULL =>
          remaining_ticks'[sleeping_task'] = due[sleeping_task'] + 0
    <3>1. CASE p = NULL  BY <1>0, <1>2, <2>4, <3>1
    <3>2. CASE p # NULL
      <4>0. sleeping_task # NULL  BY <1>1, <3>2, ListEmpty DEF Sleepers
      <4>1. sleeping_task' = sleeping_task /\ sleeping_task \in Asleep /\ sleeping_task # NULL
        BY <1>2, <3>2, <4>0 DEF Sleepers, ListOf, OrNull
      <4>2. sleeping_task # s
        BY <1>0, <1>1, <3>2, <4>1 DEF Sleepers, ListOf
      <4> QED  BY <1>0, <2>2, <2>3, <4>1, <4>2 DEF Sleepers
    <3> QED  BY <3>1, <3>2
  <2>6. ASSUME NEW u \in Asleep \cup {g}, next'[u] # NULL
        PROVE  due[next'[u]] = due[u] + remaining_ticks'[next'[u]]
    <3>1. CASE u = g
      <4>1. next'[u] = s /\ s # NULL /\ s \in Asleep  BY <1>1, <1>5, <2>6, <3>1
      <4>2. remaining_ticks'[s] = remaining_ticks[s] - r  BY <2>3, <4>1
      <4>3. CASE p = NULL
        <5>1. due[s] = remaining_ticks[s]
          BY <1>0, <2>2, <4>1, <4>3 DEF Sleepers
        <5> QED  BY <1>0, <2>2, <2>4, <3>1, <4>1, <4>2, <4>3, <5>1
      <4>4. CASE p # NULL
        <5>1. p \in Asleep /\ next[p] = s  BY <1>0, <1>1, <4>4
        <5>2. due[s] = due[p] + remaining_ticks[s]
          BY <4>1, <5>1 DEF Sleepers
        <5> QED  BY <1>0, <2>2, <2>4, <3>1, <4>1, <4>2, <4>4, <5>1, <5>2
      <4> QED  BY <4>3, <4>4
    <3>2. CASE u # g /\ u = p
      <4>1. next'[u] = g  BY <1>1, <1>5, <2>2, <3>2
      <4>2. p # NULL  BY <1>1, <3>2
      <4> QED  BY <1>0, <2>4, <3>2, <4>1, <4>2
    <3>3. CASE u # g /\ u # p
      <4>1. next'[u] = next[u] /\ u \in Asleep  BY <1>5, <2>2, <3>3
      <4>2. next[u] \in Asleep /\ next[u] # NULL  BY <4>1, <2>2, <2>6 DEF OrNull
      <4>3. next[u] # s
        BY <1>0, <1>1, <3>3, <4>1, <4>2 DEF Sleepers, ListOf
      <4> QED  BY <2>3, <4>1, <4>2, <4>3 DEF Sleepers
    <3> QED  BY <3>1, <3>2, <3>3
  <2>7. \A u \in Asleep \cup {g} : due[u] >= 1
    <3>1. due[g] >= 1
      BY <1>0, <1>1, <2>2, <2>4
    <3> QED  BY <2>2, <3>1
  <2> QED  BY <1>2, <1>4, <2>1, <2>4, <2>5, <2>6, <2>7 DEF Sleepers
<1>12. Walking'
  <2>1. \A u \in Tasks : state'[u] # "parking"
    BY <1>0, <1>2 DEF Walking, TypeOK, g
  <2> QED  BY <1>2, <2>1 DEF Walking
<1>13. Doomed'
  <2>1. \A u \in D : next'[u] = next[u]
    BY <1>1, <1>4, <1>5 DEF Asleep, In
  <2>2. ListOf(doomed_task, D, next)  BY <1>0 DEF Doomed
  <2> HIDE DEF D
  <2>3. ListOf(doomed_task, D, next')  BY <2>1, <2>2, ListFrame
  <2> QED  BY <1>2, <1>3, <1>4, <2>3 DEF Doomed, D
<1>14. Contexts'
  BY <1>0, <1>2, <1>3 DEF Contexts, TypeOK
<1> QED
  BY <1>6, <1>7, <1>8, <1>9, <1>10, <1>11, <1>12, <1>13, <1>14

\* The loop that wakes the sleepers takes the first one back into the ring.
LEMMA WakeKeeps ==
  ASSUME Inv, Wake
  PROVE  Inv'
<1> USE TasksAssumption DEF Inv
<1> DEFINE w == sleeping_task
           a == IF current_task # NULL THEN current_task ELSE switched_task
           D == In("doomed")
<1>0. /\ phase = "wake" /\ phase' = "wake" /\ w # NULL /\ remaining_ticks[w] = 0
      /\ sleeping_task' = next[w]
      /\ state' = [state EXCEPT ![w] = "ready"]
      /\ PutInScheduleRing(w)
      /\ UNCHANGED <<current_task, doomed_task, remaining_ticks, at, born, itr,
                     priority, reap, walk, due, saved>>
  BY DEF Wake, TimeIsUp, creation, locals
<1>1. /\ w \in Asleep /\ w \in Tasks /\ w \notin Ready /\ w \notin D
      /\ next[w] \in OrNull(Asleep) /\ due[w] = 0
      /\ ListOf(w, Asleep, next)
  BY <1>0 DEF Sleepers, ListOf, OrNull, Asleep, Ready, In, TypeOK
<1>2. /\ current_task # NULL => current_task \in Ready
      /\ current_task = NULL => GoodChoice
      /\ \A u \in Tasks : at[u] \notin Window
  BY <1>0 DEF Chosen, Creation
<1>3. /\ a # NULL => a \in Ready /\ a \in Tasks /\ next[a] \in Ready /\ next[a] \in Tasks
      /\ a = NULL => Ready = {} /\ current_task = NULL
  BY <1>2 DEF GoodChoice, Ready, In, Ring, RingOf
<1>4. \/ /\ a # NULL
         /\ next' = [next EXCEPT ![w] = next[a], ![a] = w]
         /\ previous' = [previous EXCEPT ![w] = a, ![next[a]] = w]
         /\ UNCHANGED <<switched_task, switching>>
      \/ /\ a = NULL
         /\ next' = [next EXCEPT ![w] = w]
         /\ previous' = [previous EXCEPT ![w] = w]
         /\ switched_task' = w
         /\ switching' = TRUE
  BY <1>0 DEF PutInScheduleRing
<1> HIDE DEF a, w
<1>5. /\ Ready' = Ready \cup {w} /\ Asleep' = Asleep \ {w} /\ D' = D
      /\ In("embryo")' = In("embryo")
  BY <1>0, <1>1 DEF Ready, Asleep, In, TypeOK
<1>6. \A u \in Tasks : u # w /\ u # a => next'[u] = next[u]
  BY <1>4 DEF TypeOK
<1>7. TypeOK'
  <2>1. next' \in [Tasks -> Tasks \cup {NULL, Undef}]
    BY <1>1, <1>3, <1>4 DEF TypeOK
  <2>2. previous' \in [Tasks -> Tasks \cup {NULL, Undef}]
    BY <1>1, <1>3, <1>4 DEF TypeOK
  <2>3. sleeping_task' \in OrNull(Tasks)  BY <1>0, <1>1 DEF OrNull, Asleep, In
  <2>4. switched_task' \in OrNull(Tasks) /\ switching' \in BOOLEAN
    <3>1. /\ switched_task' = switched_task \/ switched_task' = w
          /\ switching' = switching \/ switching' = TRUE
      BY <1>4
    <3>2. switched_task \in OrNull(Tasks) /\ switching \in BOOLEAN  BY DEF TypeOK
    <3>3. w \in OrNull(Tasks)  BY <1>1 DEF OrNull
    <3>4. switched_task' \in OrNull(Tasks)  BY ONLY <3>1, <3>2, <3>3
    <3>5. switching' \in BOOLEAN  BY ONLY <3>1, <3>2
    <3> QED  BY ONLY <3>4, <3>5
  <2>5. state' \in [Tasks -> {"unborn", "embryo", "ready", "parking", "asleep",
                              "doomed", "dead"}]
    BY <1>0 DEF TypeOK
  <2> QED  BY <1>0, <2>1, <2>2, <2>3, <2>4, <2>5 DEF TypeOK
<1>8. Creation'
  <2>1. \A u \in Tasks : at[u] # "code" => state'[u] = "ready"
    BY <1>0 DEF Creation, TypeOK
  <2> QED  BY <1>0, <1>2, <1>5, <2>1 DEF Creation, Linking, Window
<1>9. Ring'
  <2>1. CASE a = NULL
    <3>1. Ready' = {w} /\ next'[w] = w  BY <1>1, <1>3, <1>4, <1>5, <2>1 DEF TypeOK
    <3>2. \A X \in SUBSET {w} : X # {} => X = {w}  OBVIOUS
    <3>3. RingOf({w}, next')  BY <3>1, <3>2 DEF RingOf
    <3> QED  BY <3>1, <3>3 DEF Ring
  <2>2. CASE a # NULL
    <3>1. /\ a \in Ready /\ a # w /\ next[a] # w
          /\ next'[w] = next[a] /\ next'[a] = w
          /\ \A u \in Ready : u # a => next'[u] = next[u]
      BY <1>1, <1>3, <1>4, <1>6, <2>2 DEF TypeOK, Ready, In
    <3>2. RingOf(Ready, next)  BY DEF Ring
    <3>3. RingOf(Ready \cup {w}, next')  BY <1>1, <3>1, <3>2, RingInsert
    <3>4. previous'[next[a]] = w /\ previous'[w] = a
          /\ \A u \in Tasks : u # w /\ u # next[a] => previous'[u] = previous[u]
      BY <1>1, <1>3, <1>4, <2>2, <3>1 DEF TypeOK
    <3>5. \A u \in Ready : next[u] = u \/ previous[next[u]] = u
      BY <1>2 DEF Ring, Window, Ready, In
    <3>6. ASSUME NEW u \in Ready, u # a
          PROVE  next'[u] = u \/ previous'[next'[u]] = u
      <4>1. next'[u] = next[u] /\ next[u] \in Ready /\ next[u] \in Tasks
        BY <3>1, <3>2, <3>6 DEF RingOf, Ready, In
      <4>2. next[u] # w  BY <1>1, <4>1
      <4>3. next[a] # a  BY <3>1, <3>2, <3>6, RingAlone
      <4>4. next[u] = u \/ next[u] # next[a]  BY <3>1, <3>5, <3>6, <4>3
      <4> QED  BY <3>4, <3>5, <4>1, <4>2, <4>4
    <3> QED  BY <1>5, <3>1, <3>3, <3>4, <3>6 DEF Ring
  <2> QED  BY <2>1, <2>2
<1>10. Chosen'
  <2>1. CASE a = NULL
    BY <1>0, <1>1, <1>3, <1>4, <1>5, <2>1 DEF Chosen, GoodChoice
  <2>2. CASE a # NULL
    BY <1>0, <1>3, <1>4, <1>5, <2>2 DEF Chosen, GoodChoice, a
  <2> QED  BY <2>1, <2>2
<1>11. Quanta'  BY <1>0 DEF Quanta
<1>12. Sleepers'
  <2>1. \A u \in Asleep \ {w} : u \in Tasks /\ next'[u] = next[u]
                                /\ next[u] \in OrNull(Asleep)
    BY <1>3, <1>6 DEF Asleep, Ready, In, Sleepers, ListOf
  <2>2. ListOf(next[w], Asleep \ {w}, next)
    <3>1. NULL \notin Asleep  BY DEF Asleep, In
    <3>2. w # NULL  BY <1>0
    <3> QED  BY <1>1, <3>1, <3>2, ListPop
  <2>3. ListOf(next[w], Asleep \ {w}, next')  BY <2>1, <2>2, ListFrame
  <2>4. next[w] # NULL => remaining_ticks[next[w]] = due[next[w]] + 0
    <3> SUFFICES ASSUME next[w] # NULL PROVE remaining_ticks[next[w]] = due[next[w]] + 0
      OBVIOUS
    <3>1. next[w] \in Tasks  BY <1>1 DEF OrNull, Asleep, In
    <3>2. due[next[w]] = 0 + remaining_ticks[next[w]]  BY <1>1 DEF Sleepers
    <3> QED  BY <3>1, <3>2 DEF TypeOK
  <2> QED  BY <1>0, <1>5, <2>1, <2>3, <2>4 DEF Sleepers
<1>13. Walking'
  BY <1>0 DEF Walking, TypeOK
<1>14. Doomed'
  <2>1. \A u \in D : next'[u] = next[u]
    BY <1>1, <1>3, <1>6 DEF Ready, In
  <2>2. ListOf(doomed_task, D, next)  BY <1>0 DEF Doomed
  <2> HIDE DEF D
  <2>3. ListOf(doomed_task, D, next')  BY <2>1, <2>2, ListFrame
  <2> QED  BY <1>0, <1>5, <2>3 DEF Doomed, D
<1>15. Contexts'
  BY <1>0, <1>1 DEF Contexts, TypeOK, Asleep, In
<1> QED
  BY <1>7, <1>8, <1>9, <1>10, <1>11, <1>12, <1>13, <1>14, <1>15

\* sched_new_thread up to put_in_schedule_ring.
LEMMA NewThreadKeeps ==
  ASSUME Inv, NEW t \in Tasks, NewThread(t)
  PROVE  Inv'
<1> USE TasksAssumption, PrioritiesAssumption DEF Inv
<1> DEFINE D == In("doomed")
<1>0. phase = "task" /\ current_task = t /\ at[t] = "code" /\ t \in Ready
  BY DEF NewThread, Executes, Chosen
<1>1. PICK n \in In("unborn"), pr \in Priorities :
        /\ priority' = [priority EXCEPT ![n] = pr]
        /\ remaining_ticks' = [remaining_ticks EXCEPT ![n] = pr]
        /\ itr' = [ItrAfterNexttid(t) EXCEPT ![n] = TRUE]
        /\ born' = [born EXCEPT ![t] = n]
        /\ at' = [at EXCEPT ![t] = "next"]
        /\ state' = [state EXCEPT ![n] = "embryo"]
        /\ saved' = [saved EXCEPT ![n] = TRUE]
  BY DEF NewThread
<1>2. UNCHANGED <<current_task, switching, switched_task, sleeping_task,
                  doomed_task, next, previous, phase, reap, walk, due>>
  BY DEF NewThread, heads, links, locals
<1>3. n \in Tasks /\ state[n] = "unborn" /\ n # t /\ n # current_task /\ pr \in Nat
  BY <1>0 DEF In, Ready
<1>4. /\ Ready' = Ready /\ Asleep' = Asleep /\ D' = D
      /\ In("embryo")' = In("embryo") \cup {n} /\ n \notin In("embryo")
      /\ n \notin Ready /\ n \notin Asleep
  BY <1>1, <1>3 DEF Ready, Asleep, In, TypeOK
<1>5. TypeOK'
  <2>1. itr' \in [Tasks -> BOOLEAN] /\ saved' \in [OrNull(Tasks) -> BOOLEAN]
    BY <1>1 DEF TypeOK, ItrAfterNexttid
  <2>2. priority' \in [Tasks -> Priorities] /\ remaining_ticks' \in [Tasks -> Nat]
        /\ born' \in [Tasks -> OrNull(Tasks)] /\ at' \in [Tasks -> Positions]
        /\ state' \in [Tasks -> {"unborn", "embryo", "ready", "parking", "asleep",
                                 "doomed", "dead"}]
    BY <1>1, <1>3 DEF TypeOK, OrNull, Positions
  <2> QED  BY <1>2, <2>1, <2>2 DEF TypeOK
<1>6. Creation'
  <2>1. \A u \in Tasks : at[u] \notin Window  BY <1>0 DEF Creation, Window
  <2>2. \A u \in Tasks : u # t => at'[u] = at[u] /\ born'[u] = born[u]
    BY <1>1 DEF TypeOK
  <2>3. at'[t] = "next" /\ born'[t] = n  BY <1>1 DEF TypeOK
  <2>4. \A u \in Tasks : at'[u] \notin Window  BY <2>1, <2>2, <2>3 DEF Window
  <2>5. \A u \in Tasks : at'[u] # "code" => state'[u] = "ready"
    BY <1>0, <1>1, <1>3, <2>2, <2>3 DEF Creation, TypeOK, Ready, In
  <2>6. \A u \in Tasks : at'[u] \in Linking => born'[u] \in In("embryo")'
    BY <1>4, <2>2, <2>3 DEF Creation
  <2>7. \A u, v \in Tasks : at'[u] \in Linking /\ at'[v] \in Linking /\ born'[u] = born'[v]
                              => u = v
    BY <1>4, <2>2, <2>3 DEF Creation
  <2> QED  BY <2>4, <2>5, <2>6, <2>7 DEF Creation, Window
<1>7. Ring'
  <2>1. \A u \in Ready : at'[u] = "current_next" <=> at[u] = "current_next"
    BY <1>0, <1>1 DEF TypeOK, Ready, In
  <2> QED  BY <1>2, <1>4, <2>1 DEF Ring
<1>8. Chosen'  BY <1>2, <1>4 DEF Chosen, GoodChoice
<1>9. Quanta'  BY <1>0, <1>1, <1>2, <1>3 DEF Quanta, TypeOK
<1>10. Sleepers'
  <2>1. \A u \in Asleep : u \in Tasks /\ remaining_ticks'[u] = remaining_ticks[u]
                          /\ next[u] \in OrNull(Asleep)
    BY <1>1, <1>4 DEF Asleep, In, Sleepers, ListOf, TypeOK
  <2>2. sleeping_task \in OrNull(Asleep)  BY DEF Sleepers, ListOf
  <2> QED  BY <1>2, <1>4, <2>1, <2>2 DEF Sleepers, OrNull
<1>11. Walking'  BY <1>0, <1>1, <1>2, <1>3 DEF Walking, TypeOK
<1>12. Doomed'  BY <1>2, <1>4 DEF Doomed
<1>13. Contexts'  BY <1>0, <1>1, <1>2, <1>3 DEF Contexts, TypeOK, OrNull
<1> QED
  BY <1>5, <1>6, <1>7, <1>8, <1>9, <1>10, <1>11, <1>12, <1>13

(* An assignment of put_in_schedule_ring to a field of the new task, or to *)
(* the previous of the task that will follow it, changes neither the ring  *)
(* nor a list.                                                             *)
LEMMA LinkFrame ==
  ASSUME Inv, NEW t \in Tasks, Link(t), state' = state,
         \A u \in Tasks : state[u] # "embryo" => next'[u] = next[u]
  PROVE  Chosen' /\ Quanta' /\ Sleepers' /\ Walking' /\ Doomed' /\ Contexts'
<1> USE DEF Inv
<1>1. Ready' = Ready /\ Asleep' = Asleep /\ In("doomed")' = In("doomed")
  BY DEF Ready, Asleep, In
<1>2. UNCHANGED <<current_task, switching, switched_task, sleeping_task,
                  doomed_task, remaining_ticks, itr, priority, phase, reap, walk,
                  due, saved>>
      /\ phase = "task"
  BY DEF Link, Executes, heads, locals
<1>3. Chosen' /\ Quanta' /\ Contexts'
  BY <1>1, <1>2 DEF Chosen, GoodChoice, Quanta, Contexts
<1>4. Sleepers'
  <2>1. \A u \in Asleep : next'[u] = next[u]  BY DEF Asleep, In
  <2>2. ListOf(sleeping_task, Asleep, next')  BY <2>1, ListFrame DEF Sleepers
  <2> QED  BY <1>1, <1>2, <2>1, <2>2 DEF Sleepers
<1>5. Walking'  BY <1>2 DEF Walking
<1>6. Doomed'
  <2>1. \A u \in In("doomed") : next'[u] = next[u]  BY DEF In
  <2>2. ListOf(doomed_task, In("doomed"), next)  BY <1>2 DEF Doomed
  <2>3. ListOf(doomed_task, In("doomed"), next')  BY <2>1, <2>2, ListFrame
  <2> QED  BY <1>1, <1>2, <2>3 DEF Doomed
<1> QED  BY <1>3, <1>4, <1>5, <1>6

\* The assignments of put_in_schedule_ring, called by sched_new_thread.
LEMMA LinkKeeps ==
  ASSUME Inv, NEW t \in Tasks, Link(t)
  PROVE  Inv'
<1> USE TasksAssumption DEF Inv
<1> DEFINE n == born[t]
<1>0. /\ phase = "task" /\ current_task = t /\ t \in Ready
      /\ next[t] \in Ready /\ next[t] \in Tasks
      /\ UNCHANGED <<current_task, switching, switched_task, sleeping_task,
                     doomed_task, remaining_ticks, itr, priority, phase, reap,
                     walk, due, saved>>
  BY DEF Link, Executes, Chosen, Ring, RingOf, heads, locals, Ready, In
<1>1. \A u \in Tasks : u # t => at[u] \notin Window
  BY <1>0 DEF Creation
<1>2. at[t] \in Linking =>
        n \in Tasks /\ state[n] = "embryo" /\ n \notin Ready /\ n # t /\ n # next[t]
  BY <1>0 DEF Creation, In, Ready
<1>3. CASE LinkNext(t)
  <2>1. /\ at[t] = "next" /\ at' = [at EXCEPT ![t] = "previous"]
        /\ next' = [next EXCEPT ![n] = next[t]]
        /\ UNCHANGED <<previous, born, state>>
    BY <1>0, <1>3 DEF LinkNext
  <2>2. n \in Tasks /\ state[n] = "embryo" /\ n \notin Ready /\ n # t
    BY <1>2, <2>1 DEF Linking
  <2>3. \A u \in Tasks : u # n => next'[u] = next[u]
    BY <2>1 DEF TypeOK
  <2>4. TypeOK'  BY <1>0, <2>1 DEF TypeOK, Positions
  <2>5. Creation'
    <3>1. /\ at'[t] = "previous"
          /\ \A u \in Tasks : u # t => at'[u] = at[u]
          /\ next'[n] = next[t] /\ next'[t] = next[t]
      BY <1>0, <2>1, <2>2, <2>3 DEF TypeOK
    <3>2. In("embryo")' = In("embryo")  BY <2>1 DEF In
    <3> QED
      BY <1>0, <1>1, <2>1, <3>1, <3>2 DEF Creation, Linking, Window, Ready, In
  <2>6. Ready' = Ready  BY <2>1 DEF Ready, In
  <2>7. Ring'
    <3>1. \A u \in Ready : next'[u] = next[u]  BY <2>2, <2>3 DEF Ready, In
    <3>2. RingOf(Ready, next')  BY <3>1, RingFrame DEF Ring
    <3>3. \A u \in Ready : at[u] # "current_next"
      BY <1>1, <2>1 DEF Window, Ready, In
    <3> QED  BY <2>1, <2>6, <3>1, <3>2, <3>3 DEF Ring
  <2> QED  BY <2>1, <2>2, <2>3, <2>4, <2>5, <2>7, LinkFrame
<1>4. CASE LinkPrevious(t)
  <2>1. /\ at[t] = "previous" /\ at' = [at EXCEPT ![t] = "next_previous"]
        /\ previous' = [previous EXCEPT ![n] = t]
        /\ UNCHANGED <<next, born, state>>
    BY <1>0, <1>4 DEF LinkPrevious
  <2>2. n \in Tasks /\ state[n] = "embryo" /\ n \notin Ready /\ n # t
    BY <1>2, <2>1 DEF Linking, Window
  <2>4. TypeOK'  BY <1>0, <2>1 DEF TypeOK, Positions
  <2>5. Creation'
    <3>1. /\ at'[t] = "next_previous" /\ previous'[n] = t
          /\ \A u \in Tasks : u # t => at'[u] = at[u]
      BY <2>1, <2>2 DEF TypeOK
    <3>2. In("embryo")' = In("embryo")  BY <2>1 DEF In
    <3> QED
      BY <1>0, <1>1, <2>1, <3>1, <3>2 DEF Creation, Linking, Window, Ready, In
  <2>6. Ready' = Ready  BY <2>1 DEF Ready, In
  <2>7. Ring'
    <3>1. \A u \in Ready : next[u] \in Ready  BY DEF Ring, RingOf
    <3>2. \A u \in Ready : previous'[next[u]] = previous[next[u]]
      BY <2>1, <2>2, <3>1 DEF TypeOK, Ready, In
    <3>3. \A u \in Ready : at[u] # "current_next"
      BY <1>1, <2>1 DEF Window, Ready, In
    <3> QED  BY <2>1, <2>6, <3>2, <3>3 DEF Ring
  <2> QED  BY <2>1, <2>4, <2>5, <2>7, LinkFrame
<1>5. CASE LinkNextPrevious(t)
  <2>1. /\ at[t] = "next_previous" /\ at' = [at EXCEPT ![t] = "current_next"]
        /\ previous' = [previous EXCEPT ![next[n]] = n]
        /\ UNCHANGED <<next, born, state>>
    BY <1>0, <1>5 DEF LinkNextPrevious
  <2>2. n \in Tasks /\ state[n] = "embryo" /\ n \notin Ready /\ n # t /\ n # next[t]
        /\ next[n] = next[t] /\ previous[n] = t
    BY <1>2, <2>1 DEF Linking, Window, Creation
  <2>3. previous'[next[t]] = n /\ previous'[n] = t
        /\ \A u \in Tasks : u # next[t] => previous'[u] = previous[u]
    BY <1>0, <2>1, <2>2 DEF TypeOK
  <2>4. TypeOK'  BY <1>0, <2>1, <2>2 DEF TypeOK, Positions
  <2>5. Creation'
    <3>1. /\ at'[t] = "current_next"
          /\ \A u \in Tasks : u # t => at'[u] = at[u]
      BY <2>1 DEF TypeOK
    <3>2. In("embryo")' = In("embryo")  BY <2>1 DEF In
    <3> QED
      BY <1>0, <1>1, <2>1, <2>2, <2>3, <3>1, <3>2
         DEF Creation, Linking, Window, Ready, In
  <2>6. Ready' = Ready  BY <2>1 DEF Ready, In
  <2>7. Ring'
    <3>1. \A u \in Ready : u \in Tasks /\ next[u] \in Ready /\ next[u] \in Tasks
      BY DEF Ring, RingOf, Ready, In
    <3>2. \A u \in Ready : next[u] = u \/ previous[next[u]] = u
      BY <1>1, <2>1, <3>1 DEF Ring, Window
    <3>3. ASSUME NEW u \in Ready, u # t
          PROVE  next[u] = u \/ previous'[next[u]] = u
      <4>1. next[t] # t  BY <1>0, <3>3, RingAlone DEF Ring
      <4>2. next[u] = u \/ next[u] # next[t]  BY <1>0, <3>2, <3>3, <4>1
      <4> QED  BY <2>3, <3>1, <3>2, <4>2
    <3>4. at'[t] = "current_next"  BY <2>1 DEF TypeOK
    <3> QED  BY <2>1, <2>6, <3>3, <3>4 DEF Ring
  <2> QED  BY <2>1, <2>4, <2>5, <2>7, LinkFrame
<1>6. CASE ReadTid(t)
  <2>1. /\ at[t] = "tid" /\ at' = [at EXCEPT ![t] = "code"]
        /\ born' = [born EXCEPT ![t] = NULL]
        /\ UNCHANGED <<next, previous, state>>
    BY <1>6 DEF ReadTid, links
  <2>2. TypeOK'  BY <1>0, <2>1 DEF TypeOK, Positions, OrNull
  <2>3. /\ at'[t] = "code"
        /\ \A u \in Tasks : u # t => at'[u] = at[u] /\ born'[u] = born[u]
    BY <2>1 DEF TypeOK
  <2>4. In("embryo")' = In("embryo") /\ Ready' = Ready  BY <2>1 DEF Ready, In
  <2>5. Creation'
    BY <1>0, <1>1, <2>1, <2>3, <2>4 DEF Creation, Linking, Window
  <2>6. Ring'
    <3>1. \A u \in Ready : at[u] # "current_next"
      BY <1>1, <2>1 DEF Window, Ready, In
    <3> QED  BY <2>1, <2>4, <3>1 DEF Ring
  <2> QED  BY <2>1, <2>2, <2>5, <2>6, LinkFrame
<1>7. CASE LinkCurrentNext(t)
  <2>1. /\ at[t] = "current_next"
        /\ next' = [next EXCEPT ![t] = n]
        /\ state' = [state EXCEPT ![n] = "ready"]
        /\ UNCHANGED previous
        /\ at' \in {[at EXCEPT ![t] = "tid"], [at EXCEPT ![t] = "code"]}
        /\ born' \in {born, [born EXCEPT ![t] = NULL]}
    BY <1>0, <1>7 DEF LinkCurrentNext
  <2>2. n \in Tasks /\ state[n] = "embryo" /\ n \notin Ready /\ n # t /\ n # next[t]
        /\ next[n] = next[t] /\ previous[n] = t /\ previous[next[t]] = n
    BY <1>2, <2>1 DEF Linking, Window, Creation
  <2>3. TypeOK'
    <3>1. at' \in [Tasks -> Positions] /\ born' \in [Tasks -> OrNull(Tasks)]
      BY <2>1 DEF TypeOK, Positions, OrNull
    <3>2. next' \in [Tasks -> Tasks \cup {NULL, Undef}]  BY <2>1, <2>2 DEF TypeOK
    <3>3. state' \in [Tasks -> {"unborn", "embryo", "ready", "parking", "asleep",
                                "doomed", "dead"}]
      BY <2>1 DEF TypeOK
    <3> QED  BY <1>0, <2>1, <3>1, <3>2, <3>3 DEF TypeOK
  <2>4. /\ next'[t] = n /\ next'[n] = next[t]
        /\ \A u \in Tasks : u # t => next'[u] = next[u]
        /\ at'[t] \in {"tid", "code"}
        /\ \A u \in Tasks : u # t => at'[u] = at[u] /\ born'[u] = born[u]
    BY <2>1, <2>2 DEF TypeOK
  <2>5. /\ Ready' = Ready \cup {n} /\ Asleep' = Asleep
        /\ In("doomed")' = In("doomed") /\ In("embryo")' = In("embryo") \ {n}
        /\ n \notin Asleep /\ n \notin In("doomed")
    BY <2>1, <2>2 DEF Ready, Asleep, In, TypeOK
  <2>6. Creation'
    <3>1. \A u \in Tasks : at'[u] \notin Window  BY <1>1, <2>4 DEF Window
    <3>2. \A u \in Tasks : at'[u] # "code" => state'[u] = "ready"
      BY <1>0, <2>1, <2>2, <2>4 DEF Creation, TypeOK, Ready, In
    <3>3. \A u \in Tasks : at'[u] \in Linking => u # t  BY <2>4 DEF Linking, Window
    <3>4. \A u \in Tasks : at'[u] \in Linking => born'[u] \in In("embryo") \ {n}
      BY <2>1, <2>4, <3>3 DEF Creation, Linking, Window
    <3> QED
      BY <2>4, <2>5, <3>1, <3>2, <3>3, <3>4 DEF Creation, Window
  <2>7. Ring'
    <3>1. RingOf(Ready, next)  BY DEF Ring
    <3>2. \A u \in Ready : u # t => next'[u] = next[u]  BY <2>4 DEF Ready, In
    <3>3. RingOf(Ready \cup {n}, next')
      <4>1. t \in Ready /\ n \notin Ready  BY <1>0, <2>2
      <4>2. next'[t] = n /\ next'[n] = next[t]  BY <2>4
      <4> QED  BY ONLY <3>1, <3>2, <4>1, <4>2, RingInsert
    <3>4. \A u \in Ready : u # t => next[u] = u \/ previous[next[u]] = u
      BY <1>1 DEF Ring, Window, Ready, In
    <3> QED  BY <2>1, <2>2, <2>4, <2>5, <3>2, <3>3, <3>4 DEF Ring
  <2>8. Chosen'
    BY <1>0, <2>5 DEF Chosen
  <2>9. Quanta'  BY <1>0 DEF Quanta
  <2>10. Sleepers'
    <3>1. \A u \in Asleep : next'[u] = next[u]
      BY <1>0, <2>4 DEF Asleep, Ready, In
    <3>2. ListOf(sleeping_task, Asleep, next')  BY <3>1, ListFrame DEF Sleepers
    <3> QED  BY <1>0, <2>5, <3>1, <3>2 DEF Sleepers
  <2>11. Walking'  BY <1>0, <2>1, <2>2 DEF Walking, TypeOK
  <2>12. Doomed'
    <3>1. \A u \in In("doomed") : next'[u] = next[u]
      BY <1>0, <2>4 DEF Ready, In
    <3>2. ListOf(doomed_task, In("doomed"), next)  BY <1>0 DEF Doomed
    <3>3. ListOf(doomed_task, In("doomed"), next')  BY <3>1, <3>2, ListFrame
    <3> QED  BY <1>0, <2>5, <3>3 DEF Doomed
  <2>13. Contexts'  BY <1>0, <2>1, <2>2 DEF Contexts, TypeOK
  <2> QED
    BY <2>3, <2>6, <2>7, <2>8, <2>9, <2>10, <2>11, <2>12, <2>13
<1> QED  BY <1>3, <1>4, <1>5, <1>6, <1>7 DEF Link

LEMMA NextInv ==
  ASSUME TickInWindow = FALSE, Inv, [Next]_vars
  PROVE  Inv'
<1>1. CASE UNCHANGED vars
  BY <1>1 DEF vars, heads, links, creation, locals, history, Inv, TypeOK, Creation,
             Ring, Chosen, GoodChoice, Quanta, Sleepers, Walking, Doomed, Contexts,
             Ready, Asleep, In
<1>2. CASE Next
  BY <1>2, NewThreadKeeps, LinkKeeps, YieldKeeps, SleepKeeps, ExitKeeps, TickKeeps,
     WalkOnKeeps, WalkEndKeeps, CleanKeeps, CleanYieldsKeeps, CleanEndKeeps, WakeKeeps,
     QuantumKeeps, SwitchKeeps, <1>1 DEF Next, Handler, NotFollowed
<1> QED  BY <1>1, <1>2

-----------------------------------------------------------------------------
(* What the invariant says of the properties of Scheduler.                 *)

LEMMA InvRing ==
  ASSUME Inv
  PROVE  RingComplete
<1> USE TasksAssumption DEF Inv
<1>1. RingOf(Ready, next) /\ \A t \in Ready : t \in Tasks  BY DEF Ring, Ready, In
<1>2. \A t \in Ready : Alone(t) \/ LinkingAfter(t) \/ previous[next[t]] = t
  BY DEF Ring, Alone, LinkingAfter
<1>3. ASSUME NEW X \in SUBSET Ready, X # {}, ClosedUnderNext(X)
      PROVE  X = Ready
  <2>1. \A t \in X : next[t] # NULL  BY <1>1 DEF RingOf
  <2>2. \A t \in X : next[t] \in X  BY <1>3, <2>1 DEF ClosedUnderNext
  <2> QED  BY <1>1, <1>3, <2>2 DEF RingOf
<1>4. \A t \in Ready : next[t] \in Ready  BY <1>1 DEF RingOf
<1> QED  BY <1>2, <1>3, <1>4 DEF RingComplete, Ready

LEMMA InvRuns ==
  Inv => RunsReadyTask
  BY DEF Inv, RunsReadyTask, Chosen, Quanta, Ready

LEMMA InvSleepers ==
  Inv => SleepListExact
  BY DEF Inv, SleepListExact, Sleepers, ListOf, IsList, ClosedUnderNext, Asleep

LEMMA InvDoomed ==
  Inv => DoomedListExact
  BY DEF Inv, DoomedListExact, Doomed, ListOf, IsList, ClosedUnderNext

LEMMA InvContexts ==
  ASSUME Inv
  PROVE  ContextsSaved
<1> USE TasksAssumption DEF Inv
<1>1. ASSUME phase = "switch", switching, switched_task # current_task
      PROVE  saved[switched_task]
  BY <1>1 DEF Chosen, GoodChoice, Contexts, Ready, In
<1>2. ASSUME phase = "clean", reap # NULL
      PROVE  reap # current_task /\ saved[reap]
  <2>1. reap \in In("doomed")  BY <1>2 DEF Doomed, ListOf, OrNull
  <2>2. current_task # NULL => current_task \in Ready  BY <1>2 DEF Chosen
  <2>3. reap # current_task  BY <1>2, <2>1, <2>2 DEF Ready, In
  <2> QED  BY <2>1, <2>3 DEF Contexts, In
<1> QED  BY <1>1, <1>2 DEF ContextsSaved

LEMMA InvNeverEarly ==
  ASSUME Inv, [Next]_vars
  PROVE  NeverEarly
<1> SUFFICES ASSUME NEW t \in Tasks, state[t] = "asleep", state'[t] # "asleep"
             PROVE  due[t] = 0
  BY DEF NeverEarly
<1> USE DEF Inv
<1>1. CASE Wake
  <2>1. t = sleeping_task /\ remaining_ticks[t] = 0 /\ phase = "wake" /\ t # NULL
    BY <1>1 DEF Wake, TimeIsUp, TypeOK
  <2> QED  BY <2>1 DEF Sleepers, TypeOK
<1>2. ASSUME NEW u \in Tasks, NewThread(u) \/ Sleep(u) \/ Exit(u)
      PROVE  FALSE
  <2>1. CASE NewThread(u)
    BY <2>1 DEF NewThread, TypeOK, In
  <2>2. CASE Sleep(u) \/ Exit(u)
    <3>1. u \in Ready
      BY <2>2, TasksAssumption DEF Sleep, Exit, Executes, Chosen
    <3> QED  BY <2>2, <3>1 DEF Sleep, Exit, TypeOK, Ready, In
  <2> QED  BY <1>2, <2>1, <2>2
<1>3. ASSUME NEW u \in Tasks, Link(u) \/ Yield(u)
      PROVE  FALSE
  <2>1. CASE Link(u)
    BY <2>1 DEF Link, LinkNext, LinkPrevious, LinkNextPrevious, LinkCurrentNext,
                ReadTid, Creation, Linking, Window, In, TypeOK
  <2> QED  BY <1>3, <2>1 DEF Yield, history
<1>4. CASE Clean
  <2>1. reap \in In("doomed")  BY <1>4 DEF Clean, Doomed, ListOf, OrNull
  <2> QED  BY <1>4, <2>1 DEF Clean, TypeOK, In
<1>5. CASE WalkEnd
  BY <1>5 DEF WalkEnd, TypeOK
<1>6. CASE \/ WalkOn \/ CleanYields \/ CleanEnd \/ Quantum \/ Switch \/ Tick
           \/ UNCHANGED vars
  BY <1>6 DEF WalkOn, CleanYields, CleanEnd, Quantum, Switch, Tick, vars, history
<1> QED  BY <1>1, <1>2, <1>3, <1>4, <1>5, <1>6 DEF Next, Handler, NotFollowed

-----------------------------------------------------------------------------
(* The invariant is the whole argument.                                    *)
THEOREM Invariant ==
  ASSUME TickInWindow = FALSE
  PROVE  Spec => []Inv
<1>1. Inv /\ [Next]_vars => Inv'  BY NextInv
<1> QED  BY InitInv, <1>1, PTL DEF Spec

(* Every variable keeps its type; above all no count of ticks, which are   *)
(* unsigned in the code, goes below zero.                                  *)
THEOREM TypeCorrect ==
  ASSUME TickInWindow = FALSE
  PROVE  Spec => []TypeOK
<1>1. Inv => TypeOK  BY DEF Inv
<1> QED  BY Invariant, <1>1, PTL

(* However tasks are created, sleep, wake up and exit, the ready tasks     *)
(* stay one ring, linked in both directions.                               *)
THEOREM RingCorrect ==
  ASSUME TickInWindow = FALSE
  PROVE  Spec => []RingComplete
<1>1. Inv => RingComplete  BY InvRing
<1> QED  BY Invariant, <1>1, PTL

(* The CPU executes a ready task with a quantum left, and is idle only     *)
(* when there is none.                                                     *)
THEOREM RunsCorrect ==
  ASSUME TickInWindow = FALSE
  PROVE  Spec => []RunsReadyTask
  BY Invariant, InvRuns, PTL

(* The list of sleepers holds the sleeping tasks, and the relative delays  *)
(* of sched_park_task add up to the time each of them has left.            *)
THEOREM SleepersCorrect ==
  ASSUME TickInWindow = FALSE
  PROVE  Spec => []SleepListExact
  BY Invariant, InvSleepers, PTL

(* cleanup_doomed_tasks goes through exactly the tasks that have exited    *)
(* and are not freed.                                                      *)
THEOREM DoomedCorrect ==
  ASSUME TickInWindow = FALSE
  PROVE  Spec => []DoomedListExact
  BY Invariant, InvDoomed, PTL

(* No context is loaded that was not saved, and no stack is freed that is  *)
(* in use.                                                                 *)
THEOREM ContextsCorrect ==
  ASSUME TickInWindow = FALSE
  PROVE  Spec => []ContextsSaved
<1>1. Inv => ContextsSaved  BY InvContexts
<1> QED  BY Invariant, <1>1, PTL

\* sched_ms_tick wakes nobody before the time he asked for has passed.
THEOREM NeverWokenEarly ==
  ASSUME TickInWindow = FALSE
  PROVE  Spec => WakesNeverEarly
<1>1. Inv /\ [Next]_vars => [NeverEarly]_vars  BY InvNeverEarly
<1> QED  BY Invariant, <1>1, PTL DEF Spec, WakesNeverEarly

=============================================================================
