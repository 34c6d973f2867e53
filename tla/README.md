# Verification of n00b-os

TLA+ models of the kernel of n00b-os and of the parts of its C library that
keep state, the TLC runs that check them and TLAPS proofs about them. Paths are
relative to the repository; line numbers are in `PROJECT.json` ("map").

## The system

n00b-os is a preemptive kernel for one i386 CPU. Everything runs in ring 0.
Threads call kernel functions directly; the timer (IRQ0, every millisecond) and
the keyboard (IRQ1) interrupt them, and two software interrupts (50: sleep or
yield, 51: exit) enter the scheduler. All gates are interrupt gates: a handler
runs with interrupts off.

| Component | State | Operations | Talks to | Hard because |
|---|---|---|---|---|
| Scheduler (`sched/scheduler.c`, `interrupts.S`) | ring of ready tasks, delta list of sleepers, list of doomed tasks, `switching`, `switched_task` | new thread, yield, sleep, exit, tick, switch | heap and stacks (create, reap) | three pointer structures share one `next`; ticks between any two statements; the tick itself takes locks |
| Semaphore, mutex (`sync/`) | `lock`, `level`, and EAX of each task | acquire, release | `sched_yield` | preemption between the instructions of a spin loop; a key handler that saves no register |
| Heap (`libk/.../malloc.c`) | markers and canaries in memory, `heap_end` | malloc, free, realloc | page allocator, semaphore | long sequences of splits and merges; sizes that wrap |
| Page allocator, stacks (`mm/`) | free list through the pages, page table entries, bitmap of slots | boot from the memory map, alloc and free a page, map, unmap, alloc and free a stack | mutex, semaphore, heap, reaper in IRQ0 | concurrent creation and reaping; failure half way |
| Keyboard (`input/keyboard.c`, `ringbuffer.c`) | ring buffer, shift counter | key interrupt, `kbd_getchar` | semaphore, `sched_sleep` | interrupt against readers, whose registers it does not save; counters that wrap; stray shift codes |
| Tarfs (`vfs/tarfs.c`, `list.c`) | tree of vnodes | mount, lookup | heap | duplicate entries, empty files |
| VFS and stdio (`vfs.c`, `stdio/`) | table of open files, position, eof, error | fopen, fclose, fgetc, clearerr | tarfs, heap | limits of the table, unsigned positions |
| Kernel main, shell (`kernel.c`, `shell.c`) | buffers of a line, its arguments, a file; chunks and handles taken | banner, readline, parseline, ls, cat, echo... | stdio, heap, keyboard | buffers that grow when full, error paths that must give back |
| Terminal, printf (`tty.c`, `printf.c`) | row, column, the cells | printf, `terminal_putchar` | 64-bit division | no lock: threads share the cursor |
| 64-bit arithmetic (`arithmetic.c`) | none | udiv64, sdiv64, umod64, smod64 | called by the compiler's helpers | estimate and correction, a trap, 32-bit remainders |
| pcb, boot, PIC, PIT, IDT, strings | | | | see "Not modelled" |

What makes each correct: the ready tasks form one ring and the CPU runs one of
them (idle only when there is none); a sleep lasts exactly the ticks asked for;
a task is freed once, and not while its stack is in use; a lock excludes and is
never orphaned; the kernel does not come to a stop; the chunks tile the heap; pages and slots have one
owner; the buffer is a FIFO; a path finds what the archive says; commands stay
in their buffers and give back what they take; what is printed is what appears.

## Modules

Each specification has Init, one action per operation or per preemptible step,
Next, Spec and its properties. Operators whose name starts with `Bad` are
variants of the definition that follows them, with a plausible mistake; no
specification uses them, they serve to confirm that a property can fail.

**Scheduler.** The variables are the static variables of `scheduler.c` and the
fields of `task_t`, under their names; `next` really is one field for ring and
lists. `phase` says which step of which handler comes next: a loop
(`cleanup_doomed_tasks`, the wake-up loop, the search in `sched_park_task`) is
one step per iteration, and no task runs in between. `put_in_schedule_ring`, as
called by `sched_new_thread`, is four steps, because `nexttid` turns interrupts
on again. `TickInWindow` says whether IRQ0 may come between them: FALSE shows
what the code guarantees apart from that window, TRUE shows the window. History
variables: `state` (where in its life a task is), `due` (ticks left to sleep),
`saved` (does `task->ms` hold a context to resume). Rings and lists are
described without walking them: no proper part is closed under `next`.
An iteration of `cleanup_doomed_tasks` takes locks; when one is taken,
`CleanYields`, the handler calls `sched_yield`, may meet other ticks, and may wait
for ever: phase "yield", after which this module follows nothing (Reaper does).

**Locks.** One step per instruction of the two `asm` loops and per memory access
of the releases; `kind` says which of the two functions it is. `eax` is the
register the statement loads once with the tid; `sched_yield` returns with
EAX = 0, the argument it loaded for `int 50`, and `Key`, the keyboard interrupt
in the loop, leaves 1 in it. `contended` records that somebody has waited, or
lost the exchange of a mutex; `keyed` that a key came in the loop.

**Reaper.** The composition of the scheduler's reaping with the locks it takes
inside the timer handler: the mutex of the pages, the semaphore of the stacks,
the semaphore of the heap. The ring is a sequence with the running task first
(Scheduler has the pointers). A task acquires and releases a lock one instruction
after the other, as in Locks, so that the tick, and the handler's own use of the
same lock, comes between any two of them; it may nest the mutex, and take it inside
the heap, as `malloc` and `mm_map_page` do. The handler runs on the stack, and
under the tid, of the task it interrupted; with interrupts off it takes and
releases a lock in one step, unless the lock is taken: then it yields in the
middle of its walk of the list. `overlapped` records that the list was read or
extended during such a walk, `contended` the locks that somebody has waited for,
or whose `xchg` (of the mutex) somebody has lost, `torn` that the handler
released the mutex under a task between its `xchg` and its `incw` (or in its
release), `keyed` that a key came in the loop.

**Heap.** Memory is a function from addresses to markers or junk; `mark_chunck`
turns what a chunk covers into junk, so a stale marker can not be used by
accident. malloc and free are single steps (they hold `heap_semaphore`); realloc
is two, with other threads in between. Sizes are taken modulo `Word`, and the
requests include the last ones below it, which `aligned_size` turns into 0. A
lack of pages, or a dead canary, sets `panicked` and stops the system, which is
why the run allows deadlock.

**Stacks.** Memory starts as a multiboot memory map: `mm_init_page_allocator`
links the pages after the kernel, region by region, then the kernel takes the
pages of its own stack and heap and the idle task's directory and stack. From
there the free list is linked through the first word of the pages, and page
table entries keep their flag bits, as the errors of `mm_map_page` and
`mm_unmap_page` are about these. `mm_alloc_stack` is one step per call of the
page allocator, in several threads; a heap that grows takes a page, and a page
table where there is none (page 0 when there is no memory left, as the code does
not look); `mm_free_stack` runs in the timer interrupt and is not interrupted.

**KeyQueue, Keyboard.** KeyQueue is the abstract specification: a bounded FIFO
until it is `broken`. Keyboard has the interrupt as one step and a reader as one
step per instruction of the loop of its semaphore, as in Locks, and per access to
the buffer, with counters modulo `Word`. `irq1_handler` saves no register, so what a
key does depends on what it interrupts. Over other code, or over `sched_sleep`
(where nothing is in EAX, ECX and EDX that is used later), nothing. Over the loop
of the semaphore (`OverLoop`) it leaves 1 in EAX. Over the C code of `kbd_getchar`,
`ringbuffer_empty` and `ringbuffer_get` (`OverCode`; `CFLAGS` has no `-O`, so
`rb->tail++` is a load, an addition and a store) the reader's next step computes
anything (`Computed`): the buffer may seem empty or not, the character and `tail` may be
others, the lock may stay taken. `clobbered` records that this happened, `contended`
that a reader has waited for the semaphore, after which two may get in; either is
`broken`. What a clobbered reader writes elsewhere in memory is not followed.
`ImplementsQueue` is the refinement, with the contents between `tail` and `head` as
the queue. The shift counter is modulo `Byte`; `StrayMake` and `StrayBreak` are the
codes of a shift key that are no key going down or up: repeats of a key held
down, and the false shifts around keys with the prefix E0, which nobody checks.

**Tarfs, Vfs, Shell.** Shell extends Vfs, which extends Tarfs. An archive is the
sequence of its headers, `fs_mount` takes one per step; the vnode of the i-th
header is i. `list_add` puts an entry in front, `node_lookup` takes the first.
On top, `fopen`, `fclose`, `fgetc` and `clearerr` with the table of
`VFS_OPEN_FILES_LENGTH` handles; a character is its offset, so what has been read
is a sequence of offsets. Shell runs `print_banner` and the loop of the shell
over these; a buffer is its size and how much of it has been written, the heap
the number of chunks a command holds. In
half of the initial states the first task is not the kernel's shell but a program
that calls stdio in any order.

**Arithmetic, Console.** Arithmetic is the four routines as operators on integers
of `2 * HalfBits` bits, down to the trap of `divl`; `HalfBits` is two to the number
of shifts in `nlz`, the constant `Shifts` (5 in the code). Console extends it: `printf`
with its conversions, in threads, over `terminal_putchar` in the steps another
thread can come between. `overlapped` records that two of them did.

`*Proofs` hold the theorems about the module they are named after (`DeviceProofs`:
Keyboard, and Console with Arithmetic), `Lemmas` what they share.

`MC*` modules give constants (symmetry sets, archives, memory maps) for TLC.

## Runs

| Run | Instance | Shows |
|---|---|---|
| `sched` | 3 tasks, sleeps 1..4, priorities {1, 2}, fair | ring, sleep list and doomed list exact, no early and no late wake-up, a ready task runs, contexts loaded and reaped only when saved; unless a walk of the doomed tasks has to wait for a lock: sleepers wake, doomed tasks are reaped, ready tasks run if sleeping ends |
| `sched_window` (violation) | 3 tasks, tick in the window | `RingComplete` fails: interrupts are on inside `sched_new_thread` |
| `reaper` | 3 tasks | until two walks overlap each task is freed once; idle finds the semaphores free, and the mutex of the pages if nobody disturbed it; until somebody waits, the handler shares only the mutex of the pages, with the task below it; when all wait for semaphores, a handler waits above the task that has one |
| `locks` | 3 tasks, depth 2, keys, fair | taken locks have owners; exclusion and level until the first contention; somebody gets the semaphore |
| `locks_exclusion` (violation) | a semaphore, no keys | `MutualExclusion` fails after a yield (EAX = 0) |
| `heap` | 3 pages of 12, sizes 0, 5, 11, 63 of words modulo 64 | tiled, coalesced, owned; canaries never fire |
| `keyboard` | 2 readers, 2 slots, counters and bytes modulo 4, 5 keys, 2 stray codes of each kind, fair | until broken: refinement of KeyQueue and no EOF; shift tracks the keys; a waiting reader is served unless a key came while a reader executed in `kbd_getchar` |
| `stacks` | 2 threads, 2 memory maps, 4 slots, 2 pages per stack, 3 heap pages | slots exclusive, bitmap exact, live stacks mapped; until a stack is freed the free list is exact (every free page, no cycle) and no frame but 0 has two uses |
| `stacks_unmap` (violation) | the same | `FreeListExact` fails: `mm_unmap_page` returns 1 |
| `shell` | all archives of up to 4 headers out of 6, 2 slots, 3 handles, lines of up to 4 characters | lookup agrees with the archive, handles exact, reads in order, buffers in bounds, commands give back what they take, cat shows the file |
| `console` | 8-bit integers, 2 threads, a 3 by 2 screen, 3 formats | quotients, and remainders that fit 4 bits, exact for every pair of operands; a number or string is printed whole; the screen shows the text, wrapped and scrolled |
| `console_remainder` (violation) | the same | `RemainderExact` fails: the remainder is cut to half the width |

Bounds. Three tasks give a ring with a neighbour on each side of the current task,
or sleepers that a newcomer is put before, between and after, and the four delays
make it equal to each of them; the safety properties are proved for any number of
tasks. In `reaper` a handler
waits above one task while a second holds the lock and a third is in the list. Two
slots and counters modulo 4 make the buffer full and wrap in a few keys; two
stray codes and two shift keys wrap the shift counter. Twelve-unit pages hold one to three chunks, and
the sizes leave remainders below, at and above the size of the markers. The maps
have 9 and 13 pages after the kernel, with a hole, a reserved region and memory
above the limit: the boot takes 5, and the rest runs out in the middle of a
stack, or between a data page and its table, or only with the last slot. Four
headers are enough to replace a directory and fill it again; buffers of 1 and 2
characters grow once or twice within a line of 4 and a file of 3. Eight-bit
integers (two shifts) let TLC try every pair of operands; that the width does not
matter is proved. `MaxSleep`, `MaxDepth`, `MaxKeys`, `MaxStray`, `MaxPages`,
`HeapPages`, `Slots`, `MaxLine`, `MaxOpens` and `MaxNumberLength` are bounds; of
these `Slots` (32), `MaxDepth` (a `uint16_t`) and the length of a number also
exist in the code.

Constraints. `MutexUntilContended` (locks) stops the exploration of a mutex at its
first contention or key: after it the level of an impersonated mutex grows without
bound. The semaphore is explored completely; `SomeoneEnters` is about it only.
`SemaphoreWithoutKeys` (locks_exclusion) leaves the yield as the only way to the
violation. `Explored` (reaper) stops after the first overlap of two walks of the
doomed list (memory is freed twice) and when the mutex is no longer undisturbed
(its level is then wrong; the properties of the mutex are about what comes before, and
those of the semaphores are proved without this bound); `OneContended` lets
tasks wait for one of the two semaphores, in one behaviour, not for both.
`Explored` (keyboard) stops at a key over the C code of `kbd_getchar`, after which
anything is possible; what readers do after one of them has waited, or after a key in the
loop of the semaphore, is explored for three keys, not one together with the
other, and stray codes come while nobody is in `kbd_getchar`. `UntilOverlap`
(console) stops after the first overlap of two `terminal_putchar` (a write outside
the screen is then possible); the properties are about what comes before.
`CreatedInOrder` (sched) creates the tasks in the order of their numbers, as
`nexttid` does. Heap, Stacks and Shell are explored completely.

Fairness. A handler and a thread that runs go on because the CPU executes (weak
fairness of `Handler` and `Link`, and of the steps of the readers and lockers, whom
the scheduler runs again). IRQ0 stays pending in the PIC until some task runs with
interrupts on, so it is taken if it can be taken again and again: strong fairness
of `Tick`. Releasing a lock is fair because every critical section of the kernel
ends. No fairness is assumed of thread creation, sleep, exit or keys, and none in
Reaper. That the handler ends is not taken for granted: `SleeperWakes`,
`DoomedReaped` and `ReadyRunsIfSleepEnds` say "unless a walk of the doomed tasks
has to wait for a lock", as the wait may never end, and every later tick walks
the same list first.
`ReadyRunsIfSleepEnds` makes its condition explicit because it is needed: a task
that wakes is inserted after the current one, so two that sleep in turn keep a
third from the CPU for ever.

## Findings

The four violation runs are disagreements between the code and what its comments
say; `PROJECT.json` quotes both. In short: (1) interrupts are on while
`sched_new_thread` edits the ring; (2) after `sched_yield` both locks let
everybody in (the run shows it for a semaphore, without keys); (3) `mm_unmap_page`
returns a truth value instead of an address; (4) the 64-bit remainders have 32
bits.

One more has no run of its own. `!entry & 1` at `page_allocator.c:149` is true of 0
only, as `!` binds first, whereas the comments at lines 150, 153 and 185 call every
entry with a present bit of 0 not present: the entry 2, which `mm_unmap_page` leaves, counts
as mapped for `mm_map_page`, so a slot that was used once makes `mm_alloc_stack` fail.
Stacks models the line as it is, and LiveStacksMapped says what follows from it.

Observations that contradict no text of the repository, and that properties state
as their conditions: insertion after the current task starves a ready one; the
loser of the `xchg` of a mutex takes over its owner's identity, and so does the
timer handler, which between `xchg` and `incw` even frees the mutex under its owner; two
tasks that have waited can leave the mutex taken, its level 65535, with nobody
inside; a handler that waits for the task below it never ends, a tick that comes
during its walk walks the same list, and the kernel then stops one task after the
other; a key that comes while `kbd_getchar` executes can make it return EOF or corrupt
`tail`; stray codes of the shift keys stay counted; a banner that fills
`message`, and threads that print together, write outside. Others are in the list
of hazards with a note.

## Proofs

A theorem holds for every value of the constants that meets the ASSUMEs of its
module. Each module of proofs states an invariant that is inductive, one lemma
per action, and the properties as consequences; TLC has checked the invariants
on the instances of the runs first, except those of the console, which speak of
functions it cannot enumerate. `Lemmas` has what several proofs use:
remainders and multiples, the smallest element of a set of numbers, that a
function given by recursion exists, and what FlattenSeq computes item by item.
A recursive definition is used through its equation, which a lemma shows to have
a solution. An induction is done by looking at the
smallest counterexample; rings and lists need none, as they are described by
"no proper part is closed under the links".

| Module | Theorems (Spec implies always ...) |
|---|---|
| `LocksProofs` | TypeOK, LockHasOwner, ExclusionUntilContended, LevelUntilContended |
| `SchedulerProofs` | TypeOK, RingComplete, RunsReadyTask, SleepListExact, DoomedListExact, ContextsSaved, and the action property WakesNeverEarly |
| `ReaperProofs` | IdleFindsLocksFree, SharesOnlyPagesBelow, StuckOnlyBelowHandler, ReapedExactly |
| `DeviceProofs` | of Keyboard: NeverEOF, ShiftTracksKeys, and the refinement ImplementsQueue; of Arithmetic and Console: DivisionExact, PrintsFormat, ScreenShowsText |
| `ShellProofs` | LookupFindsLast, HandlesExact, ReadsInOrder, BuffersInBounds, CommandsGiveBack, CatShowsFile |
| `StacksProofs` | SlotsExclusive, BitmapExact, LiveStacksMapped, FreeListExactUntilExit, FramesExclusive |
| `HeapProofs` | Tiled, Coalesced, OwnedExact |

**LocksProofs.** Any set of tids, any nesting depth a `uint16_t` can count.
`Inv` adds to the properties: `Shape`, at which labels a task can be, given the
kind of the lock and its depth; `EaxUntilContended`, that while the lock is
undisturbed EAX is not 0 in the loop, and for a mutex it is the caller's tid
(this is exactly what the yield and the key destroy); `LockNamesOwner`, that
until then an owner has left something in the lock, so a task that finds the
lock free is the only owner; `LevelKnown`, where the level is known. The
semaphore part of LockHasOwner holds under contention too: a loser of the
exchange overwrites a lock that has an owner already, and an EAX of 0 frees it.

**SchedulerProofs.** Any number of tasks, any priorities, any delays, under
`TickInWindow = FALSE`; for TRUE the run `sched_window` shows the ring breaks.
The first part is about links alone: inserting behind an element, removing,
putting in front or in the middle of a list. `Inv` has one part per structure
and says what it is in the middle of a handler: `Creation` (what the first
assignments of `put_in_schedule_ring` have written is still there when the last
one uses it), `Ring`, `Chosen` (`switched_task` is a ready task, or there is
none, at every point where the switch can still come; idle runs with `switching`
set), `Quanta` (no count of ticks is 0 when it is decremented), `Sleepers` (the
delays add up to `due`, off by one between the decrement and the wake-up),
`Walking` (the loop of `sched_park_task` has not passed the place of the
newcomer), `Doomed`, `Contexts`.

**ReaperProofs.** Any number of tasks. `Places` (a task is in the ring, asleep
or exited), `Points` (at which instructions a task can be, and on which lock;
whoever sleeps or has exited is at none), `SemaphoresOwned` (whatever tasks have
waited for: a semaphore that is not 0 has an owner, or, with keys, a task
that is not yet done with it), which gives that they are 0 when idle runs;
`SemaphoresAlone` (until somebody yields for it, a semaphore has one owner at
most), `PagesAlone` (while nobody has disturbed the mutex it names its owner, and
its level is the depth of that task, wherever the task is between its `xchg` and
its `incw`), and `Walks` (until two walks overlap, the walk has exactly the tasks
before it that are to be freed). StuckOnlyBelowHandler follows from
`SemaphoresOwned`: the owner of a semaphore somebody waits for is in the ring, and if
it waits too, it can only be by the handler above it, as no task takes a second
semaphore.

**DeviceProofs, the keyboard.** Any number of readers and keys, any buffer size that divides
the range of the counters. `Inv` says that until `broken` (which lasts, `BrokenStays`)
two things hold. `RingSound`: `head` is ahead of `tail` by at most the size, and what
the reader inside has seen is still true when it uses it, as the interrupt only
adds. `LockSound`: at most one reader is inside the loop's result or past it, keys in
the loop included, because what they put in EAX is not 0. The refinement maps the
buffer between `tail` and `head`, modulo `Word`, to a sequence; each step is shown to
be a step of KeyQueue, a stutter, or one that breaks it. Shift needs its own invariant, with
cardinalities of the keys that are held and the number of stray codes, for
which the set of shift keys is finite.

**DeviceProofs, the division.** Any number of shifts in `nlz`, so any width that
is a power of two, 64 bits included (`Shifts` is 5 there). `nlzCounts`: after the
shifts by half the width, a quarter and so on the first bit of the operand is set
(`Shifting` is what holds before each of them). A divisor of one half is the
school division in two steps (`NarrowDivision`, the argument of the comment in the
code: the first remainder is less than the divisor, so `divl` does not trap). For a
longer divisor the code refers to a proof elsewhere; `WideDivision` is that proof:
half the dividend by the first half of the normalised divisor, shifted back, is
the quotient or one more, and the quotient of `divl` fits since the divisor has its
first bit set. `CorrectedExact`: the test of the last line, modulo `Whole`, tells
which, also when the estimate is 0. The signed routines follow from absolute
values; the one pair without a quotient is excluded as in the property. The
remainders follow where they fit the 32 bits of `umod64` and `smod64`, and only
there: `console_remainder` shows the others.

**DeviceProofs, printf.** Any formats, numbers, threads and interleaving. `RemainIs`:
after k rounds of the loop of `printf_u` the number is divided by the k-th power of
the base, so the loop ends with the length of the numeral, at most that of the
buffer, as the base is at least 8. `PrintInv` says of every thread that what it has
given to the terminal, and what it has still to give of the item it is at, are
together what the items it has begun print (`Flow` is the sequence of these
prefixes), and that the rest of the format is the end of the one it was called
with. A step of one thread leaves what the others print alone (`OneThread`).

**DeviceProofs, the screen.** Any width and height of at least 1, any text.
`ScreenInv`, until two `terminal_putchar` overlap: one thread at most is inside, and
at each place of it the cursor and the cells are a fixed step behind the paper
(`Resting`, `AtColumn`, `AtRow`, `AtScroll`). The position on the paper only moves
forward (`PaperOrder`), so a new character falls on a place that has none
(`CellGrows`), and the line that scrolling brings in is empty (`ScrollShows`).

**ShellProofs.** Any archive (a sequence of headers), table, buffer sizes and
line. `Tree` bounds what a path can lead to, `OpenFiles` is the table, `Reading`
what has been read, `Holding` which file and how many chunks the first task has
at each place of its code, `Filling` that each buffer has room at the place where
it is written next. What `Walk` returns is bounded by looking at the first step
that would leave the tree.
LookupFindsLast is proved apart, with `Named`: every path, of the archive or not,
leads where the headers mounted so far say, and the vnodes of the others are
empty. `HeaderAdds` says what one header changes: its path leads to it, nothing
is found below it, and all other paths lead where they led. The induction is over
the length of a path; it needs that two paths never lead to the same vnode, which
`Named` gives, and `MeantNext` says that the reference definition changes alike.

**StacksProofs.** Any memory map, threads, slots and pages per stack. `SlotInv`
(types, what the locals of `mm_alloc_stack` hold at each place, the bitmap slot
by slot, the entries of slots in use, being set up and free) gives the first
three properties. `MemoryInv`, which holds until the first stack is freed, says
that the pages nobody has are a list from `first_free_page`, that no page has two
uses, and that all pages in use come from the memory map. The list the boot
builds is computed: the concatenation over the regions lists each usable page
once (an induction over the regions), and linking it gives such a list.
FramesExclusive leaves frame 0 out: it is what `mm_map_page` uses as page table
when memory has run out, perhaps several times.

**HeapProofs.** Any sizes of page, marker and word, any amount of memory, any
requests that meet `RequestsAssumption`. Tiled speaks of the walk from 0, and no
step preserves it by itself: whether a later walk meets a marker that a merge left
behind is not to be seen from the chunks alone. `Inv` speaks of memory instead. `Laid`: every start marker in
memory is that of a chunk, the starts and sizes tile the heap, each end marker is
where its start says; so what `mark_chunck` erases and what it leaves matters.
`Apart`: no two free chunks are side by side. `Handed`: the chunks in use are the
ones handed out. One lemma about two neighbours that become one chunk covers both
merges of `free` and the growth of a free last chunk, one about a chunk that
becomes two covers the split. Between the two merges of `free` the chunk may have
a free neighbour, which the lemmas allow for that chunk alone. `ChunksExact` then
shows that the walk of `malloc` finds exactly the start markers (the smallest
counterexample, counted from the end of the heap). It rests on `Junk` being no
marker and on a marker with its padding fitting a word, both ASSUMEd in Heap.

Every invariant, action property and refinement of the runs that pass is proved.
Only model-checked are `SleeperWakes`, `DoomedReaped`, `ReadyRunsIfSleepEnds`,
`SomeoneEnters` and `WaitingReaderServed`: liveness under fairness is
beyond the prover.

## Assumptions

- `irq1_handler` preserves the register in which GCC keeps the address of the
  lock; it is EAX that the model has.
- Heap and Stacks take the locks they use at their word, although Locks shows
  what happens under contention; Keyboard and Reaper have the loop itself.
- A key that comes while C code of the kernel executes may change what that code
  computes, as `irq1_handler` saves no register. Keyboard follows this in
  `kbd_getchar`, Locks and Reaper in the loops of the locks; in `mutex_release`,
  where the tid is loaded, and in the code the other modules model, keys are
  taken to come elsewhere.
- Usable regions of the memory map are whole pages and do not overlap, and there
  is memory enough to boot (both ASSUMEs of Stacks; the code checks neither). A
  page has an even size. What is written in page 0, once it serves as a page
  table, is not followed.
- A request to malloc is either far from 2^32 or so close that its aligned size
  is 0; realloc is not called with the latter. Memory that holds no marker does
  not look like one.
- The buffer of `printf_u` is long enough for the largest number in base 8, the
  smallest base of a conversion (an ASSUME of Console; the code has 22 for 64
  bits, "size in the worst case for 64 bits in octal").
- No file of an archive is the parent of another path; a vnode is never NULL; only
  the first task uses files.

## Not modelled

- Boot, the IDT, PIC and PIT: programming of hardware, once, in a straight line.
  Their effect is the initial state and the delivery of the two interrupts.
- String and ctype functions, the wrappers of `threads.h`: no state between calls.
- The pcb: static values and the address arithmetic that finds it on a stack;
  `process_create` is a stub.
- `UIO_WRITE` (nobody calls it, tarfs refuses it), colours of the terminal.
- The entries of the idle task's page directory: it is a copy, and page tables
  made later are not in it, which needs a model of two address spaces.
- `task_t`, which is never freed; the read of `new_task->pcb->tid` after
  interrupts are on is a step of Scheduler, but what it reads is not used.
- The tests and utilities: read for what they expect of the kernel.

## Plan

1. Done: Scheduler, Locks, Heap, Keyboard with KeyQueue, Stacks with the memory
   map, Tarfs, Vfs, Shell, Arithmetic with Console, Reaper, and the proofs of all
   their safety properties.
2. Left: a model of two address spaces, for the idle task's copy of the page
   directory; the properties of the heap under the locks as they are (Reaper has
   these for the stacks and the list of doomed tasks).
