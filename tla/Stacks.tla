------------------------------- MODULE Stacks -------------------------------
(***************************************************************************)
(* Physical pages, kernel stacks and the pages of the heap:                *)
(* page_allocator.c and stack.c of kernel/src/arch/i386/mm, and the loop   *)
(* of malloc that makes the heap larger.                                   *)
(*                                                                         *)
(* The free physical pages form a list through their own first word.  A    *)
(* stack is a slot of StackPages virtual pages that a bit of               *)
(* stacks_bitmaps reserves.  Threads create stacks for new threads         *)
(* (mm_alloc_stack) and interrupt each other between any two calls of the  *)
(* page allocator, or make the heap larger; the timer interrupt frees the  *)
(* stacks of dead threads (mm_free_stack) and is not interrupted.          *)
(*                                                                         *)
(* An operation of the page allocator is one step, and one thread at a     *)
(* time is in malloc: the mutex of the one and the semaphore of the other  *)
(* are taken at their word.  Physical addresses are numbers; PageSize      *)
(* stands for 4096 and the low bits of a page table entry are its flags,   *)
(* as in the code.  The stacks share one page table, which the first stack *)
(* keeps present; the heap gets its tables as it grows.  Once physical     *)
(* page 0 is in use by mistake, what is written there through its mapping  *)
(* is not followed.                                                        *)
(***************************************************************************)
EXTENDS Integers, Sequences, FiniteSets, FiniteSetsExt, SequencesExt

CONSTANTS
  Threads,     \* the threads that create others
  PageSize,    \* MM_PAGE_SIZE
  Maps,        \* memory maps of a boot loader: sequences of [addr, len, type]
  KernelEnd,   \* page_after_kernel
  Limit,       \* the address of the last byte of memory, 0xFFFFFFFF
  TablePages,  \* entries of a page table, 1024
  KernelPages, \* the ones the kernel takes in the table the heap starts in
  HeapPages,   \* bound: pages of the heap
  StackPages,  \* MM_STACK_PAGE_SIZE
  Slots        \* bits of stacks_bitmaps, 32 in the kernel

ASSUME SizesAssumption ==
  /\ PageSize \in Nat /\ PageSize >= 4 /\ PageSize % 2 = 0
  /\ KernelEnd \in Nat /\ KernelEnd % PageSize = 0 /\ KernelEnd > 2 * PageSize
  /\ Limit \in Nat /\ (Limit + 1) % PageSize = 0
  /\ KernelPages \in Nat /\ TablePages \in Nat /\ KernelPages < TablePages
  /\ HeapPages \in Nat \ {0}
  /\ StackPages \in Nat \ {0}
  /\ Slots \in Nat /\ Slots >= 2

-----------------------------------------------------------------------------
(* mm_init_page_allocator: the pages after the kernel, region by region.   *)

\* The usable regions.
Usable(m) == {i \in DOMAIN m : m[i].type = 1}

RegionPages(r) ==
  LET low == Max({KernelEnd, r.addr})
      high == Min({r.addr + r.len, Limit})
  IN IF r.type = 1
       THEN [k \in 1..((high - low + PageSize - 1) \div PageSize) |->
               low + (k - 1) * PageSize]
       ELSE <<>>

BootPages(m) == FlattenSeq([i \in DOMAIN m |-> RegionPages(m[i])])

(* What the kernel takes before interrupts are on: the pages mm_init_stack *)
(* adds to the one the first stack has, a page for its malloc, and the     *)
(* page directory and the stack of the idle task (create_new_task).        *)
HeapAtBoot == StackPages
DirectoryAtBoot == StackPages + 1
TakenAtBoot == 2 * StackPages + 1

(* Usable memory is made of whole pages, no two regions of it overlap, and *)
(* there is enough to boot.                                                *)
ASSUME MapsAssumption ==
  \A m \in Maps :
    /\ Len(m) \in Nat /\ DOMAIN m = 1..Len(m)
    /\ \A i \in Usable(m) :
         /\ m[i].addr \in Nat /\ m[i].len \in Nat
         /\ m[i].addr % PageSize = 0 /\ m[i].len % PageSize = 0
         /\ \A j \in Usable(m) : i # j => \/ m[i].addr + m[i].len <= m[j].addr
                                         \/ m[j].addr + m[j].len <= m[i].addr
    /\ Len(BootPages(m)) >= TakenAtBoot

VARIABLES
  mmap,        \* the memory map of this machine
  first_free_page,
  word,        \* the first word of each page, where the list is linked
  pte,         \* page table entries of the stacks, by slot and page
  heap,        \* page table entries of the heap, up to heap_end
  tables,      \* page directory entries of the tables of the heap
  bitmap,      \* the bits that are set in stacks_bitmaps
  pc, pages, slot, index,   \* locals of mm_alloc_stack, by thread
  live,        \* slots of the stacks threads use
  reap,        \* mm_free_stack: slot and page it is at, or no slot
  panicked,    \* why the kernel stopped
  exited       \* history: slots mm_free_stack was called on

locals == <<pc, pages, slot, index>>
heap_pages == <<mmap, heap, tables>>
vars == <<first_free_page, word, pte, heap_pages, bitmap, locals, live, reap,
          panicked, exited>>

\* The pages of usable memory after the kernel.
FramesOf(m) == {f \in {k * PageSize : k \in 0..(Limit \div PageSize)} :
                  /\ f >= KernelEnd
                  /\ \E i \in Usable(m) : m[i].addr <= f /\ f < m[i].addr + m[i].len}

Frames == FramesOf(mmap)
Entries == (0..(Slots - 1)) \X (1..StackPages)
NoReap == [slot |-> -1, page |-> 0]

Frame(address) == address - (address % PageSize)
Present(entry) == entry % 2 = 1
Mapped(page) == Frame(page) + 3

\* The table that maps page v of the heap; the kernel itself is in the first.
TableOf(v) == (KernelPages + v - 1) \div TablePages

(* Two pages of the kernel itself, which boot.S has mapped: the first page *)
(* of the first stack, and the page table the heap starts in.              *)
BootStack == KernelEnd - PageSize
BootTable == KernelEnd - 2 * PageSize

BootSlots == {0, 1}  \* the stacks of the first task and of the idle task

-----------------------------------------------------------------------------
\* The entries of the two stacks, taken from the pages p.
BootEntry(p, e) ==
  CASE e = <<0, 1>> -> Mapped(BootStack)
    [] e[1] = 0 /\ e[2] > 1 -> Mapped(p[e[2] - 1])
    [] e[1] = 1 -> Mapped(p[DirectoryAtBoot + e[2]])
    [] OTHER -> 0

(* mark_page links each page to the one found after it and closes the list *)
(* with 0; mm_alloc_physical_page zeroes the ones it takes.                *)
Marked(p, f) ==
  LET later == {i \in TakenAtBoot + 1..Len(p) - 1 : p[i] = f} IN
  IF later = {} THEN 0 ELSE p[Max(later) + 1]

\* The kernel as sched_init_tasks leaves it.
Init ==
  /\ mmap \in Maps
  /\ LET p == BootPages(mmap) IN
       /\ first_free_page = IF Len(p) > TakenAtBoot THEN p[TakenAtBoot + 1] ELSE 0
       /\ word = [f \in Frames \cup {0} |-> Marked(p, f)]
       /\ pte = [e \in Entries |-> BootEntry(p, e)]
       /\ heap = <<Mapped(p[HeapAtBoot])>>
  /\ tables = [i \in 0..TableOf(HeapPages) |->
               IF i = 0 THEN Mapped(BootTable) ELSE 0]
  /\ bitmap = BootSlots
  /\ pc = [t \in Threads |-> "idle"]
  /\ pages = [t \in Threads |-> <<>>]
  /\ slot = [t \in Threads |-> -1]
  /\ index = [t \in Threads |-> 1]
  /\ live = BootSlots
  /\ reap = NoReap
  /\ panicked = "no"
  /\ exited = {}

-----------------------------------------------------------------------------
(* The page allocator.  Bad... are the mistakes the properties are tried   *)
(* on.                                                                     *)

\* mm_alloc_physical_page(true), when there is a page: it is zeroed.
BadAlloc(page) ==  \* forgets to advance first_free_page
  /\ page = first_free_page
  /\ page # 0
  /\ word' = [word EXCEPT ![Frame(page)] = 0]
  /\ UNCHANGED first_free_page

mm_alloc_physical_page(page) ==
  /\ page = first_free_page
  /\ page # 0
  /\ first_free_page' = word[Frame(page)]
  /\ word' = [word EXCEPT ![Frame(page)] = 0]

mm_free_physical_page(page) ==
  /\ word' = [word EXCEPT ![Frame(page)] = first_free_page]
  /\ first_free_page' = page

\* mm_map_page: !page_table[...] & 1 is only true of an entry that is 0.
Mappable(entry) == entry = 0

\* What mm_unmap_page returns: entry && ~0xFFF if the page is present.
Unmapped(entry) == IF Present(entry) THEN 1 ELSE 0

-----------------------------------------------------------------------------
(* mm_alloc_stack, in thread t.                                            *)

At(t, from, to) ==
  /\ panicked = "no"
  /\ reap = NoReap
  /\ pc[t] = from
  /\ pc' = [pc EXCEPT ![t] = to]

Call(t) ==
  /\ At(t, "idle", "pages")
  /\ UNCHANGED <<first_free_page, word, pte, heap_pages, bitmap, pages, slot,
                 index, live, reap, panicked, exited>>

AllocPage(t) ==
  /\ pc[t] = "pages"
  /\ Len(pages[t]) < StackPages
  /\ \/ /\ mm_alloc_physical_page(first_free_page)
        /\ pages' = [pages EXCEPT ![t] = Append(@, first_free_page)]
        /\ At(t, "pages", "pages")
     \/ /\ first_free_page = 0
        /\ At(t, "pages", "oom")
        /\ UNCHANGED <<first_free_page, word, pages>>
  /\ UNCHANGED <<pte, heap_pages, bitmap, slot, index, live, reap, panicked, exited>>

\* find_free_bit, between semaphore_acquire and semaphore_release.
BadReserved(s) == bitmap  \* forgets to set the bit

Reserved(s) == bitmap \cup {s}

FindSlot(t) ==
  LET free == (0..(Slots - 1)) \ bitmap IN
  /\ pc[t] = "pages"
  /\ Len(pages[t]) = StackPages
  /\ \/ /\ free # {}
        /\ At(t, "pages", "map")
        /\ slot' = [slot EXCEPT ![t] = Min(free)]
        /\ bitmap' = Reserved(Min(free))
        /\ UNCHANGED panicked
     \/ /\ free = {}
        /\ At(t, "pages", "idle")
        /\ panicked' = "slots"
        /\ UNCHANGED <<slot, bitmap>>
  /\ UNCHANGED <<first_free_page, word, pte, heap_pages, pages, index, live,
                 reap, exited>>

\* The loop over mm_map_page.
BadMorePages(i) == i < StackPages  \* stops one page early

MorePages(i) == i <= StackPages

MapPage(t) ==
  LET entry == <<slot[t], index[t]>> IN
  /\ pc[t] = "map"
  /\ MorePages(index[t])
  /\ \/ /\ Mappable(pte[entry])
        /\ At(t, "map", "map")
        /\ pte' = [pte EXCEPT ![entry] = Mapped(pages[t][index[t]])]
        /\ index' = [index EXCEPT ![t] = @ + 1]
     \/ /\ ~Mappable(pte[entry])
        /\ At(t, "map", "mapped")
        /\ UNCHANGED <<pte, index>>
  /\ UNCHANGED <<first_free_page, word, heap_pages, bitmap, pages, slot, live,
                 reap, panicked, exited>>

\* The canaries and the pcb are written: the new thread has its stack.
Done(t) ==
  /\ ~MorePages(index[t])
  /\ At(t, "map", "idle")
  /\ live' = live \cup {slot[t]}
  /\ slot' = [slot EXCEPT ![t] = -1]
  /\ index' = [index EXCEPT ![t] = 1]
  /\ pages' = [pages EXCEPT ![t] = <<>>]
  /\ UNCHANGED <<first_free_page, word, pte, heap_pages, bitmap, reap,
                 panicked, exited>>

(* The return of 0: all the pages are given back (the bit stays set), and  *)
(* create_new_task panics: "Failed to allocate new stack".                 *)
Undo(t) ==
  /\ pc[t] \in {"oom", "mapped"}
  /\ \/ /\ pages[t] # <<>>
        /\ At(t, pc[t], pc[t])
        /\ mm_free_physical_page(Head(pages[t]))
        /\ pages' = [pages EXCEPT ![t] = Tail(@)]
        /\ UNCHANGED panicked
     \/ /\ pages[t] = <<>>
        /\ At(t, pc[t], pc[t])
        /\ panicked' = pc[t]
        /\ UNCHANGED <<first_free_page, word, pages>>
  /\ UNCHANGED <<pte, heap_pages, bitmap, slot, index, live, reap, exited>>

mm_alloc_stack(t) ==
  Call(t) \/ AllocPage(t) \/ FindSlot(t) \/ MapPage(t) \/ Done(t) \/ Undo(t)

-----------------------------------------------------------------------------
(* The loop of malloc that makes the heap larger, in thread t: one page.   *)

InMalloc(t) == pc[t] = "grow"

GrowAlloc(t) ==
  /\ Len(heap) < HeapPages
  /\ \A u \in Threads : ~InMalloc(u)
  /\ \/ /\ mm_alloc_physical_page(first_free_page)
        /\ pages' = [pages EXCEPT ![t] = <<first_free_page>>]
        /\ At(t, "idle", "grow")
        /\ UNCHANGED panicked
     \/ /\ first_free_page = 0
        /\ At(t, "idle", "idle")
        /\ panicked' = "heap"
        /\ UNCHANGED <<first_free_page, word, pages>>
  /\ UNCHANGED <<pte, heap_pages, bitmap, slot, index, live, reap, exited>>

(* mm_map_page makes a page table when there is none.  It does not look at *)
(* what mm_alloc_physical_page returns: without memory, the new table is   *)
(* whatever is in physical page 0.                                         *)
BadNewTable(page) == Mapped(page)  \* maps the data page as its own table

NewTable(page) == Mapped(first_free_page)

GrowMap(t) ==
  LET table == TableOf(Len(heap) + 1)
      page == Head(pages[t])
  IN
  /\ InMalloc(t)
  /\ At(t, "grow", "idle")
  /\ heap' = Append(heap, Mapped(page))
  /\ pages' = [pages EXCEPT ![t] = <<>>]
  /\ \/ /\ Present(tables[table])
        /\ UNCHANGED <<first_free_page, word, tables>>
     \/ /\ ~Present(tables[table])
        /\ tables' = [tables EXCEPT ![table] = NewTable(page)]
        /\ \/ mm_alloc_physical_page(first_free_page)
           \/ first_free_page = 0 /\ UNCHANGED <<first_free_page, word>>
  /\ UNCHANGED <<mmap, pte, bitmap, slot, index, live, reap, panicked, exited>>

\* An entry of such a table may look mapped: mm_map_page fails, malloc panics.
GrowFails(t) ==
  /\ InMalloc(t)
  /\ Frame(tables[TableOf(Len(heap) + 1)]) = 0
  /\ Present(tables[TableOf(Len(heap) + 1)])
  /\ At(t, "grow", "idle")
  /\ panicked' = "map"
  /\ UNCHANGED <<first_free_page, word, pte, heap_pages, bitmap, pages, slot,
                 index, live, reap, exited>>

malloc(t) == GrowAlloc(t) \/ GrowMap(t) \/ GrowFails(t)

-----------------------------------------------------------------------------
(* mm_free_stack, for a thread that exited: from the timer interrupt.      *)

FreeStack ==
  /\ panicked = "no"
  /\ reap = NoReap
  /\ \E s \in live \ BootSlots :
       /\ live' = live \ {s}
       /\ reap' = [slot |-> s, page |-> 1]
       /\ exited' = exited \cup {s}
  /\ UNCHANGED <<first_free_page, word, pte, heap_pages, bitmap, locals,
                 panicked>>

\* mm_free_physical_page(mm_unmap_page(...)); the entry becomes 2, not present.
UnmapPage ==
  LET entry == <<reap.slot, reap.page>> IN
  /\ reap # NoReap
  /\ reap.page <= StackPages
  /\ mm_free_physical_page(Unmapped(pte[entry]))
  /\ pte' = [pte EXCEPT ![entry] = IF Present(@) THEN 2 ELSE @]
  /\ reap' = [reap EXCEPT !.page = @ + 1]
  /\ UNCHANGED <<heap_pages, bitmap, locals, live, panicked, exited>>

BadFreed(s) == bitmap \ {s + 1}  \* the bit of the neighbour

Freed(s) == bitmap \ {s}

ClearBit ==
  /\ reap # NoReap
  /\ reap.page > StackPages
  /\ bitmap' = Freed(reap.slot)
  /\ reap' = NoReap
  /\ UNCHANGED <<first_free_page, word, pte, heap_pages, locals, live,
                 panicked, exited>>

-----------------------------------------------------------------------------
Next ==
  \/ \E t \in Threads : mm_alloc_stack(t) \/ malloc(t)
  \/ FreeStack
  \/ UnmapPage
  \/ ClearBit

Spec == Init /\ [][Next]_vars

-----------------------------------------------------------------------------
(* Properties.                                                             *)

Claimed(t) == slot[t] # -1

(* A slot belongs to one thread at most: to the one that uses the stack,   *)
(* to the one that sets it up, or to the interrupt that takes it down.     *)
SlotsExclusive ==
  /\ \A t, u \in Threads : Claimed(t) /\ Claimed(u) /\ slot[t] = slot[u] => t = u
  /\ \A t \in Threads : Claimed(t) => slot[t] \notin live \cup {reap.slot}
  /\ reap.slot \notin live

(* The bit of a slot is set as long as someone has it, and only then:      *)
(* neither a slot that is lost for ever, nor one that is given twice.      *)
BitmapExact ==
  bitmap = live \cup {slot[t] : t \in {u \in Threads : Claimed(u)}}
                \cup (IF reap = NoReap THEN {} ELSE {reap.slot})

(* No thread runs on a stack with a hole in it, and mm_alloc_stack returns *)
(* 0, with memory left, only for a slot that a dead thread used before:    *)
(* the entries it left are 2, which mm_map_page takes for mapped.          *)
LiveStacksMapped ==
  /\ \A s \in live, i \in 1..StackPages : Present(pte[<<s, i>>])
  /\ \A t \in Threads : pc[t] = "mapped" => slot[t] \in exited

(* Who uses a frame: an entry of a stack or of the heap, a page table of   *)
(* the heap, the directory of the idle task, a thread that is to map it.   *)
StackUses ==
  {<<"stack", e, Frame(pte[e])>> : e \in {x \in Entries : Present(pte[x])}}
HeapUses == {<<"heap", v, Frame(heap[v])>> : v \in DOMAIN heap}
TableUses ==
  {<<"table", i, Frame(tables[i])>> : i \in {x \in DOMAIN tables : Present(tables[x])}}
DirectoryUses == {<<"directory", 1, BootPages(mmap)[DirectoryAtBoot]>>}
ThreadUses ==
  UNION {{<<"thread", <<t, i>>, pages[t][i]>> : i \in index[t]..Len(pages[t])} :
           t \in Threads}

Uses == StackUses \cup HeapUses \cup TableUses \cup DirectoryUses \cup ThreadUses

FreeFrames == Frames \ {u[3] : u \in Uses}

(* The free list is a list of exactly the pages that nobody has mapped or  *)
(* holds in pages: no page is lost, free twice, or free and in use.        *)
FreeListExact ==
  /\ first_free_page \in FreeFrames \cup {0}
  /\ \A f \in FreeFrames : word[f] \in (FreeFrames \ {first_free_page}) \cup {0}
  /\ \A f, g \in FreeFrames : word[f] = word[g] /\ word[f] # 0 => f = g
  /\ \A X \in SUBSET FreeFrames :
       /\ first_free_page # 0 => first_free_page \in X
       /\ \A f \in X : word[f] # 0 => word[f] \in X
       => X = FreeFrames

\* Until the stack of a thread that exited is freed, the free list is right.
FreeListExactUntilExit == exited = {} => FreeListExact

(* A frame has one use: no page of a stack, of the heap, no page table and *)
(* no page directory is another one too, and all are in usable memory or   *)
(* part of the kernel.  The exception is frame 0, for the tables that      *)
(* mm_map_page makes when there is no memory left.                         *)
FramesExclusive ==
  exited = {} =>
    /\ \A u, v \in Uses : u[3] = v[3] /\ u[3] # 0 => u = v
    /\ \A u \in Uses : \/ u[3] \in Frames \cup {BootStack, BootTable}
                       \/ u[1] = "table" /\ u[3] = 0

=============================================================================
