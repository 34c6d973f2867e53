-------------------------------- MODULE Heap --------------------------------
(***************************************************************************)
(* The heap of libk (libk/src/all/stdlib/malloc.c): best fit with boundary *)
(* markers.  Addresses and sizes count from heap_start; Page and MaxAlign  *)
(* are parameters, so that a few small pages show what 4096 and 16 do.     *)
(*                                                                         *)
(* malloc and free hold heap_semaphore from their first access to a marker *)
(* another thread may change to their last one, so each is one step here   *)
(* (what the semaphore is worth is the subject of Locks).  realloc is a    *)
(* malloc and a free, and other threads come in between.                   *)
(*                                                                         *)
(* mem holds the markers.  What the owner of a chunk writes is arbitrary,  *)
(* and so is what is left of the markers of merged chunks: both are Junk,  *)
(* which no step may use as a marker.                                      *)
(***************************************************************************)
EXTENDS Integers, FiniteSets, FiniteSetsExt

CONSTANTS
  MaxAlign,     \* alignof(max_align_t)
  MarkerSize,   \* sizeof(chunck_marker_start_t) and ..._end_t, equal on i386
  Page,         \* MM_PAGE_SIZE
  MaxPages,     \* physical pages the heap may get: bound
  Word,         \* 2^32: size_t counts modulo Word
  Requests,     \* the sizes malloc and realloc are called with
  Junk          \* memory that holds no marker

ASSUME SizesAssumption ==
  /\ MaxAlign \in Nat \ {0} /\ MarkerSize \in Nat \ {0}
  /\ Page \in Nat \ {0} /\ Page % MaxAlign = 0
  /\ MaxPages \in Nat
  /\ Word \in Nat /\ MaxPages * Page < Word /\ MarkerSize + MaxAlign <= Word

VARIABLES
  mem,       \* markers by address
  heap_end,
  owned,     \* history: the size asked for, by pointer that malloc returned
  moving,    \* pointers a realloc has copied and will free
  panicked   \* why the kernel stopped: a lack of pages or a dead canary

vars == <<mem, heap_end, owned, moving, panicked>>

-----------------------------------------------------------------------------
aligned_size(n) ==
  (n + (IF n % MaxAlign # 0 THEN MaxAlign - (n % MaxAlign) ELSE 0)) % Word

Wraps(n) == aligned_size(n) < n  \* malloc serves it as a request of 0

Overhead == 2 * aligned_size(MarkerSize)  \* start_size + end_size
start_size == aligned_size(MarkerSize)
end_size == aligned_size(MarkerSize)

(* Between the sizes that memory can hold and the last ones, which wrap to *)
(* 0, there are some for which a later sum of malloc would wrap: nobody    *)
(* asks for them here.                                                     *)
ASSUME RequestsAssumption ==
  /\ Requests \subseteq 0..(Word - 1)
  /\ \A n \in Requests : aligned_size(n) + 2 * Overhead < Word

Limit == MaxPages * Page
Addresses == 0..(Limit - 1)

Start(isFree, n) == [marker |-> "start", free |-> isFree, size |-> n]
End(n) == [marker |-> "end", size |-> n]

StartMarkers == [marker : {"start"}, free : BOOLEAN, size : Nat]
EndMarkers == [marker : {"end"}, size : Nat]

ASSUME JunkAssumption == Junk \notin StartMarkers \cup EndMarkers

IsStart(a) == a \in Addresses /\ mem[a] # Junk /\ mem[a].marker = "start"
IsEnd(a) == a \in Addresses /\ mem[a] # Junk /\ mem[a].marker = "end"

(* mark_chunck; what the chunk covers between its markers is not a marker  *)
(* any more.                                                               *)
mark_chunck(m, p, n, isFree) ==
  [a \in Addresses |->
     IF a = p THEN Start(isFree, n)
     ELSE IF a = p + start_size + n THEN End(n)
     ELSE IF a > p /\ a < p + n + Overhead THEN Junk
     ELSE m[a]]

\* The chunks malloc walks through, from ptr on.
ChunksFrom[ptr \in 0..Limit] ==
  IF ptr < heap_end /\ IsStart(ptr)
    THEN {ptr} \cup (IF ptr + mem[ptr].size + Overhead <= Limit
                       THEN ChunksFrom[ptr + mem[ptr].size + Overhead] ELSE {})
    ELSE {}

Chunks == ChunksFrom[0]

-----------------------------------------------------------------------------
Init ==
  /\ mem = [a \in Addresses |-> Junk]
  /\ heap_end = 0
  /\ owned = [p \in {} |-> 0]
  /\ moving = {}
  /\ panicked = "no"

(* The free chunks that can hold n, and the one malloc takes.  The         *)
(* definitions that start with Bad are the mistakes the properties are     *)
(* tried on.                                                               *)
BadFitting(n) == {p \in Chunks : mem[p].free}  \* does not look at the size

Fitting(n) == {p \in Chunks : mem[p].free /\ mem[p].size >= n}

Best(n) ==
  LET fitting == Fitting(n)
      least == Min({mem[p].size : p \in fitting})
  IN Min({p \in fitting : mem[p].size = least})

(* Takes a chunk of n out of the size units of usable memory that follow   *)
(* the marker at p, and splits when the rest can be a chunk of its own.    *)
BadSplits(n, size) == size > n  \* forgets the markers of the rest

Splits(n, size) == size > n + Overhead

Carved(p, n, size) ==
  IF Splits(n, size)
    THEN mark_chunck(mark_chunck(mem, p + n + Overhead, size - n - Overhead, TRUE),
                     p, n, FALSE)
    ELSE mark_chunck(mem, p, size, FALSE)

\* malloc hands out the chunk at p.
Take(p, n, request, size) ==
  /\ mem' = Carved(p, n, size)
  /\ owned' = [q \in DOMAIN owned \cup {p + start_size} |->
                 IF q = p + start_size THEN request ELSE owned[q]]

MallocBest(request) ==
  LET n == aligned_size(request) IN
  /\ Fitting(n) # {}
  /\ LET best == Best(n) IN Take(best, n, request, mem[best].size)
  /\ UNCHANGED <<heap_end, panicked>>

(* No chunk fits: new pages are put behind the last chunk if it is free,   *)
(* at the end of the heap otherwise.                                       *)
InsertionPoint ==
  LET last == Max(Chunks) IN
  IF heap_end > 0 /\ mem[last].free THEN last ELSE heap_end

\* The pages that make free_size, what is free at the end, hold n.
NewPages(n, free_size) ==
  Min({k \in 0..(n + Overhead) : free_size + k * Page >= n + Overhead})

MallocGrow(request) ==
  LET n == aligned_size(request)
      p == InsertionPoint
      end == heap_end + NewPages(n, heap_end - p) * Page
  IN /\ Fitting(n) = {}
     /\ \/ /\ end <= Limit
           /\ heap_end' = end
           /\ Take(p, n, request, end - p - Overhead)
           /\ UNCHANGED panicked
        \* mm_alloc_physical_page has no page left: panic.
        \/ /\ end > Limit
           /\ panicked' = "memory"
           /\ UNCHANGED <<mem, heap_end, owned>>

\* malloc(0) returns NULL and does nothing.
malloc(request) ==
  /\ request # 0
  /\ MallocBest(request) \/ MallocGrow(request)

-----------------------------------------------------------------------------
(* free: merge with the chunk after, then with the chunk before.           *)

BadMergedAfter(p) == mark_chunck(mem, p, mem[p].size, TRUE)  \* does not merge

MergedAfter(p) ==
  LET after == p + mem[p].size + Overhead IN
  IF after < heap_end /\ mem[after].free
    THEN mark_chunck(mem, p, mem[p].size + mem[after].size + Overhead, TRUE)
    ELSE [mem EXCEPT ![p].free = TRUE]

\* The chunk at p, in the memory m that the first merge left.
MergedBefore(p, m) ==
  LET before == p - m[p - end_size].size - Overhead IN
  IF p - end_size > 0 /\ m[before].free
    THEN mark_chunck(m, before, m[p].size + m[before].size + Overhead, TRUE)
    ELSE m

\* Both canaries: the end of this chunk, and the end of the one before it.
CanariesAlive(p) ==
  /\ IsEnd(p + start_size + mem[p].size)
  /\ p - end_size > 0 => IsEnd(p - end_size)

FreeChunk(ptr) ==
  LET p == ptr - start_size IN
  \/ /\ CanariesAlive(p)
     /\ mem' = MergedBefore(p, MergedAfter(p))
     /\ owned' = [q \in DOMAIN owned \ {ptr} |-> owned[q]]
     /\ UNCHANGED <<heap_end, panicked>>
  \/ /\ ~CanariesAlive(p)
     /\ panicked' = "canary"
     /\ UNCHANGED <<mem, owned, heap_end>>

-----------------------------------------------------------------------------
Malloc ==
  /\ \E request \in Requests : malloc(request)
  /\ UNCHANGED moving

\* A thread frees what it owns; free(NULL) does nothing.
Free ==
  /\ \E ptr \in DOMAIN owned \ moving : FreeChunk(ptr)
  /\ UNCHANGED moving

(* realloc: malloc and memcpy ... (with size 0 it returns NULL, and what   *)
(* the caller has stays allocated).  Nobody enlarges a chunk to a size     *)
(* that wraps: memcpy would write past the chunk of size 0.                *)
Realloc ==
  \E request \in Requests, ptr \in DOMAIN owned \ moving :
    /\ ~Wraps(request)
    /\ malloc(request)
    /\ moving' = moving \cup {ptr}

\* ... then free of the old chunk.
ReallocFree ==
  \E ptr \in moving :
    /\ FreeChunk(ptr)
    /\ moving' = moving \ {ptr}

Next == panicked = "no" /\ (Malloc \/ Free \/ Realloc \/ ReallocFree)

Spec == Init /\ [][Next]_vars

-----------------------------------------------------------------------------
(* Properties.                                                             *)

NextChunk(p) == p + mem[p].size + Overhead

(* The chunks cover the heap without gap or overlap, however they were     *)
(* split and merged, none has a size that ran below 0, and each one        *)
(* carries its size at both ends.                                          *)
Tiled ==
  LET chunks == Chunks IN
  /\ heap_end > 0 => 0 \in chunks
  /\ \A p \in chunks :
       /\ mem[p].size \in 0..heap_end
       /\ NextChunk(p) \in chunks \cup {heap_end}
       /\ IsEnd(p + start_size + mem[p].size)
       /\ mem[p + start_size + mem[p].size].size = mem[p].size

(* free leaves no two free chunks side by side, and neither do the splits  *)
(* of malloc: the heap never decays into pieces too small to use.          *)
Coalesced ==
  LET chunks == Chunks IN
  \A p, q \in chunks : q = NextChunk(p) => ~(mem[p].free /\ mem[q].free)

(* The chunks in use are the ones malloc has handed out and free has not   *)
(* taken back, and each holds what was asked for, unless aligned_size has  *)
(* wrapped.  So the canary checks of free only fire for callers that       *)
(* write outside their chunks.                                             *)
OwnedExact ==
  /\ {p + start_size : p \in {q \in Chunks : ~mem[q].free}} = DOMAIN owned
  /\ \A ptr \in DOMAIN owned :
       Wraps(owned[ptr]) \/ mem[ptr - start_size].size >= owned[ptr]
  /\ panicked # "canary"

=============================================================================
