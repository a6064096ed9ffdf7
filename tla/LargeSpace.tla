----------------------------- MODULE LargeSpace -----------------------------
(***************************************************************************)
(* The large object space: the list of chunks that tiles the large heap    *)
(* (include/chunk_list.h), first-fit allocation that splits a chunk, the   *)
(* explicit deallocation of GC_free, growth by powers of two, and the part *)
(* of a collection that unmarks, marks, finalizes and sweeps chunks,       *)
(* merging neighbours as it goes.  The finalizers run between the marking  *)
(* and the sweep, and may allocate and free chunks.                        *)
(*                                                                         *)
(* A chunk is named by its address, counted from large_heap_start, and its *)
(* header is a record of the function `chunk'.  Malloc and Free hold       *)
(* GC_lock.  A collection that the program asks for does not: here no      *)
(* other thread is in a call meanwhile.                                    *)
(***************************************************************************)
EXTENDS Integers, FiniteSets

CONSTANTS
    HEADER,             \* CHUNK_HEADER_SIZE
    OBJECT,             \* sizeof(Object)
    BLOCK_SIZE,         \* the heap grows by multiples of it
    INITIAL_SIZE,       \* large_heap_size after GC_init
    SIZES,              \* rounded sizes the program asks for
    SMALL_HEAP_SIZE,    \* the small object space, constant here
    MEMORY_LIMIT,       \* memory_limit, both spaces together
    FREE_SPACE_DIVISOR, \* a collection is due after 1/Nth of the heap
    POWERS,             \* the powers of two that a size_t holds
    INT_MAX,            \* the largest int
    SIZE_MODULUS,       \* one more than the largest size_t
    SPURIOUS,           \* words on the stack that look like heap pointers
    MAX_ALLOCATED,      \* bound: no call is started once `allocated' reaches it
    NULL

CHUNK == HEADER + OBJECT          \* sizeof(Chunk)
CHUNK_MIN_SIZE == 2 * CHUNK

\* As if log2 were rounded down.
MutantNextPower(increment) ==
    CHOOSE p \in POWERS : p <= increment /\ increment < 2 * p

\* The power of two that 1 << ceil(log2(increment)) computes.
NextPower(increment) ==
    CHOOSE p \in POWERS : increment <= p /\ p < 2 * increment

ASSUME LayoutAssumption ==
    /\ HEADER \in Nat \ {0} /\ OBJECT \in Nat \ {0}
    /\ BLOCK_SIZE \in Nat \ {0} /\ BLOCK_SIZE >= CHUNK
    /\ INITIAL_SIZE \in Nat /\ INITIAL_SIZE >= CHUNK
    /\ SIZES \subseteq Nat \ {0}
    /\ SMALL_HEAP_SIZE \in Nat /\ MEMORY_LIMIT \in Nat
    /\ FREE_SPACE_DIVISOR \in Nat \ {0}
    /\ INITIAL_SIZE + SMALL_HEAP_SIZE <= MEMORY_LIMIT
    /\ INT_MAX \in Nat
    /\ SIZE_MODULUS \in Nat /\ SIZE_MODULUS > MEMORY_LIMIT
    /\ MAX_ALLOCATED \in Nat
    /\ NULL \notin Int /\ NULL \notin {"idle", "retry"}

ASSUME PowersAssumption ==
    /\ POWERS \subseteq Nat \ {0}
    /\ \A p \in POWERS : p = 1 \/ \E q \in POWERS : p = 2 * q
    /\ \A s \in SIZES : \E p \in POWERS :
          s + CHUNK <= p /\ p < 2 * (s + CHUNK)

VARIABLES
    chunk,          \* the header of each chunk, by address
    first, last,    \* the ends of the list
    list_size,      \* ChunkList.size
    heap_stop,      \* large_heap_stop; large_heap_start is address 0
    allocated,      \* allocated_bytes_since_collect
    live,           \* the objects the program can still reach
    borrowed,       \* what finalizers have allocated in this collection
    freed,          \* history: the marked chunks they have freed in it
    pc,             \* the step the running call has reached
    request,        \* the size being allocated
    outer,          \* the request that waits for the collection, when a
                    \* finalizer makes one of its own
    caller,         \* where to continue once the collection is done
    current, limit, count,  \* the locals of ChunkList_sweep
    status          \* "running", or how the program stopped

list == <<chunk, first, last, list_size, heap_stop>>
objects == <<live, borrowed, freed>>
requests == <<request, outer>>
locals == <<current, limit, count>>
vars == <<list, allocated, objects, pc, requests, caller, locals, status>>
-----------------------------------------------------------------------------
Chunks == DOMAIN chunk

NewChunk(size) ==
    [next |-> NULL, allocated |-> FALSE, size |-> size, marked |-> FALSE]

ChunkStop(c) == c + HEADER + chunk[c].size

MutatorAddress(c) == c + CHUNK

Chunk_contains(c, pointer) ==
    MutatorAddress(c) <= pointer /\ pointer < ChunkStop(c)

\* A conversion to int keeps the low bits.
ToInt(n) ==
    LET low == n % (2 * (INT_MAX + 1))
    IN IF low > INT_MAX THEN low - 2 * (INT_MAX + 1) ELSE low

ToSize(n) == n % SIZE_MODULUS

\* Without the chunk's own header.
MutantChunk_size(c) == ToInt(chunk[c].size)

\* Chunk_size returns an int.
Chunk_size(c) == ToInt(chunk[c].size + HEADER)

\* The start of the last chunk in place of its end.
MutantListLimit == last

\* ChunkList_limit, which adds that int to the address of the last chunk.
ListLimit == last + Chunk_size(last)

ROUND_TO_NEXT_MULTIPLE(value, multiple) ==
    ((value + multiple - 1) \div multiple) * multiple

Init ==
    /\ chunk = [c \in {0} |-> NewChunk(INITIAL_SIZE - HEADER)]
    /\ first = 0 /\ last = 0 /\ list_size = 1
    /\ heap_stop = INITIAL_SIZE
    /\ allocated = 0
    /\ live = {} /\ borrowed = {} /\ freed = {}
    /\ pc = "idle"
    /\ request = NULL /\ outer = NULL /\ caller = NULL
    /\ current = NULL /\ limit = NULL /\ count = 0
    /\ status = "running"

Running(step) == status = "running" /\ pc = step

Stop(why) ==
    /\ status' = why
    /\ UNCHANGED <<list, allocated, objects, pc, requests, caller, locals>>
-----------------------------------------------------------------------------
(* GC_malloc of a large size: GlobalAllocator_allocateLarge *)

\* The program calls, or a finalizer.
Malloc(size) ==
    /\ Running("idle") \/ Running("finalize")
    /\ allocated < MAX_ALLOCATED
    /\ pc' = "allocate"
    /\ request' = size /\ outer' = request
    /\ UNCHANGED <<list, allocated, objects, caller, locals, status>>

\* is_collecting
Collecting == caller # NULL

Fitting == {c \in Chunks : /\ ~chunk[c].allocated
                           /\ request + OBJECT <= chunk[c].size}

\* ChunkList_split, ChunkList_insert and Chunk_allocate: the rest becomes a
\* chunk of its own when it is large enough.
SplitAndAllocate(c) ==
    LET size      == request + OBJECT
        remaining == chunk[c].size - size
        rest      == c + HEADER + size
    IN IF remaining < CHUNK_MIN_SIZE
       THEN /\ chunk' = [chunk EXCEPT ![c].allocated = TRUE]
            /\ UNCHANGED <<last, list_size>>
       ELSE /\ chunk' = [d \in Chunks \cup {rest} |->
                           IF d = c
                           THEN [chunk[c] EXCEPT !.size = size, !.next = rest,
                                                 !.allocated = TRUE]
                           ELSE IF d = rest
                           THEN [NewChunk(remaining - HEADER) EXCEPT
                                   !.next = IF c = last THEN NULL
                                            ELSE chunk[c].next]
                           ELSE chunk[d]]
            /\ last' = IF c = last THEN rest ELSE last
            /\ list_size' = list_size + 1

\* tryAllocateLarge takes the first chunk of the list that fits, which is the
\* one at the lowest address as the list is in address order.
TryAllocate ==
    /\ status = "running" /\ pc \in {"allocate", "retry", "grown"}
    /\ \E c \in Fitting :
          /\ \A d \in Fitting : c <= d
          /\ SplitAndAllocate(c)
          /\ LET o == [at |-> c, size |-> request]
             IN IF Collecting
                THEN borrowed' = borrowed \cup {o} /\ UNCHANGED live
                ELSE live' = live \cup {o} /\ UNCHANGED borrowed
          /\ freed' = freed \ {c}
    /\ allocated' = allocated + request
    /\ pc' = IF Collecting THEN "finalize" ELSE "idle"
    /\ request' = outer /\ outer' = NULL
    /\ UNCHANGED <<first, heap_stop, caller, locals, status>>

CollectionDue ==
    /\ ~Collecting
    /\ allocated >= (SMALL_HEAP_SIZE + heap_stop) \div FREE_SPACE_DIVISOR

\* The program stopped reaching some of its objects.
StartCollection(then) ==
    /\ \E kept \in SUBSET live : live' = kept
    /\ caller' = then
    /\ pc' = "unmark"
    /\ UNCHANGED <<list, allocated, borrowed, freed, requests, locals, status>>

\* Nothing fits: collect if that is due, else grow, once each.
NoFit ==
    /\ status = "running" /\ pc \in {"allocate", "retry", "grown"}
    /\ Fitting = {}
    /\ IF pc = "grown" THEN Stop("no luck")
       ELSE IF pc = "allocate" /\ CollectionDue THEN StartCollection("retry")
       ELSE /\ pc' = "grow"
            /\ UNCHANGED <<list, allocated, objects, requests, caller, locals,
                           status>>

\* As if the limit were on a single increment.
MutantExceedsLimit(increment) == increment > MEMORY_LIMIT

\* Both spaces together stay under the limit.
ExceedsLimit(increment) == SMALL_HEAP_SIZE + heap_stop + increment > MEMORY_LIMIT

\* GlobalAllocator_growLarge: a new chunk is pushed on the list.
GrowLarge ==
    /\ Running("grow")
    /\ LET size == ROUND_TO_NEXT_MULTIPLE(NextPower(request + CHUNK), BLOCK_SIZE)
       IN IF ExceedsLimit(size)
          THEN Stop("out of memory")
          ELSE /\ heap_stop' = heap_stop + size
               /\ chunk' = [c \in Chunks \cup {heap_stop} |->
                              IF c = heap_stop THEN NewChunk(size - HEADER)
                              ELSE IF c = last
                              THEN [chunk[c] EXCEPT !.next = heap_stop]
                              ELSE chunk[c]]
               /\ last' = heap_stop
               /\ list_size' = list_size + 1
               /\ pc' = "grown"
               /\ UNCHANGED <<first, allocated, objects, requests, caller,
                              locals, status>>

\* GC_free: deallocateLarge clears a flag and leaves the rest to the sweep.
\* The calls of the object's finalizer, if it has one, come before: they are
\* calls like any other, with the object still in use.
Free(o) ==
    /\ Running("idle")
    /\ o \in live
    /\ chunk' = [chunk EXCEPT ![o.at].allocated = FALSE]
    /\ live' = live \ {o}
    /\ UNCHANGED <<first, last, list_size, heap_stop, allocated, borrowed,
                   freed, pc, requests, caller, locals, status>>
-----------------------------------------------------------------------------
(* The part of Collector_collect that concerns chunks *)

Collect ==
    /\ Running("idle")
    /\ StartCollection("idle")

\* Chunks that are free are passed over.
MutantUnmark ==
    /\ Running("unmark")
    /\ chunk' = [c \in Chunks |->
                   IF chunk[c].allocated
                   THEN [chunk[c] EXCEPT !.marked = FALSE]
                   ELSE chunk[c]]
    /\ pc' = "mark"
    /\ UNCHANGED <<first, last, list_size, heap_stop, allocated, objects,
                   requests, caller, locals, status>>

Unmark ==
    /\ Running("unmark")
    /\ chunk' = [c \in Chunks |-> [chunk[c] EXCEPT !.marked = FALSE]]
    /\ pc' = "mark"
    /\ UNCHANGED <<first, last, list_size, heap_stop, allocated, objects,
                   requests, caller, locals, status>>

\* Each object in use is reached through a pointer to its first or last word.
Pointers(inner, spurious) ==
    {MutatorAddress(o.at) + IF inner THEN o.size - 1 ELSE 0 : o \in live}
      \cup spurious

Mark ==
    /\ Running("mark")
    /\ \E inner \in BOOLEAN, spurious \in {{}} \cup {{p} : p \in SPURIOUS} :
          chunk' = [c \in Chunks |->
                      IF /\ chunk[c].allocated
                         /\ \E p \in Pointers(inner, spurious) :
                               Chunk_contains(c, p)
                      THEN [chunk[c] EXCEPT !.marked = TRUE]
                      ELSE chunk[c]]
    /\ allocated' = 0
    /\ pc' = "finalize"
    /\ UNCHANGED <<first, last, list_size, heap_stop, objects, requests, caller,
                   locals, status>>

\* A finalizer gives back a chunk: another's, or one that a false pointer has
\* kept.  Its mark stays as it is.
FinalizerFrees(c) ==
    /\ Running("finalize")
    /\ chunk[c].allocated
    /\ chunk' = [chunk EXCEPT ![c].allocated = FALSE]
    /\ live' = {o \in live : o.at # c}
    /\ borrowed' = {o \in borrowed : o.at # c}
    /\ freed' = IF chunk[c].marked THEN freed \cup {c} ELSE freed
    /\ UNCHANGED <<first, last, list_size, heap_stop, allocated, pc, requests,
                   caller, locals, status>>

\* What finalizers have allocated was not marked, and they know it.
EndFinalize ==
    /\ Running("finalize")
    /\ borrowed' = {}
    /\ current' = first
    /\ pc' = "sweep"
    /\ UNCHANGED <<list, allocated, live, freed, requests, caller, limit, count,
                   status>>

(* ChunkList_sweep *)

\* The loop does not go on to the next chunk.
MutantSweepKeep ==
    /\ Running("sweep")
    /\ current # NULL
    /\ chunk[current].marked
    /\ UNCHANGED vars

SweepKeep ==
    /\ Running("sweep")
    /\ current # NULL
    /\ chunk[current].marked
    /\ current' = chunk[current].next
    /\ UNCHANGED <<list, allocated, objects, pc, requests, caller, limit, count, status>>

\* The chunk stays allocated.
MutantSweepFree ==
    /\ Running("sweep")
    /\ current # NULL
    /\ ~chunk[current].marked
    /\ limit' = chunk[current].next
    /\ count' = 0
    /\ pc' = "absorb"
    /\ UNCHANGED <<list, allocated, objects, requests, caller, current, status>>

SweepFree ==
    /\ Running("sweep")
    /\ current # NULL
    /\ ~chunk[current].marked
    /\ chunk' = [chunk EXCEPT ![current].allocated = FALSE]
    /\ limit' = chunk[current].next
    /\ count' = 0
    /\ pc' = "absorb"
    /\ UNCHANGED <<first, last, list_size, heap_stop, allocated, objects, requests,
                   caller, current, status>>

\* The marks of the following chunks are not looked at.
MutantAbsorb ==
    /\ Running("absorb")
    /\ limit # NULL
    /\ limit' = chunk[limit].next
    /\ count' = count + 1
    /\ UNCHANGED <<list, allocated, objects, pc, requests, caller, current, status>>

Absorb ==
    /\ Running("absorb")
    /\ limit # NULL
    /\ ~chunk[limit].marked
    /\ limit' = chunk[limit].next
    /\ count' = count + 1
    /\ UNCHANGED <<list, allocated, objects, pc, requests, caller, current, status>>

\* The sweep goes on after the chunks that it has seen.
NextChunk ==
    /\ current' = limit
    /\ limit' = NULL /\ count' = 0
    /\ pc' = "sweep"

\* ChunkList_merge: the chunk takes all the memory up to `limit', and what
\* were the headers of other chunks there are free memory now.
MergeUpTo(c, stop) ==
    LET size == ToSize(stop - c - HEADER)
    IN IF size > chunk[c].size
       THEN /\ chunk' = [d \in {d \in Chunks : d <= c \/ d >= stop} |->
                           IF d = c
                           THEN [chunk[c] EXCEPT !.next = limit, !.size = size]
                           ELSE chunk[d]]
            /\ last' = IF limit = NULL THEN c ELSE last
            /\ list_size' = list_size - count
            /\ NextChunk
            /\ UNCHANGED <<first, heap_stop, allocated, objects, requests, caller,
                           status>>
       ELSE Stop("assertion failed")

AbsorbDone ==
    /\ Running("absorb")
    /\ limit # NULL => chunk[limit].marked
    /\ IF limit # chunk[current].next
       THEN MergeUpTo(current, IF limit = NULL THEN ListLimit ELSE limit)
       ELSE /\ NextChunk
            /\ UNCHANGED <<list, allocated, objects, requests, caller, status>>

SweepDone ==
    /\ Running("sweep")
    /\ current = NULL
    /\ pc' = caller
    /\ caller' = NULL
    /\ freed' = {}
    /\ UNCHANGED <<list, allocated, live, borrowed, requests, locals, status>>
-----------------------------------------------------------------------------
Step == \/ TryAllocate \/ NoFit \/ GrowLarge
        \/ Unmark \/ Mark \/ EndFinalize
        \/ SweepKeep \/ SweepFree \/ Absorb \/ AbsorbDone \/ SweepDone

Next == \/ Step
        \/ \E size \in SIZES : Malloc(size)
        \/ \E o \in live : Free(o)
        \/ Collect
        \/ \E c \in Chunks : FinalizerFrees(c)

Spec == Init /\ [][Next]_vars

\* A call that has started runs to its end.
FairSpec == Spec /\ WF_vars(Step)
-----------------------------------------------------------------------------
(* Properties *)

Header == [next : Nat \cup {NULL}, allocated : BOOLEAN, size : Nat, marked : BOOLEAN]

ListType ==
    /\ Chunks \subseteq Nat
    /\ chunk \in [Chunks -> Header]
    /\ first \in Chunks /\ last \in Chunks
    /\ list_size \in Nat
    /\ heap_stop \in Nat /\ SMALL_HEAP_SIZE + heap_stop <= MEMORY_LIMIT

CallType ==
    /\ allocated \in Nat
    /\ live \subseteq [at : Nat, size : SIZES]
    /\ borrowed \subseteq [at : Nat, size : SIZES]
    /\ freed \subseteq Nat
    /\ pc \in {"idle", "allocate", "retry", "grow", "grown", "unmark", "mark",
              "finalize", "sweep", "absorb"}
    /\ request \in SIZES \cup {NULL} /\ outer \in SIZES \cup {NULL}
    /\ pc \in {"allocate", "retry", "grow", "grown"} => request # NULL
    /\ caller \in {"idle", "retry", NULL}
    /\ pc \in {"idle", "retry"} => ~Collecting
    /\ pc \in {"unmark", "mark", "finalize", "sweep", "absorb"} => Collecting
    /\ caller = "retry" =>
          IF pc \in {"allocate", "grow", "grown"} THEN outer # NULL
          ELSE request # NULL
    /\ current \in Nat \cup {NULL} /\ limit \in Nat \cup {NULL}
    /\ count \in Nat
    /\ status \in {"running", "out of memory", "no luck", "assertion failed"}

\* A request is pending whenever one is being served, and a collection knows
\* where to go on.
TypeOK == ListType /\ CallType

\* ChunkList_validate: following the list from its first chunk, each chunk
\* ends where the next begins, the last one at the end of the heap, and the
\* list counts them; and no chunk lies inside another.  So no word of the
\* large heap is lost or belongs to two chunks, whatever is split, pushed and
\* merged.
ListTilesHeap ==
    /\ first = 0
    /\ \A c \in Chunks :
          /\ OBJECT <= chunk[c].size
          /\ IF chunk[c].next = NULL
             THEN c = last /\ ChunkStop(c) = heap_stop
             ELSE chunk[c].next \in Chunks /\ chunk[c].next = ChunkStop(c)
          /\ ChunkStop(c) <= heap_stop
    /\ chunk[last].next = NULL
    /\ \A c, d \in Chunks : c < d => ChunkStop(c) <= d
    /\ list_size = Cardinality(Chunks)

\* An object in use has a chunk of its own, which is allocated and as large
\* as was asked for: neither splitting, nor freeing or sweeping its
\* neighbours, nor merging them takes any of it; and what a finalizer
\* allocates is its own until the finalizers are done.
ObjectsKept ==
    LET used == live \cup borrowed
    IN /\ \A o \in used : /\ o.at \in Chunks
                          /\ chunk[o.at].allocated
                          /\ o.size + OBJECT <= chunk[o.at].size
       /\ \A o, p \in used : o.at = p.at => o = p

\* A sweep has merged all it could: what is still allocated is what was
\* marked, and no two neighbours are both free -- but for the chunks that a
\* finalizer of this collection freed when they were marked.  The chunks that
\* the program freed since the last collection, marked by it, are not spared.
SweepIsComplete ==
    Running("sweep") /\ current = NULL =>
        \A c \in Chunks \ freed :
            /\ chunk[c].allocated <=> chunk[c].marked
            /\ chunk[c].next \notin freed \cup {NULL} =>
                  chunk[c].allocated \/ chunk[chunk[c].next].allocated

\* The chunk that growLarge adds always satisfies the request: the abort
\* "seriously? no luck" is unreachable.
GrowthSuffices == status # "no luck"

\* The assertion in ChunkList_merge: a chunk that is merged grows.
MergeGrows == status # "assertion failed"

\* Every request and every collection ends, with an object or with the
\* program out of memory: neither the sweep's two loops nor the retries of an
\* allocation run for ever.
CallsComplete == pc # "idle" ~> pc = "idle" \/ status # "running"
=============================================================================
