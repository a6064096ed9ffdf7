------------------------------ MODULE Threads -------------------------------
(***************************************************************************)
(* Several threads, each with a local allocator, and what they share: the  *)
(* lists of blocks, under GC_lock, and the array of local allocators       *)
(* (src/immix.c, include/array.h).  A thread takes blocks when it starts   *)
(* (GC_init_thread) and whenever it has exhausted one; a request that      *)
(* finds no block may collect, which rebuilds the lists and resets every   *)
(* allocator in the array, while the other threads run on.  A thread may   *)
(* also collect by itself: GC_collect_once does not take the lock.         *)
(*                                                                         *)
(* What is in a block is the subject of SmallHeap: here the sweep finds    *)
(* any blocks free, recyclable or unavailable.  GC_collect is the          *)
(* program's, and calls GC_collect_once on the same thread, one at a time  *)
(* (the flag @@lock of src/immix.cr).                                      *)
(*                                                                         *)
(* A collection without the lock races with a thread that has it.  Of what *)
(* the race may do, the model has a block request that unlinks its block   *)
(* from the list only when the sweep has built others, and an array that   *)
(* changes under the resets; `overlapped' remembers it.                    *)
(***************************************************************************)
EXTENDS Sequences, SequencesExt, FiniteSets, Naturals

CONSTANTS THREADS,
          MAIN,             \* the thread that called GC_init
          INITIAL_BLOCKS,   \* blocks of the small heap at first,
          GROWTH,           \* blocks it grows by,
          MAX_BLOCKS,       \* and the memory limit, in blocks
          SWEEPS,           \* the blocks a sweep may find marked, and those of
                            \* them that have a hole
          CAPACITY,         \* the first capacity of the array
          NULL,
          GARBAGE           \* what memory nobody wrote to holds

ASSUME ThreadsAssumption ==
    /\ MAIN \in THREADS /\ NULL \notin THREADS /\ GARBAGE \notin THREADS
    /\ INITIAL_BLOCKS \in Nat \ {0} /\ GROWTH \in Nat \ {0}
    /\ MAX_BLOCKS \in Nat /\ INITIAL_BLOCKS <= MAX_BLOCKS
    /\ NULL \notin 1 .. MAX_BLOCKS
    /\ \A sweep \in SWEEPS : /\ sweep.marked \subseteq 1 .. MAX_BLOCKS
                              /\ sweep.holes \subseteq sweep.marked
    /\ CAPACITY \in Nat \ {0}

VARIABLES
    owner,                      \* GC_mutex
    heap_size,                  \* blocks of the small heap
    free_list, recyclable_list,
    collecting,                 \* is_collecting
    buffer, array_size,         \* the array of local allocators
    cursor,                     \* of Array_each, with the block it resets next
    allocator,                  \* the blocks of each thread's allocator
    pc,
    request,                    \* which block of its allocator a thread wants
                                \* or will want first
    found,                      \* the block a request got
    stale,                      \* history: the threads with a block that the
                                \* last collection did not know to be theirs
    overlapped                  \* history: the last collection overlapped a
                                \* critical section of another thread

lists == <<heap_size, free_list, recyclable_list>>
array == <<buffer, array_size>>
calls == <<pc, request, found>>
history == <<stale, overlapped>>
vars == <<owner, lists, collecting, array, cursor, allocator, calls, history>>

Blocks == 1 .. MAX_BLOCKS

\* What an allocator has a block for.
Kinds == {"block", "overflow"}
NoBlocks == [which \in Kinds |-> NULL]

Registered == {buffer[i] : i \in 1 .. array_size}

\* The blocks from n on, in the order of the heap.
NewBlocks(n, count) == [i \in 1 .. count |-> n + i]

Garbage(n) == [i \in 1 .. n |-> GARBAGE]

\* GC_init, which ends with GC_init_thread.
Init ==
    /\ owner = NULL
    /\ heap_size = INITIAL_BLOCKS
    /\ free_list = NewBlocks(0, INITIAL_BLOCKS)
    /\ recyclable_list = <<>>
    /\ collecting = FALSE
    /\ buffer = Garbage(CAPACITY) /\ array_size = 0
    /\ cursor = [index |-> 1, next |-> "block"]
    /\ allocator = [t \in THREADS |-> NoBlocks]
    /\ pc = [t \in THREADS |-> IF t = MAIN THEN "lock" ELSE "unborn"]
    /\ request = [t \in THREADS |-> "block"]
    /\ found = [t \in THREADS |-> NULL]
    /\ stale = {} /\ overlapped = FALSE
-----------------------------------------------------------------------------
(* include/array.h *)

\* Into the capacity, without looking whether there is room.
MutantResized == buffer

\* Array_resize: realloc leaves the new half unwritten.
Resized ==
    IF array_size = Len(buffer) THEN buffer \o Garbage(Len(buffer)) ELSE buffer

Array_push(t) ==
    /\ buffer' = [Resized EXCEPT ![array_size + 1] = t]
    /\ array_size' = array_size + 1

\* The entries after the deleted one stay where they are.
MutantShifted(i) == [buffer EXCEPT ![i] = GARBAGE]

\* Up to the capacity, whose last entry gets what lies behind the buffer.
Shifted(i) ==
    [j \in 1 .. Len(buffer) |->
       IF j < i THEN buffer[j]
       ELSE IF j < Len(buffer) THEN buffer[j + 1] ELSE GARBAGE]

Array_delete(t) ==
    IF t \in Registered
    THEN /\ buffer' = Shifted(CHOOSE i \in 1 .. array_size :
                                /\ buffer[i] = t
                                /\ \A j \in 1 .. i - 1 : buffer[j] # t)
         /\ array_size' = array_size - 1
    ELSE UNCHANGED array
-----------------------------------------------------------------------------
(* Threads *)

Goto(t, step) == pc' = [pc EXCEPT ![t] = step]

\* GC_init_thread: LocalAllocator_init asks for both blocks.
Start(t) ==
    /\ pc[t] \in {"unborn", "dead"}
    /\ \E u \in THREADS : pc[u] = "running"
    /\ Goto(t, "lock")
    /\ UNCHANGED <<owner, lists, collecting, array, cursor, allocator, request,
                   found, history>>

\* The allocator has exhausted a block.
Exhaust(t, which) ==
    /\ pc[t] = "running"
    /\ Goto(t, "lock")
    /\ request' = [request EXCEPT ![t] = which]
    /\ UNCHANGED <<owner, lists, collecting, array, cursor, allocator, found,
                   history>>

\* Whoever holds it.
MutantFree == TRUE

Free == owner = NULL

Lock(t) ==
    /\ pc[t] = "lock"
    /\ Free
    /\ owner' = t
    /\ Goto(t, "find")
    /\ UNCHANGED <<lists, collecting, array, cursor, allocator, request, found,
                   history>>
-----------------------------------------------------------------------------
(* nextBlock and nextFreeBlock, which hold the lock *)

\* A recyclable block will do unless it is for overflows.
ListFor(which) ==
    IF which = "block" /\ recyclable_list # <<>> THEN recyclable_list
    ELSE free_list

Unlink(which) ==
    IF which = "block" /\ recyclable_list # <<>>
    THEN /\ recyclable_list' = Tail(recyclable_list)
         /\ UNCHANGED <<heap_size, free_list>>
    ELSE /\ free_list' = Tail(free_list)
         /\ UNCHANGED <<heap_size, recyclable_list>>

\* BlockList_shift reads the first block ...
Shift(t) ==
    /\ pc[t] \in {"find", "find again"}
    /\ ListFor(request[t]) # <<>>
    /\ found' = [found EXCEPT ![t] = Head(ListFor(request[t]))]
    /\ Goto(t, "unlink")
    /\ UNCHANGED <<owner, lists, collecting, array, cursor, allocator, request,
                   history>>

\* The lock is kept.
MutantUnlock == UNCHANGED owner

Unlock == owner' = NULL

\* ... and makes the next one the first.
Return(t) ==
    /\ pc[t] = "unlink"
    /\ ListFor(request[t]) # <<>>
    /\ Unlink(request[t])
    /\ Unlock
    /\ Goto(t, "assign")
    /\ UNCHANGED <<collecting, array, cursor, allocator, request, found, history>>

\* What follows a block through `next'; for one that is in no list now, any
\* block may, that it came before once.
Following(block) ==
    LET suffixes == Suffixes(free_list) \cup Suffixes(recyclable_list)
        after    == {rest \in suffixes : <<block>> \o rest \in suffixes}
    IN IF after = {} THEN suffixes ELSE after

\* Other lists were built in between: the first is what follows the block now.
ReturnLate(t) ==
    /\ pc[t] = "unlink late"
    /\ \E rest \in Following(found[t]) :
          \/ /\ free_list' = rest
             /\ UNCHANGED recyclable_list
          \/ /\ request[t] = "block"
             /\ recyclable_list' = rest
             /\ UNCHANGED free_list
    /\ Unlock
    /\ Goto(t, "assign")
    /\ UNCHANGED <<heap_size, collecting, array, cursor, allocator, request,
                   found, history>>

\* Out of memory.
Abort ==
    /\ heap_size + GROWTH > MAX_BLOCKS
    /\ pc' = [t \in THREADS |-> "aborted"]
    /\ UNCHANGED lists

GrowSmall ==
    /\ heap_size + GROWTH <= MAX_BLOCKS
    /\ heap_size' = heap_size + GROWTH
    /\ free_list' = free_list \o NewBlocks(heap_size, GROWTH)
    /\ UNCHANGED <<recyclable_list, pc>>

Grow(t) ==
    /\ pc[t] \in {"find", "find again"}
    /\ ListFor(request[t]) = <<>>
    /\ GrowSmall \/ Abort
    /\ UNCHANGED <<owner, collecting, array, cursor, allocator, request, found,
                   history>>

\* The request returns to LocalAllocator_initCursor or initOverflowCursor,
\* without the lock.
Assign(t) ==
    /\ pc[t] = "assign"
    /\ allocator' = [allocator EXCEPT ![t][request[t]] = found[t]]
    /\ found' = [found EXCEPT ![t] = NULL]
    /\ IF t \in Registered
       THEN /\ Goto(t, "running")
            /\ request' = [request EXCEPT ![t] = "block"]
       ELSE IF request[t] = "block"
       THEN /\ Goto(t, "lock")
            /\ request' = [request EXCEPT ![t] = "overflow"]
       ELSE /\ Goto(t, "register")
            /\ request' = [request EXCEPT ![t] = "block"]
    /\ UNCHANGED <<owner, lists, collecting, array, cursor, history>>
-----------------------------------------------------------------------------
(* GC_init_thread and GC_deinit_thread: the array, under the lock *)

\* A collection that has the lock does not let them in.
OverlapsResets == overlapped' = (overlapped \/ collecting)

Register(t) ==
    /\ pc[t] = "register"
    /\ Free
    /\ Array_push(t)
    /\ Goto(t, "running")
    /\ OverlapsResets
    /\ UNCHANGED <<owner, lists, collecting, cursor, allocator, request, found,
                   stale>>

\* The thread ends; then the allocator is freed.
Unregister(t) ==
    /\ pc[t] = "running"
    /\ Free
    /\ Array_delete(t)
    /\ Goto(t, "dead")
    /\ allocator' = [allocator EXCEPT ![t] = NoBlocks]
    /\ stale' = stale \ {t}
    /\ OverlapsResets
    /\ UNCHANGED <<owner, lists, collecting, cursor, request, found>>
-----------------------------------------------------------------------------
(* GC_collect_once *)

\* The blocks a thread has or is about to have that no reset will replace.
Unknown(t) ==
    \/ found[t] # NULL
    \/ t \notin Registered /\ allocator[t]["block"] # NULL

\* Collector_collect: the sweep lists each block that it finds free, or with
\* a hole (in the order of the heap, which makes no difference here).
Swept ==
    /\ ~collecting
    /\ collecting' = TRUE
    /\ \E sweep \in SWEEPS :
          /\ free_list' = SetToSeq((1 .. heap_size) \ sweep.marked)
          /\ recyclable_list' = SetToSeq((1 .. heap_size) \cap sweep.holes)
    /\ stale' = {u \in THREADS : Unknown(u)}
    /\ UNCHANGED <<owner, heap_size, array, cursor, allocator, request, found>>

\* A block request collects, when that is due: the counters are those of
\* SmallHeap.
Collect(t) ==
    /\ pc[t] = "find"
    /\ ListFor(request[t]) = <<>>
    /\ Swept
    /\ overlapped' = FALSE
    /\ Goto(t, "reset")

\* The program collects, whoever has the lock.
CollectUnlocked(t) ==
    /\ pc[t] = "running"
    /\ Swept
    /\ overlapped' = ~Free
    /\ pc' = [u \in THREADS |-> CASE u = t -> "reset unlocked"
                                 [] pc[u] = "unlink" -> "unlink late"
                                 [] OTHER -> pc[u]]

\* The resets of a collection without the lock take it for each request.
Resets(t) ==
    /\ pc[t] \in {"reset", "reset unlocked"}
    /\ owner \in {t, NULL}
    /\ cursor.index <= array_size

NextReset ==
    IF cursor.next = "block" THEN [cursor EXCEPT !.next = "overflow"]
    ELSE [index |-> cursor.index + 1, next |-> "block"]

\* Array_each and LocalAllocator_reset, whose requests find a collection
\* running.
Reset(t) ==
    /\ Resets(t)
    /\ ListFor(cursor.next) # <<>>
    /\ allocator' = [allocator EXCEPT ![buffer[cursor.index]][cursor.next] =
                       Head(ListFor(cursor.next))]
    /\ Unlink(cursor.next)
    /\ owner' = IF pc[t] = "reset" THEN t ELSE NULL
    /\ cursor' = NextReset
    /\ UNCHANGED <<collecting, array, calls, history>>

GrowForReset(t) ==
    /\ Resets(t)
    /\ ListFor(cursor.next) = <<>>
    /\ GrowSmall \/ Abort
    /\ owner' = t
    /\ UNCHANGED <<collecting, array, cursor, allocator, request, found, history>>

EndCollection(t) ==
    /\ pc[t] \in {"reset", "reset unlocked"}
    /\ cursor.index > array_size
    /\ collecting' = FALSE
    /\ cursor' = [index |-> 1, next |-> "block"]
    /\ Goto(t, IF pc[t] = "reset" THEN "find again" ELSE "running")
    /\ UNCHANGED <<owner, lists, array, allocator, request, found, history>>
-----------------------------------------------------------------------------
Call(t) ==
    \/ Lock(t) \/ Register(t) \/ Shift(t) \/ Return(t)
    \/ ReturnLate(t) \/ Grow(t) \/ Assign(t)
    \/ Collect(t) \/ Reset(t) \/ GrowForReset(t) \/ EndCollection(t)

Next == \E t \in THREADS :
    \/ Start(t)
    \/ \E which \in Kinds : Exhaust(t, which)
    \/ Call(t) \/ CollectUnlocked(t) \/ Unregister(t)

Spec == Init /\ [][Next]_vars

\* A call goes on, and none waits for the lock for ever while others get it.
FairSpec == Spec /\ \A t \in THREADS : SF_vars(Call(t))
-----------------------------------------------------------------------------
\* Every variable has its type.
TypeOK ==
    /\ owner \in THREADS \cup {NULL}
    /\ heap_size \in Blocks
    /\ free_list \in Seq(1 .. heap_size)
    /\ recyclable_list \in Seq(1 .. heap_size)
    /\ collecting \in BOOLEAN
    /\ buffer \in Seq(THREADS \cup {GARBAGE})
    /\ array_size \in 0 .. Len(buffer)
    /\ cursor \in [index : Nat \ {0}, next : Kinds]
    /\ allocator \in [THREADS -> [Kinds -> Blocks \cup {NULL}]]
    /\ pc \in [THREADS -> {"unborn", "lock", "find", "find again", "unlink",
                           "unlink late", "assign", "register", "running",
                           "reset", "reset unlocked", "dead", "aborted"}]
    /\ request \in [THREADS -> Kinds]
    /\ found \in [THREADS -> Blocks \cup {NULL}]
    /\ stale \subseteq THREADS /\ overlapped \in BOOLEAN

\* The array holds the allocators of the threads that have started and not
\* ended, each once, so that a collection resets all of them and none that was
\* freed: what Array_delete reads behind the buffer, and what Array_resize
\* left unwritten, is never among them.
RegisteredExact ==
    /\ \A i, j \in 1 .. array_size : buffer[i] = buffer[j] => i = j
    /\ GARBAGE \notin Registered
    /\ \A t \in THREADS :
          /\ pc[t] \in {"unborn", "dead", "register"} => t \notin Registered
          /\ pc[t] \in {"running", "reset unlocked"} => t \in Registered

\* The allocators that the collection at hand has still to reset.
Pending(t) ==
    collecting /\ \E i \in cursor.index .. array_size : buffer[i] = t

Held(t) == Range(allocator[t]) \ {NULL}

Listed == Range(free_list) \cup Range(recyclable_list)

\* A block is listed once, no two allocators share one, and none has one that
\* is listed, while the other threads request blocks, collect with or without
\* the lock, start and end -- but, until the next collection, for a thread that
\* a collection came upon between a block request and its assignment, or before
\* it was registered, and for all of them after a collection without the lock
\* that overlapped a critical section of another thread: a block request, or a
\* change of the array under the resets.
OwnersDistinct ==
    ~overlapped =>
        /\ IsInjective(free_list) /\ IsInjective(recyclable_list)
        /\ Range(free_list) \cap Range(recyclable_list) = {}
        /\ \A t \in THREADS \ stale : ~Pending(t) =>
              /\ allocator[t]["block"] = allocator[t]["overflow"] => Held(t) = {}
              /\ Held(t) \cap Listed = {}
              /\ \A u \in THREADS \ (stale \cup {t}) :
                    ~Pending(u) => Held(t) \cap Held(u) = {}

\* Every request for a block is answered, or memory is out.
RequestsComplete ==
    \A t \in THREADS : pc[t] = "lock" ~> pc[t] \in {"running", "aborted"}
=============================================================================
