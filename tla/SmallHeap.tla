----------------------------- MODULE SmallHeap -----------------------------
(***************************************************************************)
(* The small object space with one local allocator, the configuration a    *)
(* Crystal program runs in: bump allocation into the holes of a block, the *)
(* overflow block for medium objects, the global lists of free and         *)
(* recyclable blocks, heap growth, and the collection that a block request *)
(* may start, which unmarks, marks and sweeps the blocks and then resets   *)
(* the very allocator that is waiting for a block.                         *)
(*                                                                         *)
(* Memory is modelled word by word, but only the words the collector       *)
(* trusts are kept: the size in an object's header, the zero that ends the *)
(* objects of a line, and the hole record at the start of a hole.  All     *)
(* other words are DATA, which the mutator writes as it likes.             *)
(***************************************************************************)
EXTENDS Holes, Sequences, FiniteSets, SequencesExt, FiniteSetsExt

CONSTANTS
    OBJECT,             \* words in an object's header, sizeof(Object)
    SIZES,              \* sizes the program asks for, header included
    INITIAL_BLOCKS,     \* blocks of the small heap after GC_init
    MAX_BLOCKS,         \* blocks that fit in the memory limit
    LARGE_HEAP_SIZE,    \* words in the large object space (constant here)
    GROWTH_RATE,        \* per cent by which the small heap grows
    FREE_SPACE_DIVISOR, \* a collection is due after 1/Nth of the heap
    MAX_KEPT,           \* bound: objects the program still uses at a collection
    STALE_MARKS,        \* what the marked byte of a new object may hold
    UNINIT_NEXT,        \* what malloc may leave in the allocator's `next'
    SPURIOUS            \* words on the stack that look like heap pointers

ASSUME SmallHeapAssumption ==
    /\ OBJECT \in Nat \ {0}
    /\ SIZES \subseteq OBJECT + 1 .. LINE_COUNT * LINE_SIZE
    /\ INITIAL_BLOCKS \in Nat /\ INITIAL_BLOCKS >= 2
    /\ MAX_BLOCKS \in Nat /\ INITIAL_BLOCKS <= MAX_BLOCKS
    /\ LARGE_HEAP_SIZE \in Nat
    /\ GROWTH_RATE \in Nat \ {0}
    /\ FREE_SPACE_DIVISOR \in Nat \ {0}
    /\ MAX_KEPT \in Nat
    /\ STALE_MARKS \subseteq BOOLEAN /\ STALE_MARKS # {}
    /\ UNINIT_NEXT \subseteq 0 .. MAX_BLOCKS * BLOCK_SIZE - 1 \cup {NULL}
    /\ SPURIOUS \subseteq Nat
    /\ NULL \notin [limit : Nat, next : Nat \cup {NULL}]

VARIABLES
    heap_stop,      \* small_heap_stop; small_heap_start is address 0
    block_header,   \* the metadata of each block but its line headers
    line_header,    \* the line headers of each block
    free_list, recyclable_list,
    memory,         \* the header words the collector reads
    hole,           \* the hole records the allocator reads
    marked,         \* addresses of the objects whose marked byte is 1
    local,          \* the LocalAllocator
    allocated,      \* allocated_bytes_since_collect
    collecting,     \* Collector.is_collecting
    pc,             \* the step the running call has reached
    request,        \* the rounded size being allocated
    caller,         \* where to continue once the collection is done
    sweeping,       \* the block recycleBlocks has reached
    live,           \* the objects the program can still reach
    status          \* "running", or how the program stopped

heap == <<heap_stop, block_header, line_header, free_list, recyclable_list>>
contents == <<memory, hole, marked, live>>
control == <<pc, request, caller, sweeping, collecting>>
vars == <<heap, contents, control, local, allocated, status>>
-----------------------------------------------------------------------------
DATA == -1

Blocks == {i * BLOCK_SIZE : i \in 0 .. MAX_BLOCKS - 1}
Address == 0 .. MAX_BLOCKS * BLOCK_SIZE - 1
MappedBlocks == {b \in Blocks : b < heap_stop}

MEMORY_LIMIT == LARGE_HEAP_SIZE + MAX_BLOCKS * BLOCK_SIZE

EMPTY_LINE == [marked |-> FALSE, offset |-> NULL]
NEW_BLOCK == [marked |-> FALSE, flag |-> "free", first_free_line |-> 0]

containsObject(h) == h.offset # NULL

Cells(o) == o.at .. o.at + o.size - 1

\* The headers reached by walking the objects of a line from its first one,
\* until a size of zero or the end of the line.
Walk(b, l) ==
    LET stop == Block_line(b, l) + LINE_SIZE
        walk[a \in Nat] == IF a >= stop \/ memory[a] = 0 THEN {}
                           ELSE {a} \cup IF memory[a] = DATA THEN {}
                                         ELSE walk[a + memory[a]]
    IN IF containsObject(line_header[b][l])
       THEN walk[Block_line(b, l) + line_header[b][l].offset]
       ELSE {}

Object_contains(a, pointer) == a + OBJECT <= pointer /\ pointer < a + memory[a]

\* Without the test whether the line's first object is after the pointer.
MutantFoundObject(pointer) ==
    LET b     == Block_from(pointer)
        lines == {l \in 0 .. Block_lineIndex(b, pointer) :
                    containsObject(line_header[b][l])}
        found == {a \in Walk(b, Max(lines)) : Object_contains(a, pointer)}
    IN IF lines = {} \/ found = {} THEN NULL ELSE CHOOSE a \in found : TRUE

\* The object a pointer into the small heap stands for, if any.
FoundObject(pointer) ==
    LET b     == Block_from(pointer)
        index == Block_lineIndex(b, pointer)
        h     == line_header[b][index]
        last  == IF containsObject(h)
                    /\ pointer < Block_line(b, index) + h.offset
                 THEN index - 1 ELSE index
        lines == {l \in 0 .. last : containsObject(line_header[b][l])}
        found == {a \in Walk(b, Max(lines)) : Object_contains(a, pointer)}
    IN IF index = INVALID_LINE_INDEX THEN NULL
       ELSE IF lines = {} THEN NULL
       ELSE IF found = {} THEN NULL
       ELSE CHOOSE a \in found : TRUE
-----------------------------------------------------------------------------
\* GC_init has pushed the blocks on the free list, and initialised the local
\* allocator with the first two.
Init ==
    /\ heap_stop = INITIAL_BLOCKS * BLOCK_SIZE
    /\ block_header = [b \in Blocks |-> NEW_BLOCK]
    /\ line_header = [b \in Blocks |-> [l \in Line |-> EMPTY_LINE]]
    /\ free_list = [i \in 1 .. INITIAL_BLOCKS - 2 |-> (i + 1) * BLOCK_SIZE]
    /\ recyclable_list = <<>>
    /\ memory = [a \in Address |-> 0]
    /\ hole = [a \in Address |-> NULL]
    /\ marked = {}
    /\ \E next \in UNINIT_NEXT :
          local = [block |-> 0, cursor |-> Block_start(0),
                   limit |-> Block_stop(0), next |-> next,
                   overflow_block |-> BLOCK_SIZE,
                   overflow_cursor |-> Block_start(BLOCK_SIZE),
                   overflow_limit |-> Block_stop(BLOCK_SIZE)]
    /\ allocated = 0
    /\ collecting = FALSE
    /\ pc = "idle"
    /\ request = NULL
    /\ caller = NULL
    /\ sweeping = NULL
    /\ live = {}
    /\ status = "running"

Running(step) == status = "running" /\ pc = step

Goto(step) == pc' = step /\ UNCHANGED <<request, caller, sweeping, collecting>>

Stop(why) ==
    /\ status' = why
    /\ UNCHANGED <<heap, contents, control, local, allocated>>
-----------------------------------------------------------------------------
(* GC_malloc of a small size *)

Malloc(size) ==
    /\ Running("idle")
    /\ pc' = "small"
    /\ request' = size
    /\ UNCHANGED <<heap, contents, caller, sweeping, collecting, local,
                   allocated, status>>

\* Line_update: only the first object of a line is recorded in its header.
Line_update(b, a) ==
    LET l == Block_lineIndex(b, a)
    IN IF containsObject(line_header[b][l])
       THEN UNCHANGED line_header
       ELSE line_header' =
              [line_header EXCEPT ![b][l] =
                 [marked |-> FALSE, offset |-> a - Block_line(b, l)]]

\* No zero is ever written.
MutantHasNext(stop, limit) == FALSE

HasNext(stop, limit) == stop < limit

\* The object's header is written at `a', and a zero after it unless that
\* crosses the limit.  Object_allocate leaves the marked byte as it was.
PlaceObject(b, a, limit) ==
    LET o == [at |-> a, size |-> request]
        stop == a + request
    IN /\ Line_update(b, a)
       /\ memory' = [c \in Address |->
                       IF c = a THEN request
                       ELSE IF c \in Cells(o) THEN DATA
                       ELSE IF c = stop /\ HasNext(stop, limit) THEN 0
                       ELSE memory[c]]
       /\ hole' = [c \in Address |->
                     IF c \in Cells(o) \/ (c = stop /\ HasNext(stop, limit))
                     THEN NULL ELSE hole[c]]
       /\ \E stale \in STALE_MARKS :
             marked' = (marked \ Cells(o)) \cup (IF stale THEN {a} ELSE {})
       /\ live' = live \cup {o}
       /\ allocated' = allocated + request - OBJECT
       /\ pc' = "idle"
       /\ request' = NULL
       /\ UNCHANGED <<heap_stop, block_header, free_list, recyclable_list,
                      caller, sweeping, collecting, status>>

FitsHole == local.cursor + request <= local.limit

\* A medium object does not fit, but the hole has a free line or more.
GoesToOverflow ==
    /\ ~FitsHole
    /\ request > LINE_SIZE
    /\ local.limit - local.cursor > LINE_SIZE

BumpAllocate ==
    /\ Running("small")
    /\ FitsHole
    /\ IF Block_contains(local.block, local.cursor)
       THEN /\ PlaceObject(local.block, local.cursor, local.limit)
            /\ local' = [local EXCEPT !.cursor = @ + request]
       ELSE Stop("assertion failed")

ChooseOverflow ==
    /\ Running("small")
    /\ GoesToOverflow
    /\ Goto("overflow")
    /\ UNCHANGED <<heap, contents, local, allocated, status>>

\* Following `next' reads the record in the hole it points to; a record that
\* was overwritten since could be anything.
FindNextHole ==
    /\ Running("small")
    /\ ~FitsHole /\ ~GoesToOverflow
    /\ local.next # NULL
    /\ IF hole[local.next] = NULL
       THEN Stop("dangling hole")
       ELSE /\ local' = [local EXCEPT !.cursor = local.next,
                                      !.limit = hole[local.next].limit,
                                      !.next = hole[local.next].next]
            /\ UNCHANGED <<heap, contents, control, allocated, status>>

BlockExhausted ==
    /\ Running("small")
    /\ ~FitsHole /\ ~GoesToOverflow
    /\ local.next = NULL
    /\ Goto("nextBlock")
    /\ UNCHANGED <<heap, contents, local, allocated, status>>

OverflowAllocate ==
    /\ Running("overflow")
    /\ local.overflow_cursor + request <= local.overflow_limit
    /\ IF Block_contains(local.overflow_block, local.overflow_cursor)
       THEN /\ PlaceObject(local.overflow_block, local.overflow_cursor,
                           local.overflow_limit)
            /\ local' = [local EXCEPT !.overflow_cursor = @ + request]
       ELSE Stop("assertion failed")

OverflowExhausted ==
    /\ Running("overflow")
    /\ local.overflow_cursor + request > local.overflow_limit
    /\ Goto("nextFree")
    /\ UNCHANGED <<heap, contents, local, allocated, status>>
-----------------------------------------------------------------------------
(* LocalAllocator_initCursor and GlobalAllocator_nextBlock *)

\* A free block is bumped through from end to end.  `next' is not assigned.
InitFreeCursor(b) ==
    local' = [local EXCEPT !.block = b, !.cursor = Block_start(b),
                           !.limit = Block_stop(b)]

InitHoleCursor(b) ==
    LET first == Block_line(b, block_header[b].first_free_line)
    IN local' = [local EXCEPT !.block = b, !.cursor = first,
                              !.limit = hole[first].limit,
                              !.next = hole[first].next]

\* A reset goes on with the overflow cursor, an allocation tries again.
InitCursor(b) ==
    /\ IF block_header[b].flag = "unavailable"
       THEN status' = "aborted" /\ UNCHANGED <<local, control>>
       ELSE /\ IF block_header[b].flag = "free"
               THEN InitFreeCursor(b) ELSE InitHoleCursor(b)
            /\ Goto(IF collecting THEN "nextFree" ELSE "small")
            /\ UNCHANGED status
    /\ UNCHANGED <<heap_stop, block_header, line_header, contents, allocated>>

\* Steps 1 and 4: exhaust the recyclable list.
TakeRecyclable ==
    /\ status = "running" /\ pc \in {"nextBlock", "retryBlock"}
    /\ recyclable_list # <<>>
    /\ InitCursor(Head(recyclable_list))
    /\ recyclable_list' = Tail(recyclable_list)
    /\ UNCHANGED free_list

\* Steps 2 and 6: exhaust the free list.
TakeFree ==
    /\ status = "running"
    /\ \/ pc = "nextBlock" /\ recyclable_list = <<>>
       \/ pc = "growBlock"
    /\ free_list # <<>>
    /\ InitCursor(Head(free_list))
    /\ free_list' = Tail(free_list)
    /\ UNCHANGED recyclable_list

SmallHeapSize == heap_stop

CollectionDue ==
    /\ ~collecting
    /\ allocated >= (SmallHeapSize + LARGE_HEAP_SIZE) \div FREE_SPACE_DIVISOR

\* The program stopped reaching the objects it no longer uses.
StartCollection(then) ==
    /\ \E kept \in UNION {kSubset(n, live) : n \in 0 .. MAX_KEPT} :
          live' = kept
    /\ collecting' = TRUE
    /\ caller' = then
    /\ pc' = "unmark"
    /\ UNCHANGED <<heap, memory, hole, marked, request, sweeping, local,
                   allocated, status>>

\* Without the collection.
MutantNoBlock ==
    /\ Running("nextBlock")
    /\ recyclable_list = <<>> /\ free_list = <<>>
    /\ Goto("growBlock")
    /\ UNCHANGED <<heap, contents, local, allocated, status>>

\* Step 3: neither list has a block.
NoBlock ==
    /\ Running("nextBlock")
    /\ recyclable_list = <<>> /\ free_list = <<>>
    /\ IF CollectionDue
       THEN StartCollection("retryBlock")
       ELSE /\ Goto("growBlock")
            /\ UNCHANGED <<heap, contents, local, allocated, status>>

NothingRecycled ==
    /\ Running("retryBlock")
    /\ recyclable_list = <<>>
    /\ Goto("growBlock")
    /\ UNCHANGED <<heap, contents, local, allocated, status>>

\* Only the small heap is held against the limit.
MutantOverLimit(increment) == SmallHeapSize + increment > MEMORY_LIMIT

OverLimit(increment) ==
    SmallHeapSize + LARGE_HEAP_SIZE + increment > MEMORY_LIMIT

\* Step 5: the new blocks go to the free list.
GrowSmall ==
    LET increment == ROUND_TO_NEXT_MULTIPLE(
                        (SmallHeapSize * GROWTH_RATE) \div 100, BLOCK_SIZE)
    IN IF OverLimit(increment)
       THEN Stop("out of memory")
       ELSE /\ heap_stop' = heap_stop + increment
            /\ free_list' = free_list \o [i \in 1 .. increment \div BLOCK_SIZE |->
                                            heap_stop + (i - 1) * BLOCK_SIZE]
            /\ UNCHANGED <<block_header, line_header, recyclable_list,
                           contents, control, local, allocated, status>>

Grow ==
    /\ status = "running" /\ pc \in {"growBlock", "growFree"}
    /\ free_list = <<>>
    /\ GrowSmall
-----------------------------------------------------------------------------
(* LocalAllocator_initOverflowCursor and GlobalAllocator_nextFreeBlock *)

\* The last step of a reset is also the end of the collection.
TakeFreeForOverflow ==
    /\ status = "running" /\ pc \in {"nextFree", "growFree"}
    /\ free_list # <<>>
    /\ LET b == Head(free_list)
       IN local' = [local EXCEPT !.overflow_block = b,
                                 !.overflow_cursor = Block_start(b),
                                 !.overflow_limit = Block_stop(b)]
    /\ free_list' = Tail(free_list)
    /\ IF collecting
       THEN pc' = caller /\ caller' = NULL /\ collecting' = FALSE
       ELSE pc' = "overflow" /\ UNCHANGED <<caller, collecting>>
    /\ UNCHANGED <<heap_stop, block_header, line_header, recyclable_list,
                   contents, request, sweeping, allocated, status>>

NoFreeBlock ==
    /\ Running("nextFree")
    /\ free_list = <<>>
    /\ IF CollectionDue
       THEN StartCollection("growFree")
       ELSE /\ Goto("growFree")
            /\ UNCHANGED <<heap, contents, local, allocated, status>>
-----------------------------------------------------------------------------
(* GC_collect_once *)

\* GC.collect, or a collection that the large object space asks for.
Collect ==
    /\ Running("idle")
    /\ StartCollection("idle")

UnmarkedObjects == UNION {Walk(b, l) : b \in MappedBlocks, l \in Line}

Unmark ==
    /\ Running("unmark")
    /\ block_header' = [b \in Blocks |->
                          IF b \in MappedBlocks
                          THEN [block_header[b] EXCEPT !.marked = FALSE]
                          ELSE block_header[b]]
    /\ line_header' = [b \in Blocks |-> [l \in Line |->
                          [line_header[b][l] EXCEPT !.marked = FALSE]]]
    /\ marked' = marked \ UnmarkedObjects
    /\ Goto("mark")
    /\ UNCHANGED <<heap_stop, free_list, recyclable_list, memory, hole, live,
                   local, allocated, status>>

\* A medium object, too, marks the line it starts in only.
MutantMarkedLines(a) == {Block_lineIndex(Block_from(a), a)}

\* A small object marks the line it starts in, a medium one all its lines.
MarkedLines(a) ==
    LET b == Block_from(a)
    IN Block_lineIndex(b, a) ..
         IF memory[a] <= LINE_SIZE THEN Block_lineIndex(b, a)
         ELSE Block_lineIndex(b, a + memory[a] - 1)

\* An object whose marked byte is set already is not marked again.
MarkObjects(objects) ==
    LET fresh == objects \ marked
    IN /\ marked' = marked \cup fresh
       /\ block_header' =
            [b \in Blocks |->
               IF \E a \in fresh : Block_from(a) = b
               THEN [block_header[b] EXCEPT !.marked = TRUE]
               ELSE block_header[b]]
       /\ line_header' =
            [b \in Blocks |-> [l \in Line |->
               IF \E a \in fresh : Block_from(a) = b /\ l \in MarkedLines(a)
               THEN [line_header[b][l] EXCEPT !.marked = TRUE]
               ELSE line_header[b][l]]]

\* Each object in use is reached by a pointer to its start or to its last
\* word; one more word may happen to look like a pointer into the heap.
Pointers(inner, spurious) ==
    {IF inner THEN o.at + o.size - 1 ELSE o.at + OBJECT : o \in live}
      \cup spurious

\* The free list is not cleared.
MutantClearLists == recyclable_list' = <<>> /\ UNCHANGED free_list

ClearLists == free_list' = <<>> /\ recyclable_list' = <<>>

Mark ==
    /\ Running("mark")
    /\ \E inner \in BOOLEAN, spurious \in {{}} \cup {{p} : p \in SPURIOUS} :
          MarkObjects({FoundObject(p) : p \in
                         {q \in Pointers(inner, spurious) : q < heap_stop}}
                        \ {NULL})
    /\ allocated' = 0
    /\ ClearLists
    /\ sweeping' = 0
    /\ pc' = "sweep"
    /\ UNCHANGED <<heap_stop, memory, hole, live, request, caller, collecting,
                   local, status>>
-----------------------------------------------------------------------------
(* GlobalAllocator_recycleBlocks, one block at a time *)

MarkedLinesOf(b) == {l \in Line : line_header[b][l].marked}

\* The words of the unmarked lines are no longer read as headers.
Forget(b, lines) ==
    LET cells == UNION {Block_line(b, l) .. Block_line(b, l) + LINE_SIZE - 1 :
                          l \in lines}
    IN /\ memory' = [a \in Address |-> IF a \in cells THEN DATA ELSE memory[a]]
       /\ marked' = marked \ cells

FreeBlock(b) ==
    /\ block_header' = [block_header EXCEPT ![b] = NEW_BLOCK]
    /\ line_header' = [line_header EXCEPT ![b] = [l \in Line |-> EMPTY_LINE]]
    /\ free_list' = Append(free_list, b)
    /\ Forget(b, Line)
    /\ UNCHANGED <<recyclable_list, hole>>

\* Listed whether it has a hole or not.
MutantListRecyclable(b, starts) == recyclable_list' = Append(recyclable_list, b)

ListRecyclable(b, starts) ==
    IF starts = {} THEN UNCHANGED recyclable_list
    ELSE recyclable_list' = Append(recyclable_list, b)

\* The loop over the lines is the subject of module RecycleLoop.
RecycleBlock(b) ==
    LET marks    == MarkedLinesOf(b)
        unmarked == Line \ marks
        starts   == HoleStarts(marks)
        after(l) == HoleNext(marks, l)
    IN /\ line_header' = [line_header EXCEPT ![b] =
                            [l \in Line |-> IF l \in unmarked THEN EMPTY_LINE
                                            ELSE line_header[b][l]]]
       /\ hole' = [a \in Address |->
                     IF \E l \in starts : a = Block_line(b, l)
                     THEN LET l == Block_lineIndex(b, a)
                          IN [limit |-> Block_line(b, HoleLimit(marks, l)),
                              next  |-> IF after(l) = NULL THEN NULL
                                        ELSE Block_line(b, after(l))]
                     ELSE hole[a]]
       /\ Forget(b, unmarked)
       /\ block_header' =
            IF starts = {}
            THEN [block_header EXCEPT ![b].flag = "unavailable"]
            ELSE [block_header EXCEPT ![b].flag = "recyclable",
                                      ![b].first_free_line = Least(starts)]
       /\ ListRecyclable(b, starts)
       /\ UNCHANGED free_list

\* After the last block, GC_collect_once resets the local allocator.
Sweep ==
    /\ Running("sweep")
    /\ IF block_header[sweeping].marked
       THEN RecycleBlock(sweeping) ELSE FreeBlock(sweeping)
    /\ IF sweeping + BLOCK_SIZE < heap_stop
       THEN sweeping' = sweeping + BLOCK_SIZE /\ pc' = "sweep"
       ELSE sweeping' = NULL /\ pc' = "nextBlock"
    /\ UNCHANGED <<heap_stop, live, request, caller, collecting, local,
                   allocated, status>>
-----------------------------------------------------------------------------
Step ==
    \/ BumpAllocate \/ ChooseOverflow \/ FindNextHole \/ BlockExhausted
    \/ OverflowAllocate \/ OverflowExhausted
    \/ TakeRecyclable \/ TakeFree \/ NoBlock \/ NothingRecycled \/ Grow
    \/ TakeFreeForOverflow \/ NoFreeBlock
    \/ Unmark \/ Mark \/ Sweep

Next == Step \/ Collect \/ \E size \in SIZES : Malloc(size)

Spec == Init /\ [][Next]_vars

\* A call that has started runs to its end.
FairSpec == Spec /\ WF_vars(Step)
-----------------------------------------------------------------------------
(* Type correctness *)

Size == 0 .. LINE_COUNT * LINE_SIZE
HoleRecord == [limit : Nat, next : Address \cup {NULL}]

TypeOK ==
    /\ heap_stop \in {i * BLOCK_SIZE : i \in 2 .. MAX_BLOCKS}
    /\ block_header \in [Blocks -> [marked : BOOLEAN,
                                    flag : {"free", "recyclable", "unavailable"},
                                    first_free_line : Line]]
    /\ line_header \in [Blocks -> [Line -> [marked : BOOLEAN,
                                  offset : 0 .. LINE_SIZE - 1 \cup {NULL}]]]
    /\ free_list \in Seq(Blocks) /\ recyclable_list \in Seq(Blocks)
    /\ memory \in [Address -> Size \cup {DATA}]
    /\ \A a \in Address : hole[a] \in HoleRecord \cup {NULL}
    /\ marked \subseteq Address
    /\ local.block \in Blocks /\ local.overflow_block \in Blocks
    /\ {local.cursor, local.limit, local.overflow_cursor,
        local.overflow_limit} \subseteq Nat
    /\ local.next \in Address \cup {NULL}
    /\ allocated \in Nat
    /\ collecting \in BOOLEAN
    /\ pc \in {"idle", "small", "overflow", "nextBlock", "retryBlock",
              "growBlock", "nextFree", "growFree", "unmark", "mark", "sweep"}
    /\ request \in SIZES \cup {NULL}
    /\ caller \in {"idle", "retryBlock", "growFree", NULL}
    /\ sweeping \in Blocks \cup {NULL}
    /\ \A o \in live : o.at \in Address /\ o.size \in SIZES
    /\ status \in {"running", "assertion failed", "dangling hole", "aborted",
                  "out of memory"}
-----------------------------------------------------------------------------
(* Safety *)

\* Collector_findAndMarkSmallObject resolves every pointer into an object the
\* program uses, inner pointers included, to that object and to no other, and
\* the object's header still has its size: neither the other allocations, nor
\* a sweep that clears the header of a line it spans, nor a hole record
\* written over it, gets in the way.
LiveObjectsFound ==
    \A o \in live :
        /\ memory[o.at] = o.size
        /\ \A p \in o.at + OBJECT .. o.at + o.size - 1 : FoundObject(p) = o.at

LiveCells == UNION {Cells(o) : o \in live}

BumpRegion == local.cursor .. local.limit - 1
OverflowRegion == local.overflow_cursor .. local.overflow_limit - 1

\* The words of a hole, and the holes that follow it.
HoleRegion(a) == a .. hole[a].limit - 1

Chain(a) ==
    LET chain[c \in Address] ==
          {c} \cup IF hole[c] = NULL \/ hole[c].next = NULL THEN {}
                   ELSE chain[hole[c].next]
    IN chain[a]

RecyclableHoles(b) == Chain(Block_line(b, block_header[b].first_free_line))

\* `next' leads on in the recyclable block being allocated into; initCursor
\* leaves it as it was when it takes a free block.
NextIsOwn == \/ local.next = NULL
             \/ /\ block_header[local.block].flag = "recyclable"
                /\ Block_from(local.next) = local.block

\* What the allocator may hand out holds no object in use: the rest of the
\* current hole, of the overflow block, of the holes still ahead in the
\* current block, the holes of the listed recyclable blocks and the listed
\* free blocks.  In particular the line skipped before a hole is enough for a
\* small object that spans two lines although only its first is marked.
FreeSpaceUnreferenced ==
    /\ ~collecting =>
          /\ Block_contains(local.block, local.cursor) =>
                BumpRegion \cap LiveCells = {}
          /\ OverflowRegion \cap LiveCells = {}
          /\ local.next # NULL /\ NextIsOwn =>
                \A a \in Chain(local.next) :
                   hole[a] # NULL /\ HoleRegion(a) \cap LiveCells = {}
    /\ \A i \in DOMAIN free_list :
          (Block_start(free_list[i]) .. Block_stop(free_list[i]) - 1)
             \cap LiveCells = {}
    /\ \A i \in DOMAIN recyclable_list :
          \A a \in RecyclableHoles(recyclable_list[i]) :
             hole[a] # NULL /\ HoleRegion(a) \cap LiveCells = {}

Listed == Range(free_list) \cup Range(recyclable_list)

\* A block is in one list at most, once, and has the flag initCursor expects of
\* it, through sweeps, growth and the resets that take blocks from the lists a
\* sweep has just rebuilt.  While no collection runs, the allocator bumps through
\* two blocks, and neither is in a list.
BlockOwnership ==
    /\ IsInjective(free_list) /\ IsInjective(recyclable_list)
    /\ Range(free_list) \cap Range(recyclable_list) = {}
    /\ Listed \subseteq MappedBlocks
    /\ \A b \in Range(free_list) : block_header[b].flag = "free"
    /\ \A b \in Range(recyclable_list) : block_header[b].flag = "recyclable"
    /\ ~collecting => /\ local.block # local.overflow_block
                      /\ {local.block, local.overflow_block} \cap Listed = {}

\* Walking the objects of a line, which unmarking, the stats and the search
\* for a pointer do, reads nothing but headers the allocator wrote, and ends:
\* every allocation leaves a zero after it, or fills its hole to the limit.
HeadersWalkable ==
    \A b \in MappedBlocks, l \in Line : \A a \in Walk(b, l) : memory[a] # DATA

\* What the sweep decides from is right: the line an object in use starts in,
\* and for a medium object each of its lines, is marked, and so is its block --
\* also when the object was allocated where a marked byte was left set, which
\* unmarking must have cleared for marking to go on to the line.
SweepKeepsLive ==
    pc = "sweep" =>
        \A o \in live :
            LET b == Block_from(o.at)
            IN b >= sweeping =>
                /\ block_header[b].marked
                /\ \A l \in MarkedLines(o.at) : line_header[b][l].marked

\* initCursor never gets a block it cannot use.
BlocksUsable == status # "aborted"

\* include/block.h:133, in Line_update: the object is in the block the
\* allocator takes it from.
LineUpdateAssertion == status # "assertion failed"
-----------------------------------------------------------------------------
(* Action and liveness properties *)

\* The heap grows only when no free block is left, and never while a
\* collection is due: nextBlock and nextFreeBlock try to collect first.
GrowsLast ==
    [][heap_stop' # heap_stop => free_list = <<>> /\ ~CollectionDue]_vars

\* Every request and every collection ends, with the caller's object or with
\* the program out of memory: allocating neither retries for ever nor leaves
\* the collection it started.
CallsComplete == pc # "idle" ~> pc = "idle" \/ status # "running"
=============================================================================
