# A verification of the Immix garbage collector

The repository is a garbage collector for Crystal, written in C (`src/`,
`include/`) with a Crystal binding (`src/immix.cr`).  This directory holds
TLA+ models of it, configurations that check them with TLC, and proofs that
TLAPS checks.  Paths below are relative to the repository.

## The system

| part | state | operations |
|---|---|---|
| block geometry (`block.h`, `line_header.h`, `constants.h`) | a block's mark, flag and first free line; a line's mark and the offset of its first object | address arithmetic, `Line_update` |
| local allocator (`local_allocator.c`), one per thread | `block`, `cursor`, `limit`, `next`; `overflow_block`, `overflow_cursor`, `overflow_limit` | `allocateSmall`, `reset` |
| global allocator, small objects (`global_allocator.c`, `block_list.h`) | the heap's bounds, `free_list`, `recyclable_list`, counters | `nextBlock`, `nextFreeBlock`, `growSmall`, `tryCollect`, `recycleBlocks` |
| global allocator, large objects (`global_allocator.c`, `chunk_list.h`) | a linked list of chunks that tiles the heap | `allocateLarge`, `deallocateLarge`, `growLarge`, `ChunkList_split/merge/sweep` |
| collector (`collector.c`, `stack.h`) | a stack of memory regions to scan, `is_collecting` | unmark, mark, sweep |
| finalizers (`hash.c`, `global_allocator.h`) | an open-addressing table from object to callback | register, delete, finalize unreachable objects |
| entry points and threads (`immix.c`, `array.h`) | the allocators of all threads, a recursive mutex | `GC_malloc`, `GC_realloc`, `GC_free`, `GC_collect_once`, thread start and end |
| Crystal binding (`immix.cr`) | a lock flag, the pending fiber, the collector fiber | `GC.collect`, `collector_loop` |

**How they interact.**  `GC_malloc` bumps the local allocator's cursor; when
its hole and its block are exhausted it asks the global allocator for a block,
under the lock.  If no block is left and enough was allocated since the last
collection, the block request calls `GC_collect`, which the *program* defines
and which ends up in `GC_collect_once`: unmark, mark, finalize, sweep, and then
*reset every local allocator*, including the one whose request is waiting.  A
reset asks for blocks in turn (and cannot start a second collection, as
`is_collecting` is set).  Then the original request goes on.  Large allocations
follow the same pattern over the chunk list.

**What is hard.**  This re-entrance; sweeping blocks that an allocator still
bumps through; conservative pointers, inner pointers and the one line that is
skipped because small objects mark only the line they start in; header words
that are read from memory which held data, other headers or hole records
before; iterating over a chunk list while merging it; tombstones; finalizers
that run in the middle of a collection; threads that are not stopped; fibers
that hand over to one another.

`PROJECT.json` lists, under `hazards`, each of these at its line of code, with
the properties that would be violated.

## Modules

* `Blocks` - geometry of the small heap: addresses in words, blocks named by
  their address, lines by their index.
* `Holes` (extends `Blocks`) - which lines of a recycled block are holes, where
  each ends and which is next, as functions of the set of marked lines.
* `RecycleLoop` (extends `Holes`) - the literal loop of `recycleBlocks` over
  the lines of one block, which must compute what `Holes` defines.
* `SmallHeap` (extends `Holes`) - the small object space with one local
  allocator, the collection included.  It uses the definitions of `Holes` for
  what a sweep leaves in a block.
* `LargeSpace` - the large object space, the collection included.
* `Collection` - a collection over the object graph, in both spaces at once:
  the program's calls before it, marking with the stack of regions, finalizers,
  sweep.
* `FinalizerTable` - abstract: finalizers as a map.  `Hash` - the hash table,
  shown to implement it.
* `Threads` - several threads with an allocator each, the lock, the block lists
  and the array of local allocators.
* `CrystalCollect` - the fibers of the Crystal binding that ask for
  collections, and the one that runs them.
* `MCSmallHeap`, `MCLargeSpace`, `MCHash`, `MCCollection`, `MCThreads` -
  definitions for TLC only.
* `SmallHeap_proofs`, `SmallHeapContents_proofs`, `RecycleLoop_proofs`, `LargeSpace_proofs`,
  `Collection_proofs`, `Hash_proofs`, `Threads_proofs`, `CrystalCollect_proofs` -
  theorems and their proofs.

The modules divide the system by question.  `SmallHeap` and `LargeSpace` know
where objects lie, but not which refer to which; `Collection` knows who refers
to whom, but not where; `Threads` knows who owns a block, but not what is in
it; `CrystalCollect` knows when a collection runs, but not what it does.  What
one leaves open is a nondeterministic choice in it, and a property of another:
the sweep of `Threads` finds any blocks free, that of `SmallHeap` the right
ones; the objects that `SmallHeap` keeps are any subset of those in use, those
that `Collection` keeps the reachable ones.

### SmallHeap and the code

| code | model |
|---|---|
| `small_heap_stop`, `Block` metadata, line headers, `BlockList`s | `heap_stop`, `block_header`, `line_header`, `free_list`, `recyclable_list` (sequences) |
| words of the heap | `memory`: a size where an object has its header, 0 where the allocator wrote the terminating zero, `DATA` for whatever the program may overwrite; `hole`: the `Hole` records; `marked`: the headers whose marked byte is 1 |
| `LocalAllocator` | `local` |
| the call that is running, and the collection nested in it | `pc`, `request`, `caller` (where to continue after the collection), `collecting`, `sweeping` |
| what the program uses | `live` (ghost): chosen anew at each collection as a subset of what it used before |

A call is cut into steps where the code loops, branches or calls: `Malloc`,
`BumpAllocate` / `ChooseOverflow` / `FindNextHole` / `BlockExhausted`
(`tryAllocateSmall`), `OverflowAllocate` / `OverflowExhausted`,
`TakeRecyclable` / `TakeFree` / `NoBlock` / `NothingRecycled` / `Grow`
(`nextBlock`), `TakeFreeForOverflow` / `NoFreeBlock` / `Grow`
(`nextFreeBlock`), `Unmark`, `Mark`, and `Sweep` for one block at a time.
Marking finds each object in use through an inner pointer by
`findAndMarkSmallObject`'s own search, modelled as `FoundObject`; which objects
those are is the subject of `Collection`.

A step that fails an assertion, follows a pointer to a hole record that was
overwritten, or aborts, sets `status` and stops the model.  This is why the
configurations switch the deadlock check off.

### LargeSpace and the code

A chunk is named by its address; `chunk` maps the addresses of the chunks to
their headers, and `first`, `last`, `next` are the linked list.
`TryAllocate` takes the first chunk that fits; `SplitAndAllocate` is
`ChunkList_split`, `ChunkList_insert` and `Chunk_allocate`; `SweepKeep`,
`SweepFree`, `Absorb`, `AbsorbDone`, `SweepDone` are the loop of
`ChunkList_sweep`, one iteration a step.  Between `Mark` and the sweep the
finalizers run (`pc = "finalize"`): they may allocate (`Malloc`, which may grow
the heap, while `outer` keeps the request that started the collection) and free
any allocated chunk (`FinalizerFrees`), `EndFinalize` ends them.  A chunk freed there keeps its mark
(`global_allocator.c:287` clears `allocated` only), so the sweep passes over it:
it is lost until the next collection clears the mark.  `freed` remembers these
chunks and `SweepIsComplete` exempts them, and nothing else.  Conversions to `int` (`Chunk_size`)
and arithmetic on `size_t` (`ChunkList_merge`) keep their width, as the
constants `INT_MAX` and `SIZE_MODULUS`.  `POWERS` are the powers of two a
`size_t` holds; the double-precision `log2` is taken to be exact.

### Collection and the code

| code | model |
|---|---|
| object headers, allocated chunks, `atomic` and `marked` bytes | `allocated`, `atomic`, `marked` |
| keys of the hash of finalizers | `finalizers` |
| words of the roots and of the objects | `memory`, chosen when a collection begins, as the program may write anything before |
| `Stack` of the collector, the region that is scanned | `stack`, `region`, `sp` |
| `Hash_deleteIf` over the finalizers, the callback that runs | `todo`, `finalizing` |
| the calls of `GC_free` that wait for the object's finalizer | `freeing` |
| what the program uses, what it promised to keep free of pointers, what was finalized | `held`, `pointerFree`, `finalized` (history) |

`Malloc`, `Realloc`, `Free`, `RegisterFinalizer` are the functions of
`immix.c`.  `Free` of a large object with a finalizer ends when that is called,
and `FreeReturns` frees the object; in between, what the finalizer does are
calls of the program, collections included.  `FinalizerAllocates` and
`FinalizerFrees` are the calls of a finalizer in the middle of a collection; it
may free a marked object.  `BeginCollection` is the start of `Collector_collect` up to the
roots on the stack (unmarking, which `SmallHeap` and `LargeSpace` refine, in
one step); `PopRegion` and `ScanWord` the loop of `Collector_mark`, one word a
step; `CallFinalizer` and `FinalizerReturns` enclose a callback; `Sweep` keeps
what is marked, and any unmarked small objects, as lines are kept whole.  The
abstract specification is `Reachable`: the least set that holds what the roots
refer to and is closed under the words of objects that are not atomic.

### Hash and the code

`entries`, `mask`, `used` and `deleted` are the fields of `Hash`; the hash
function is a constant, so that TLC can make keys collide.  `Hash_insert` has
an action for each case of its switch.  `deleteIf` is a sequence of `Callback`
steps, each for the next entry whose object is unreachable, and `Finish`.
`CAPACITIES` are the sizes a table can be given: powers of two, as `resize`
doubles `MINSIZE`, and no larger than `calloc` can serve.  An insertion that
needs a larger one (`Allocatable`) is not in the model, because the program
aborts.  `BindingsOf` is the refinement mapping: the map that a table stands
for.

### Threads and the code

`owner` is `GC_mutex` (recursive: the block requests of a reset find it held by
their own thread); `buffer` and `array_size` are the `Array`, `cursor` the
position of `Array_each`; `allocator` has the two blocks of each thread, `found`
the block that a request has returned, which is in no field yet.  `Start` and
`Register` are `GC_init_thread`, with the two requests of
`LocalAllocator_init` between them; `Unregister` is `GC_deinit_thread`;
`Exhaust` an allocation that needs a block; `Lock`, `Shift`, `Return`, `Grow`,
`Collect`, `Assign` the steps of `nextBlock` and `nextFreeBlock` and of the
assignment after them; `Reset`, `GrowForReset`, `EndCollection` the resets of
`GC_collect_once`.  `BlockList_shift` is two steps, `Shift` and `Return`.
`CollectUnlocked` is a collection that the program asks for (`immix.cr:38`),
which calls `GC_collect_once` without the lock: the requests of its resets take
it one by one, and it may come upon another thread that has it.  If that thread
is between the two halves of `BlockList_shift`, it sets `first` to what now
follows its block (`ReturnLate`, `Following`).  The lists come out of a sweep in
any order (`SetToSeq`), which nothing depends on.

`stale` names the threads that a collection came upon between the return of a
block request and its assignment, or before `GC_init_thread` registered them.
The block such a thread has is listed again and, until the next collection,
may get a second owner.  `OwnersDistinct` is about all others; that the
exception is needed is a property of the code, and the repository says nothing
that it would contradict, so there is no finding.  The same is true of
`overlapped`: a collection without the lock has overlapped a critical section
of another thread (one that had the mutex when it began, or a change of the
array during its resets).  A late `first = block->next` may then list
blocks again that a reset gave away, and a reset may miss an allocator, so
`OwnersDistinct` promises nothing until the next collection, which
makes up for it: it rebuilds the lists and resets every registered allocator.
Collections with the lock, and those without that overlap nothing, are not
exempt; `RegisteredExact` and `RequestsComplete` have no such exception.

### CrystalCollect and the code

`lock` and `pending` are `@@lock` and `@@pending`.  `Request`, `Refused` and
`Resumed` are the branches of `GC.collect` (`immix.cr:38`); `FirstSleep`,
`CollectOnce`, `FinalizerWaits`, `Collected`, `Crash` the steps of
`collector_loop`.  The scheduler is Crystal's, of which the binding uses
`resume`, `sleep` and `Fiber.yield`: a queue of runnable fibers, and an event
loop when that is empty (`Spawn`, `Enqueue`, `Suspend`, `Die`, `Event`).

## Runs

| run | what it shows | bounds |
|---|---|---|
| `SmallHeap` | lists, flags and cursors stay consistent through growth and nested collections; growth comes last; allocations and collections end | 3 blocks of 3 lines of 4 words, sizes 3 (small) and 7 (medium), one object survives a collection, one false pointer |
| `SmallHeapHoles` | recycling into holes never touches an object in use, every pointer into it is resolved, headers stay walkable | 2 blocks of 5 lines: a recycled block can have two holes; two survivors, three false pointers, garbage in the uninitialised `next` |
| `SmallHeapStaleNext` | **violation**: `next` survives the change to a free block (finding 1) | as `SmallHeapHoles`, one survivor |
| `RecycleLoop` | the sweep's loop computes the holes of `Holes` | all marks of 8 lines |
| `LargeSpace` | the list tiles the heap; objects keep their memory, those of finalizers too; a sweep frees and merges all it can; growth is enough; allocations and sweeps end | 28 words, sizes 2 and 5, no call once 8 words were allocated since the last collection's marking |
| `LargeSpaceIntSize` | **violation**: the size of a chunk does not fit an `int` (finding 2) | `INT_MAX` = 9 |
| `Collection` | marking reaches exactly what is reachable; finalizers run once, in time, whatever they free, and collect when `GC_free` calls them; nothing in use is swept; a collection ends | every graph over a small object of two words, a large one of one, a large one without, and a root of one word |
| `Hash` | the table implements the map | 7 keys in two colliding classes, tables of 8 and 16 |
| `HashReregister` | probes end, even with duplicates | 5 keys, one registered repeatedly, tables of 4 to 32 |
| `HashTwice` | **violation**: a key is stored twice (finding 3) | 4 keys |
| `Threads` | the array is exact; a block has one owner; requests are answered, with collections that have the lock and that do not | 2 threads, 2 to 4 blocks, a buffer that starts with room for one, sweeps that free all, keep one block with a hole, or keep three of which two have holes |
| `CrystalCollect` | no fiber is lost or resumed twice; a granted request is served by a collection of its own, and returns | 4 fibers and the collector |

**Why the bounds are enough.**  A line of 4 words holds at most one small
object and a part of the next, so a small object (3 words) does span lines, a
medium one (7) covers two or three lines, and both leave holes that are
too small.  Three lines to a block give blocks that are unavailable, blocks with one
hole and free ones; five give two holes and the chain between them.  Two blocks
are the least the allocator runs with (one for each cursor), so each further
request collects or runs out of memory, and with three blocks the heap also grows.  The large
space has room for the initial chunk and two growths, for chunks too small to
split, and for runs of chunks to merge at the start, middle and end of the
list.  `MAX_KEPT` and `MAX_ALLOCATED` bound the survivors of a
collection and the bytes allocated before the next, those of finalizers
included; they limit the number of
states, not the order of events.  Three objects make cycles, shared objects,
chains through an atomic object and objects that are only reachable from
finalized ones.  With two threads one collects, starts or ends at each step of
the other, and the buffer of capacity 1 is doubled by the second; the bounds
suffice for a late unlinking to list a block that has an owner (TLC
finds it when `~overlapped` is left out of `OwnersDistinct`); four fibers
leave one to ask while one waits, one is queued and one is refused.  The proofs
below show for seven of these modules that the bounds do not matter to the
properties that are proved.

**Fairness.**  In `SmallHeap` and `LargeSpace`, `FairSpec` has weak fairness of
the steps of a call that has started: it runs on the thread that made it and
waits for nothing; starting a call has no fairness.  That includes `EndFinalize`:
finalizers return, and `MAX_ALLOCATED` bounds what they allocate before that.  In `Collection` the steps
of the collector are weakly fair, for the same reason, and a finalizer, which
may go on allocating and freeing, returns at last (`SF_vars(FinalizerReturns)`).
In `Threads` each thread's calls are strongly fair: a thread that waits for the
mutex gets it if it is free again and again, which a fair mutex guarantees and
without which no code could be shown to make progress.  In `CrystalCollect`
scheduling is cooperative, so a fiber that never waits starves all others: the
program is assumed not to compute for ever without letting the event loop run
(`ProgramIsIdle`), every event that a fiber waits for comes, and a finalizer
waits for finitely many.

## Findings

1. `LocalAllocator_initCursor` (`src/local_allocator.c:12`) leaves `next` when
   it takes a free block.  After a collection reset the allocator from a
   recycled block to a free one, it later jumps to a hole of the old block; the
   assertion of `Line_update` (`include/block.h:133`) fails.  `FreeSpaceUnreferenced`
   therefore speaks of `next` only while it is the block's own (`NextIsOwn`),
   and the runs go on only as far as the model has not stopped.
2. `Chunk_size` (`include/chunk_list.h:40`) returns an `int`.  The proofs need
   exactly `MEMORY_LIMIT <= INT_MAX`, which is not true of the default limit,
   the machine's memory.
3. `lookupForInsert` (`src/hash.c:45`) stops at a tombstone, so a key that is
   registered again can be stored twice.  The map is implemented for programs
   that register a finalizer once per object, as the Crystal binding does.

## Proofs

Each proof module follows one plan: an inductive invariant `IInv`, a lemma for
the initial states, one for each action, and the theorems from these.

`SmallHeap_proofs`: for any geometry, heap size, growth and survivors that
satisfy the assumptions of `Blocks` and `SmallHeap`, no block is listed twice,
or listed while the allocator has it (`OwnedOnce`), no listed block is
unavailable (`UsableBlocks`), and the heap grows last (`GrowthLast`).
`BlockOwnership` is not inductive: a sweep lists every block, the allocator's
two included, in order of address (`ControlInv`: what is listed lies before
`sweeping`), and a reset replaces one block after the other, so that in between
the first is the allocator's own and the second need not be (`OwnerInv`).  That
unmapped blocks have the flag "free" (`ListsInv`) is what growth relies on.
`GrowthLast` needs `DueInv`: after a collection the counter is zero, so none is
due, provided a nonempty heap holds at least `FREE_SPACE_DIVISOR` words
(`Divisor`); else a collection would be due again at once and the heap could
grow all the same.  The lemmas `Taken` and `Appended` say what the two list
operations do to an injective sequence, `Growth` that the new blocks lie
between the old and the new end of the heap.

`SmallHeapContents_proofs`: what the blocks contain, for the same constants.
Every pointer into an object in use is resolved to it (`ObjectsFound`), nothing
that can be handed out holds a word of one (`FreeSpaceSpare`), a sweep decides
from complete marks (`SweepsKeepLive`), a walk over a line reads headers only
(`WalksReadHeaders`), and the state is well typed (`TypeCorrect`): be it only
that a walk stays within the heap, which the type of `marked` depends on.  None
of these is inductive.  The invariant `Contents`, on top of `IInv` of
`SmallHeap_proofs`, says what they have in common:

* `LinesInv`: the first object of a line is where the line's header says, each
  other one starts where one before it ends, each ends at an object, at a zero
  or beyond the line, and there is nothing inside one (`LineShape`).
* `LiveInv`: an object in use is in one block and as it was allocated.
* `FreeInv`, `RecyclableInv`, `LocalInv`, `OverflowInv`: free and unmapped
  blocks, the chain of holes of a recyclable block, and what the allocator bumps
  through are `Spare`: they contain neither a header nor a word of an object in
  use.  A bump region starts after the objects of its first line, at the zero
  they end in, and ends at the end of a line (`Region`).  A chain is a set
  closed under `next` of holes which lie one after the other (`ChainOK`).
* `HoleInv`: a hole record leads further on in its own block.
* In `LocalInv`, the allocator of a free block may be `Astray`: it has followed
  the `next` that `initCursor` left over (finding 1), its cursor is outside of
  its block, and the next allocation fails the assertion of `Line_update`.  An
  allocator that still can go astray has no hole record up to its cursor
  (`Within`), or the stale `next` could lead to its own block.
* `CallInv` and `MarkInv`: a call that waits has a request, and after unmarking
  no object in use has its marked byte set.

`PlacedContents` shows that bumping keeps all this, `CursorContents` that
entering a block does, `UnmarkContents` and `MarkContents` that marking finds
the objects in use and marks their lines, `SweptContents` that what a sweep
does to one block is enough, if it spares the objects in use, as it does in a
free block (`FreeContents`) and in a recycled one (`RecycleContents`).  The
skipped line is in `HoleSpared`: an object that has a word in a hole would have
been medium and had all its lines marked, or small and started in the line
before the hole, which would have been marked, while a hole follows a free line
(`HoleFacts`).

`Walk` and `Chain` are recursive functions, so that what they are equal to is
known only if the recursion has a solution: `StepsExist` gives it, as what all
sets closed under the step have in common.  `WalkFindsHeads` (a walk visits the
headers of the line, all of them) and `ChainFollows` (a chain stays in every
closed set) follow, by the least counterexample (`LeastNatural`, from the
theorem about well-founded relations, instead of the library's induction, which
takes an operator).

Three assumptions on constants are used here and nowhere else: the garbage in
the uninitialised `next` is an address of the heap or `NULL`, false pointers are
natural numbers, and `NULL` is no hole record.  The first restricts what the
code may do: with a garbage `next` outside of the heap, what the allocator reads
there is undefined, and the model has no memory for it.

`LargeSpace_proofs`: for all sizes, limits and requests that satisfy
`LayoutAssumption` and `PowersAssumption`, and `MEMORY_LIMIT <= INT_MAX`,
`Spec` implies `[]TypeOK`, `[]ListTilesHeap`, `[]ObjectsKept`,
`[]SweepIsComplete`, `[]GrowthSuffices` and `[]MergeGrows`.  The inductive invariant adds to these
`SweepInv` - from the marking on every object in use is in a marked chunk, through whatever
finalizers allocate and free; what they allocated is theirs only as long as they
run; while absorbing, all chunks between `current` and `limit` are unmarked and
`count` is their number - without which neither keeping objects, nor the size
and the count after a merge follow; and `GrownInv` - after growth some chunk
fits.  `SweepIsComplete` has an invariant of its own on top (`SweptInv`): the
chunks before the frontier of the sweep are free unless marked, one of two
neighbours is marked, and a marked chunk is allocated, since the last
collection's marks were cleared, unless it is in `freed`.  The interesting lemmas are `MergeStep`,
`SplitChunk` and `PushChunk`, where the tiling is broken up and put together
again, and `LimitIsHeapStop`, where the assumption about `int` is used.

`RecycleLoop_proofs`: for blocks of any number of lines and any marks, the loop
records exactly the holes, limits and links that `Holes` defines
(`RecordsHoles`), and these are exactly the free lines after a free line
(`HolesSpare`).  The invariant describes what the loop has done up to
`line_index`: a conjunct for each of its variables, plus `ScanInv`, which says
why no hole is open.  These theorems are what justifies that `SmallHeap` recycles a block in
one step.

`Collection_proofs`: for any objects, sizes and roots that satisfy
`RegionsAssumption`, marking is exact (`MarksReachable`), a region is on the
stack at most once (`OneScan`), nothing the program can reach is swept, and
nothing whose finalizer `GC_free` is calling (`NothingLost`), and finalizers run on valid memory, in time and once
(`FinalizersInTime`, `CalledOnce`).  The invariant is that of every marking
algorithm: a marked object is reachable; what a region refers to is marked once
the region was scanned, and up to `sp` while it is; the others are on the
stack.  When the stack is empty the marked set is closed, and so contains the
least closed set.  In the finalize phase (`FinalizeInv`) what is reachable stays
marked, and its small objects allocated: what finalizers free is no longer held,
and what they allocate was not there to be reached.  An object in `freeing` was
finalized, has no entry in the table, and is reachable in each collection
(`ProgramInv`), so no collection calls its finalizer again.

`Hash_proofs`: for any keys, hash and capacities that satisfy `HashAssumption`,
the state stays well typed (`TypeCorrect`) and the probes end (`LoopsEnd`),
whatever the program registers twice.  If it registers each object once
(`RegisteredOnce`; with duplicates, as in finding 3, the counters are not exact
either, since a resize counts both copies), the counters are exact (`ExactCounters`), keys are stored once
(`StoredOnce`) and found (`SearchExact`), and the table implements the map
(`Implementation`).  The argument has four parts.
First, the probe sequence of a key comes to every entry of a table whose size is
a power of two (`ProbesCover`): two of its first *c* probes at one entry would
make *c* divide half of a product of an odd and an even number smaller than
*2c* (`ProbesDiffer`), and a power of two that divides a product with an odd
factor divides the other (`OddFactor`).
Second, a table always has a free entry, so that a probe has an end: `used`
is below the capacity and bounds the entries in use from above (`Counted`).  It
is not their exact number with duplicates, since `resize` counts both copies
and then may store one over the other; the bound is all that `LoopsEnd` needs,
and is inductive without any assumption.
Third, the entry of a key lies on its probe sequence, before any free one
(`Reached`).  Storing a key, making a tombstone and reusing one keep this
(`PutKeeps`, `Buries`), and so does a resize, which builds it up entry by entry
(`MovedOne`, `Rehashed`).
Fourth, each step changes the set of stored entries as the map is changed
(`StepEffect`), of which the refinement is a consequence (`TableStep`); that the
iteration of `deleteIf` misses nobody is the last conjunct of `IInv`.
The recursion of `Rehash` and the minimum of `FirstOf` need natural induction.
The library states it with an operator for a parameter, which the provers cannot
instantiate; `LeastNatural` gets the least element of a set from the theorem
about well-founded relations, which has none, and `Induction` and `Recursion`
follow, with sets and functions in place of the operators.

`Threads_proofs`: for any number of threads and blocks and any sweeps that
satisfy `ThreadsAssumption`, the array is exact (`ArrayExact`), the lock
excludes (`MutualExclusion`), and no block has two owners (`OwnersApart`),
with the exceptions that `OwnersDistinct` names.  Ownership is not inductive as it stands: the invariant (`ClaimsInv`) extends it
to the block a thread has found and not assigned yet, and to the first block of
the allocator whose second block is being reset, and says that a *claimed*
block is mapped, listed nowhere and claimed once.  A step either keeps claims
(`ClaimsKept`) or takes one block off a list for one place (`ClaimsTaken`); a
collection drops all claims and makes them again one by one.  After a collection
that overlapped a critical section `IInv` says nothing of lists and claims, only
that they are well typed; the next collection needs no more (`SweptLists`,
`SweptClaims`), and a thread that unlinks late does so with the lock, so none is
left when a collection with the lock begins (`LockInv`).  That a thread
which neither is registered nor has a block wants its first one (`CallInv`) is
why `stale` names all threads that a collection misses.

`CrystalCollect_proofs`: for any number of fibers, a pending fiber is always
found (`PendingFound`), one request is served at a time (`OneAtATime`), no fiber
is lost or in two places (`NoFiberLost`), and a granted request returns after a
collection that began after it (`ServedByOwnCollection`).  The invariant adds
where the collector is for each of its steps, and that it is queued only before
its first sleep.

Only model-checked: all liveness (`CallsComplete` of `SmallHeap` and
`LargeSpace`, and what the fairness of the other modules gives), which is out of
the prover's reach, and the three violations, which are counterexamples.  Every
invariant and every action property of the other runs is stated by a theorem.

## Not modelled

* Parsing of options, `mmap` and the size of the machine's memory: their
  results are constants, and the free space divisor is assumed positive.
* `GC_deinit`, statistics and debug output: they change nothing that a later
  call sees.  The walk over lines that the statistics share with unmarking is
  covered by `HeadersWalkable`.
* Data races.  A thread that bumps its cursor while another resets it, a lost
  increment of the counter of allocated bytes, the table of finalizers that
  `GC_realloc` and `GC_register_finalizer` change without the lock: what these
  do is undefined in C.  `Threads` cuts calls at the lock, in the middle of
  `BlockList_shift`, and between a request and its assignment.
* Of a collection without the lock, `Threads` has the block request that
  unlinks late and the array that changes under the resets.  It has not: lists,
  flags and line headers that other threads see half rebuilt (the sweep is one
  step), a buffer that `Array_push` reallocates or an allocator that
  `GC_deinit_thread` frees while the resets read it, growth in the middle of a
  sweep.  In `SmallHeap`, `LargeSpace` and `Collection` a
  collection does not overlap with a call of another thread.
* A collection that is refused: in a corner case `GC.collect` only yields
  (`immix.cr:43-45`), and the block request goes on to grow.  `SmallHeap` and
  `LargeSpace` always collect; `GrowsLast` is about a `GC_collect` that does.
* Small objects that a finalizer allocates in the middle of a collection: a
  `SmallHeap` without them goes from marking to the sweep.  No line is marked
  for them, the sweep may take those they are in, and the bump regions they came from are reset
  afterwards like all others.
* A finalizer that registers a finalizer, or frees an object that has one (its
  own object included, whose callback would be called again): both change the
  table under the iteration of `Hash_deleteIf`, on memory that may have been
  freed.  Also a finalizer that makes its object reachable again, or that
  collects explicitly while a collection calls it.
* A finalizer which, called by `GC_free`, collects when nothing leads to its
  object any more.  The sweep then takes the chunk, and when the finalizer
  returns, `chunk->allocated = 0` (`global_allocator.c:287`) may hit an object
  that was put there since.  `Collection` takes it that the argument of the
  callback is on the stack as long as it runs (`freeing \subseteq Reachable'`).
* A program that goes on while a collection waits in a finalizer, as far as the
  object graph is concerned; the fibers of it are in `CrystalCollect`.
* A collection in the middle of `GC_realloc` comes, in `Collection`, before
  it: until the copy is made the old object is held, and the new one does not
  exist.
* The bits of a line header and the murmur hash (a constant function of
  `Hash`), the sample and the benchmarks.
