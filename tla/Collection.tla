----------------------------- MODULE Collection -----------------------------
(***************************************************************************)
(* A collection over the objects of the program (src/collector.c), and the *)
(* calls between two collections that decide what it must keep and what it *)
(* finalizes: GC_malloc, GC_malloc_atomic, GC_realloc, GC_free and         *)
(* GC_register_finalizer (src/immix.c).                                    *)
(*                                                                         *)
(* Where an object lies, and how a pointer is resolved to it, is the       *)
(* subject of SmallHeap and LargeSpace: here a word of memory is an object *)
(* or NULL, which stands for whatever resolves to no allocated object.     *)
(* The program may write anything between two collections, so the words    *)
(* are chosen when a collection begins.                                    *)
(*                                                                         *)
(* Not part of this model: a finalizer that frees the object it is called  *)
(* for; one that, called by a collection, registers a finalizer or frees   *)
(* an object that has one; one that, called by GC_free, collects when      *)
(* nothing leads to its object any more; and a program that runs while a   *)
(* collection is not finished.                                             *)
(***************************************************************************)
EXTENDS Sequences, Naturals, Functions

CONSTANTS OBJECTS,      \* places of objects
          LARGE,        \* those of the large object space
          ROOTS,        \* the regions of roots, in the order they are added
          SIZE,         \* the words of each region
          NULL

RootRegions == Range(ROOTS)
Regions == OBJECTS \cup RootRegions

ASSUME RegionsAssumption ==
    /\ LARGE \subseteq OBJECTS
    /\ ROOTS \in Seq(RootRegions) /\ IsInjective(ROOTS)
    /\ OBJECTS \cap RootRegions = {}
    /\ NULL \notin Regions
    /\ SIZE \in [Regions -> Nat]

VARIABLES
    allocated,      \* the objects with a header, or an allocated chunk
    atomic,         \* those whose header says they hold no pointer
    marked,         \* the marked byte of each place, allocated or not
    finalizers,     \* the keys of the table of finalizers
    memory,         \* the words of each region, while a collection runs
    stack,          \* the regions to scan
    region, sp,     \* the region that is being scanned, and the next word
    pc,             \* the step of GC_Collector_collect
    todo,           \* the finalizers that deleteIf has not come to
    finalizing,     \* the object whose finalizer runs
    freeing,        \* the objects whose finalizers GC_free is calling
    held,           \* history: the objects the program may use
    pointerFree,    \* history: those it promised to keep free of pointers
    finalized       \* history: those whose finalizer was called

program == <<allocated, atomic, finalizers, freeing, held, pointerFree,
             finalized>>
marking == <<stack, region, sp>>
finalization == <<todo, finalizing>>
vars == <<program, marked, memory, marking, pc, finalization>>

\* The words of memory, each by its region and place.
Cells == UNION {{r} \X (1 .. SIZE[r]) : r \in Regions}
NoWords == [c \in Cells |-> NULL]

Init ==
    /\ allocated = {} /\ atomic = {} /\ marked = {} /\ finalizers = {}
    /\ memory = NoWords
    /\ stack = <<>> /\ region = NULL /\ sp = 1
    /\ pc = "program"
    /\ todo = {} /\ finalizing = NULL
    /\ freeing = {} /\ held = {} /\ pointerFree = {} /\ finalized = {}
-----------------------------------------------------------------------------
(* What the program can reach, from the roots and from each object reached. *)

Targets(r) ==
    IF r \in pointerFree THEN {}
    ELSE {memory[<<r, i>>] : i \in 1 .. SIZE[r]} \ {NULL}

Closed(objects) ==
    \A r \in RootRegions \cup objects : Targets(r) \subseteq objects

Reachable == {o \in OBJECTS : \A objects \in SUBSET OBJECTS :
                                 Closed(objects) => o \in objects}
-----------------------------------------------------------------------------
(* GC_malloc, GC_realloc, GC_free, GC_register_finalizer *)

\* Object_allocate sets the size and the atomic byte.  The marked byte is that
\* of the chunk, or whatever the memory of a small object held.
Allocate(o, isAtomic) ==
    /\ o \in OBJECTS \ allocated
    /\ atomic' = IF isAtomic THEN atomic \cup {o} ELSE atomic \ {o}
    /\ marked' \in IF o \in LARGE THEN {marked}
                  ELSE {marked \ {o}, marked \cup {o}}
    /\ finalized' = finalized \ {o}

Malloc(o, isAtomic) ==
    /\ pc = "program"
    /\ Allocate(o, isAtomic)
    /\ allocated' = allocated \cup {o}
    /\ held' = held \cup {o}
    /\ pointerFree' = IF isAtomic THEN pointerFree \cup {o}
                      ELSE pointerFree \ {o}
    /\ UNCHANGED <<finalizers, freeing, memory, marking, pc, finalization>>

\* A finalizer is left behind for the old object.
MutantMovedFinalizers(old, new) ==
    IF old \in finalizers THEN finalizers \cup {new} ELSE finalizers

MovedFinalizers(old, new) ==
    IF old \in finalizers THEN (finalizers \ {old}) \cup {new} ELSE finalizers

\* The new object is never atomic.
MutantReallocAtomic(old) == FALSE

ReallocAtomic(old) == old \in atomic

\* GC_realloc to a larger size.  With no pointer it is GC_malloc, with size 0
\* GC_free, and for a size that fits it changes nothing.  A collection that
\* the allocation needs comes before it, with the old object held.
Realloc(old, new) ==
    /\ pc = "program"
    /\ old \in held
    /\ Allocate(new, ReallocAtomic(old))
    /\ allocated' = (allocated \cup {new}) \ ({old} \cap LARGE)
    /\ finalizers' = MovedFinalizers(old, new)
    /\ held' = (held \ {old}) \cup {new}
    /\ pointerFree' = IF old \in pointerFree THEN pointerFree \cup {new}
                      ELSE pointerFree \ {new}
    /\ UNCHANGED <<freeing, memory, marking, pc, finalization>>

\* The finalizer stays in the table when it was called.
MutantDeallocated(o) == UNCHANGED finalizers

Deallocated(o) == finalizers' = finalizers \ {o}

\* GC_free of a small object does nothing.  Of a large one it deletes the
\* finalizer and calls it first, and meanwhile the object stays as it is: what
\* the finalizer does are calls of the program.
Free(o) ==
    /\ pc = "program"
    /\ o \in held
    /\ held' = held \ {o}
    /\ \/ /\ o \notin LARGE
          /\ UNCHANGED <<finalizers, allocated, freeing, finalized>>
       \/ /\ o \in LARGE \ finalizers
          /\ allocated' = allocated \ {o}
          /\ UNCHANGED <<finalizers, freeing, finalized>>
       \/ /\ o \in LARGE \cap finalizers
          /\ Deallocated(o)
          /\ freeing' = freeing \cup {o}
          /\ finalized' = finalized \cup {o}
          /\ UNCHANGED allocated
    /\ UNCHANGED <<atomic, pointerFree, marked, memory, marking, pc,
                   finalization>>

\* The finalizer has returned, and the object is free.
FreeReturns(o) ==
    /\ pc = "program"
    /\ o \in freeing
    /\ freeing' = freeing \ {o}
    /\ allocated' = allocated \ {o}
    /\ UNCHANGED <<atomic, finalizers, held, pointerFree, finalized, marked,
                   memory, marking, pc, finalization>>

RegisterFinalizer(o) ==
    /\ pc = "program"
    /\ o \in held
    /\ finalizers' = finalizers \cup {o}
    /\ UNCHANGED <<allocated, atomic, freeing, held, pointerFree, finalized, marked,
                   memory, marking, pc, finalization>>
-----------------------------------------------------------------------------
(* GC_Collector_collect: marking *)

\* Marks of the last collection stay.
MutantUnmarked == marked

Unmarked == {}

\* The words of regions that exist.  The program may have written anything
\* there, data that looks like a pointer too, and has lost what nothing leads
\* to.  A finalizer that GC_free is calling has its object on its stack.
UsedCells == {c \in Cells : c[1] \in RootRegions \cup allocated}

BeginCollection ==
    /\ pc = "program"
    /\ \E words \in [UsedCells -> allocated \cup {NULL}] :
          memory' = [c \in Cells |-> IF c \in UsedCells THEN words[c]
                                    ELSE NULL]
    /\ marked' = Unmarked
    /\ stack' = ROOTS
    /\ pc' = "mark"
    /\ UNCHANGED <<allocated, atomic, finalizers, freeing, pointerFree,
                   finalized, region, sp, finalization>>
    /\ held' = held \cap Reachable'
    /\ freeing \subseteq Reachable'

PopRegion ==
    /\ pc = "mark" /\ region = NULL
    /\ stack # <<>>
    /\ region' = stack[Len(stack)]
    /\ sp' = 1
    /\ stack' = SubSeq(stack, 1, Len(stack) - 1)
    /\ UNCHANGED <<program, marked, memory, pc, finalization>>

\* Atomic objects too.
MutantScanObject(o) == Append(stack, o)

ScanObject(o) == IF o \in atomic THEN stack ELSE Append(stack, o)

\* Without looking at the mark.
MutantMark(o) ==
    IF o # NULL
    THEN marked' = marked \cup {o} /\ stack' = ScanObject(o)
    ELSE UNCHANGED <<marked, stack>>

\* findAndMarkSmallObject, markChunk
Mark(o) ==
    IF o # NULL /\ o \notin marked
    THEN marked' = marked \cup {o} /\ stack' = ScanObject(o)
    ELSE UNCHANGED <<marked, stack>>

ScanWord ==
    /\ pc = "mark" /\ region # NULL
    /\ IF sp <= SIZE[region]
       THEN /\ Mark(memory[<<region, sp>>])
            /\ sp' = sp + 1
            /\ UNCHANGED region
       ELSE /\ region' = NULL
            /\ sp' = 1
            /\ UNCHANGED <<marked, stack>>
    /\ UNCHANGED <<program, memory, pc, finalization>>

EndMark ==
    /\ pc = "mark" /\ region = NULL
    /\ stack = <<>>
    /\ todo' = finalizers
    /\ pc' = "finalize"
    /\ UNCHANGED <<program, marked, memory, marking, finalizing>>
-----------------------------------------------------------------------------
(* GC_Collector_collect: finalizers and sweep *)

\* An entry that is kept is looked at again.
MutantPassed(o) == todo' = IF o \in marked THEN todo ELSE todo \ {o}

Passed(o) == todo' = todo \ {o}

\* Hash_deleteIf comes to an entry; the order is that of the hash.
CallFinalizer(o) ==
    /\ pc = "finalize" /\ finalizing = NULL
    /\ o \in todo
    /\ Passed(o)
    /\ IF o \notin marked
       THEN /\ finalizing' = o
            /\ finalized' = finalized \cup {o}
       ELSE UNCHANGED <<finalizing, finalized>>
    /\ UNCHANGED <<allocated, atomic, finalizers, freeing, held, pointerFree,
                   marked, memory, marking, pc>>

\* While it runs it may allocate (atomic or not as what was there before:
\* it is not scanned before the next collection).  What it allocates is swept
\* if it is not marked by chance, so that it may only use it for itself.
FinalizerAllocates(o) ==
    /\ finalizing # NULL
    /\ Allocate(o, o \in pointerFree)
    /\ allocated' = allocated \cup {o}
    /\ UNCHANGED <<finalizers, freeing, held, pointerFree, memory, marking, pc,
                   finalization>>

\* It may free a large object: one that only the finalized object used, which
\* a false pointer may have marked, or one that the program uses no more.
FinalizerFrees(o) ==
    /\ finalizing # NULL /\ o # finalizing
    /\ o \in (allocated \cap LARGE) \ (finalizers \cup freeing)
    /\ allocated' = allocated \ {o}
    /\ held' = held \ {o}
    /\ UNCHANGED <<atomic, finalizers, freeing, pointerFree, finalized, marked,
                   memory, marking, pc, finalization>>

\* The entry stays.
MutantDeleted(o) == UNCHANGED finalizers

Deleted(o) == finalizers' = finalizers \ {o}

FinalizerReturns ==
    /\ finalizing # NULL
    /\ Deleted(finalizing)
    /\ finalizing' = NULL
    /\ UNCHANGED <<allocated, atomic, freeing, held, pointerFree, finalized, marked,
                   memory, marking, pc, todo>>

\* Lines are kept as a whole, so an unmarked small object may stay.
Swept(kept) == allocated \cap (marked \cup kept)

Sweep ==
    /\ pc = "finalize" /\ finalizing = NULL /\ todo = {}
    /\ \E kept \in SUBSET (OBJECTS \ LARGE) : allocated' = Swept(kept)
    /\ memory' = NoWords
    /\ pc' = "program"
    /\ UNCHANGED <<atomic, finalizers, freeing, held, pointerFree, finalized,
                   marked, marking, finalization>>
-----------------------------------------------------------------------------
Program ==
    \/ \E o \in OBJECTS, isAtomic \in BOOLEAN : Malloc(o, isAtomic)
    \/ \E old, new \in OBJECTS : Realloc(old, new)
    \/ \E o \in OBJECTS : Free(o) \/ FreeReturns(o) \/ RegisterFinalizer(o)
    \/ BeginCollection

Finalizer ==
    \/ \E o \in OBJECTS : FinalizerAllocates(o) \/ FinalizerFrees(o)
    \/ FinalizerReturns

Collector ==
    \/ PopRegion \/ ScanWord \/ EndMark
    \/ \E o \in OBJECTS : CallFinalizer(o)
    \/ Sweep

Next == Program \/ Finalizer \/ Collector

Spec == Init /\ [][Next]_vars

\* A finalizer comes to its end.
FairSpec == Spec /\ WF_vars(Collector) /\ SF_vars(FinalizerReturns)
-----------------------------------------------------------------------------
\* Every variable has its type.
TypeOK ==
    /\ allocated \subseteq OBJECTS /\ atomic \subseteq OBJECTS
    /\ marked \subseteq OBJECTS /\ finalizers \subseteq OBJECTS
    /\ memory \in [Cells -> OBJECTS \cup {NULL}]
    /\ stack \in Seq(RootRegions \cup (OBJECTS \ atomic))
    /\ region \in Regions \cup {NULL}
    /\ sp \in Nat
    /\ pc \in {"program", "mark", "finalize"}
    /\ todo \subseteq finalizers
    /\ finalizing \in OBJECTS \cup {NULL}
    /\ freeing \subseteq OBJECTS /\ held \subseteq OBJECTS
    /\ pointerFree \subseteq OBJECTS /\ finalized \subseteq OBJECTS

\* Marking ends with the objects that the program can reach marked, no more
\* and no less.  (Then only what finalizers allocate changes the marks.)
MarkingExact ==
    pc = "mark" /\ region = NULL /\ stack = <<>> => marked = Reachable

\* No region is scanned twice, so that the stack of regions, which has room
\* for one region for each word of memory and is pushed to without a check,
\* does not overflow, and marking ends.
ScannedOnce ==
    /\ IsInjective(stack)
    /\ region \notin Range(stack)

\* Whatever finalizers free and the sweep recycles, an object that the program
\* can still reach is there, and so is one whose finalizer GC_free is calling,
\* whatever that does.
LiveKept == held \cup freeing \subseteq allocated

\* A finalizer is registered for an object that is there, and when a collection
\* calls it the object is not reachable, has not been finalized before, and
\* its memory is still its own.
FinalizersValid ==
    /\ finalizers \subseteq allocated
    /\ finalizing # NULL => finalizing \in allocated \ Reachable
    /\ finalized \cap finalizers \subseteq {finalizing}

\* A finalizer is called once: neither GC_free nor a collection starts one for
\* an object that was finalized, and after a collection none waits for an
\* object that it found unreachable.
FinalizedOnce ==
    [][/\ \A o \in OBJECTS :
             o \in finalized => /\ o \in freeing' => o \in freeing
                                /\ finalizing' = o => finalizing = o
       /\ Sweep => finalizers \subseteq Reachable]_vars

\* A collection ends.
CollectionEnds == pc # "program" ~> pc = "program"
=============================================================================
