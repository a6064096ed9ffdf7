---------------------------- MODULE RecycleLoop ----------------------------
(***************************************************************************)
(* The loop of GC_GlobalAllocator_recycleBlocks over the lines of one      *)
(* marked block: it clears the headers of the free lines, and records the  *)
(* holes, each with its limit and the hole after it, in a single pass that *)
(* looks one line ahead.  Its result is what module Holes defines.         *)
(***************************************************************************)
EXTENDS Holes

VARIABLES
    marks,          \* the lines whose header is marked
    cleared,        \* the lines whose header the loop has cleared
    line_index,
    hole,           \* the line of the hole that is open, if any
    previous_hole,  \* that of the last hole that was closed
    holes,          \* the hole records written, by line
    first_free_line_index,
    flag            \* what the block becomes; NULL while the loop runs

vars == <<marks, cleared, line_index, hole, previous_hole, holes,
          first_free_line_index, flag>>

\* A marked block has at least one marked line.
Init ==
    /\ marks \in SUBSET Line \ {{}}
    /\ cleared = {}
    /\ line_index = 0
    /\ hole = NULL /\ previous_hole = NULL
    /\ holes = [l \in {} |-> NULL]
    /\ first_free_line_index = INVALID_LINE_INDEX
    /\ flag = NULL

\* One line too many.
MutantInLoop == flag = NULL /\ line_index <= LINE_COUNT

InLoop == flag = NULL /\ line_index < LINE_COUNT

\* The limit is the line after.
MutantMarkedLine ==
    /\ InLoop
    /\ line_index \in marks
    /\ IF hole # NULL
       THEN /\ holes' = [holes EXCEPT ![hole].limit = line_index + 1]
            /\ previous_hole' = hole
            /\ hole' = NULL
       ELSE UNCHANGED <<holes, previous_hole, hole>>
    /\ line_index' = line_index + 1
    /\ UNCHANGED <<marks, cleared, first_free_line_index, flag>>

\* A marked line closes the hole.
MarkedLine ==
    /\ InLoop
    /\ line_index \in marks
    /\ IF hole # NULL
       THEN /\ holes' = [holes EXCEPT ![hole].limit = line_index]
            /\ previous_hole' = hole
            /\ hole' = NULL
       ELSE UNCHANGED <<holes, previous_hole, hole>>
    /\ line_index' = line_index + 1
    /\ UNCHANGED <<marks, cleared, first_free_line_index, flag>>

\* Without looking at the next line.
MutantOpensHole ==
    /\ hole = NULL
    /\ line_index # LINE_COUNT - 1

OpensHole ==
    /\ hole = NULL
    /\ line_index # LINE_COUNT - 1
    /\ line_index + 1 \notin marks

\* The skipped line and the first of the hole are taken together.
OpenHole ==
    LET start == line_index + 1
    IN /\ InLoop
       /\ line_index \notin marks
       /\ OpensHole
       /\ cleared' = cleared \cup {line_index, start}
       /\ first_free_line_index' =
            IF first_free_line_index = INVALID_LINE_INDEX THEN start
            ELSE first_free_line_index
       /\ hole' = start
       /\ holes' = [l \in DOMAIN holes \cup {start} |->
                      IF l = start THEN [limit |-> NULL, next |-> NULL]
                      ELSE IF l = previous_hole
                      THEN [holes[l] EXCEPT !.next = start]
                      ELSE holes[l]]
       /\ line_index' = start + 1
       /\ UNCHANGED <<marks, previous_hole, flag>>

\* A free line inside a hole, or one that is free alone.
ClearLine ==
    /\ InLoop
    /\ line_index \notin marks
    /\ ~OpensHole
    /\ cleared' = cleared \cup {line_index}
    /\ line_index' = line_index + 1
    /\ UNCHANGED <<marks, hole, previous_hole, holes, first_free_line_index, flag>>

Finish ==
    /\ flag = NULL /\ line_index = LINE_COUNT
    /\ holes' = IF hole # NULL /\ holes[hole].limit = NULL
                THEN [holes EXCEPT ![hole].limit = LINE_COUNT]
                ELSE holes
    /\ flag' = IF first_free_line_index = INVALID_LINE_INDEX
               THEN "unavailable" ELSE "recyclable"
    /\ UNCHANGED <<marks, cleared, line_index, hole, previous_hole,
                   first_free_line_index>>

Next == MarkedLine \/ OpenHole \/ ClearLine \/ Finish

Spec == Init /\ [][Next]_vars
-----------------------------------------------------------------------------
HoleRecord == [limit : 0 .. LINE_COUNT \cup {NULL}, next : Line \cup {NULL}]

TypeOK ==
    /\ marks \subseteq Line
    /\ cleared \subseteq Line
    /\ line_index \in 0 .. LINE_COUNT
    /\ hole \in Line \cup {NULL}
    /\ previous_hole \in Line \cup {NULL}
    /\ DOMAIN holes \subseteq Line
    /\ holes \in [DOMAIN holes -> HoleRecord]
    /\ first_free_line_index \in Line \cup {INVALID_LINE_INDEX}
    /\ flag \in {NULL, "recyclable", "unavailable"}

\* When the loop has ended, the holes, their limits and the links from one to
\* the next are those that module Holes defines, from which module SmallHeap
\* allocates; the block is recyclable if there is any.
HolesRecorded ==
    flag # NULL =>
        /\ cleared = Line \ marks
        /\ DOMAIN holes = HoleStarts(marks)
        /\ \A l \in DOMAIN holes :
              holes[l] = [limit |-> HoleLimit(marks, l), next |-> HoleNext(marks, l)]
        /\ IF DOMAIN holes = {}
           THEN flag = "unavailable"
           ELSE /\ flag = "recyclable"
                /\ first_free_line_index = Least(DOMAIN holes)

\* The lines of the holes are those which are free and which no small object
\* can reach into from the line before: none that is unsafe, none wasted.
HolesAreSpareLines ==
    flag # NULL =>
        {l \in Line : \E h \in DOMAIN holes : h <= l /\ l < holes[h].limit}
          = {l \in Line \ {0} : l \notin marks /\ l - 1 \notin marks}
=============================================================================
