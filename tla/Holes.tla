------------------------------- MODULE Holes -------------------------------
(***************************************************************************)
(* The holes of a block: the runs of free lines a recycled block is        *)
(* allocated from.  Lines and the limits of holes are named by the index   *)
(* of the line; LINE_COUNT stands for the end of the block.                *)
(***************************************************************************)
EXTENDS Blocks

CONSTANT NULL

ASSUME NullAssumption == NULL \notin Int \cup {"recyclable", "unavailable"}

Least(S) == CHOOSE x \in S : \A y \in S : x <= y

\* No line is skipped.
MutantHoleStarts(marks) ==
    {l \in Line : l \notin marks /\ (l > 0 => l - 1 \in marks)}

\* A hole starts after a skipped line, which a small object that starts in
\* the marked line before may span.
HoleStarts(marks) ==
    {l \in Line \ {0} : /\ l \notin marks /\ l - 1 \notin marks
                        /\ l > 1 => l - 2 \in marks}

\* It ends at the next marked line, or with the block.
HoleLimit(marks, l) == Least({m \in marks : m > l} \cup {LINE_COUNT})

\* The hole itself again.
MutantHoleNext(marks, l) == l

HoleNext(marks, l) ==
    LET after == {m \in HoleStarts(marks) : m > l}
    IN IF after = {} THEN NULL ELSE Least(after)
=============================================================================
