---------------------------- MODULE MCSmallHeap ----------------------------
(***************************************************************************)
(* Module SmallHeap for TLC.                                               *)
(***************************************************************************)
EXTENDS SmallHeap

\* Words that look like pointers into the first line of each of two blocks,
\* and into the last line of the first.
MCSpurious == {Block_line(0, 0) + 1, Block_line(0, LINE_COUNT - 1) + 1,
               Block_line(BLOCK_SIZE, 0) + 2}

MCOneSpurious == {Block_line(BLOCK_SIZE, 0) + 2}
=============================================================================
