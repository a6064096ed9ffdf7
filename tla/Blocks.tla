------------------------------- MODULE Blocks -------------------------------
(***************************************************************************)
(* The geometry of the small object space: include/block.h and             *)
(* include/constants.h.                                                    *)
(*                                                                         *)
(* Addresses are counted in words from small_heap_start, which             *)
(* GC_mapAndAlign aligns to BLOCK_SIZE.  A block is named by its address,  *)
(* as in the code.  The first line of a block holds its metadata; the      *)
(* LINE_COUNT others are allocated.                                        *)
(***************************************************************************)
EXTENDS Integers

CONSTANTS LINE_SIZE,    \* words in a line (256 bytes in the code)
          LINE_COUNT    \* allocatable lines in a block (127 in the code)

ASSUME GeometryAssumption == /\ LINE_SIZE \in Nat \ {0}
                             /\ LINE_COUNT \in Nat \ {0}

BLOCK_SIZE == (LINE_COUNT + 1) * LINE_SIZE

Line == 0 .. LINE_COUNT - 1

INVALID_LINE_INDEX == -1

Block_from(pointer) == pointer - (pointer % BLOCK_SIZE)

Block_start(block) == block + LINE_SIZE

Block_stop(block) == block + BLOCK_SIZE

Block_contains(block, pointer) ==
    Block_start(block) <= pointer /\ pointer < Block_stop(block)

Block_line(block, l) == Block_start(block) + l * LINE_SIZE

\* C divides towards zero, so a pointer into the metadata is tested first.
Block_lineIndex(block, pointer) ==
    IF pointer < Block_start(block)
    THEN INVALID_LINE_INDEX
    ELSE (pointer - Block_start(block)) \div LINE_SIZE

ROUND_TO_NEXT_MULTIPLE(value, multiple) ==
    ((value + multiple - 1) \div multiple) * multiple
=============================================================================
