\* The system stops when an assertion fails or memory runs out.
CHECK_DEADLOCK FALSE

SPECIFICATION Spec

CONSTANTS
    LINE_SIZE = 4
    LINE_COUNT = 5
    OBJECT = 1
    SIZES = {3, 7}
    INITIAL_BLOCKS = 2
    MAX_BLOCKS = 2
    LARGE_HEAP_SIZE = 16
    GROWTH_RATE = 30
    FREE_SPACE_DIVISOR = 4
    MAX_KEPT = 1
    STALE_MARKS = {TRUE}
    UNINIT_NEXT = {NULL}
    SPURIOUS = {}
    NULL = NULL

INVARIANTS
    LineUpdateAssertion
