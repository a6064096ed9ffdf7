\* The system stops when an assertion fails or memory runs out.
CHECK_DEADLOCK FALSE

SPECIFICATION FairSpec

CONSTANTS
    LINE_SIZE = 4
    LINE_COUNT = 3
    OBJECT = 1
    SIZES = {3, 7}
    INITIAL_BLOCKS = 2
    MAX_BLOCKS = 3
    LARGE_HEAP_SIZE = 16
    GROWTH_RATE = 30
    FREE_SPACE_DIVISOR = 4
    MAX_KEPT = 1
    STALE_MARKS = {TRUE}
    UNINIT_NEXT = {NULL}
    SPURIOUS <- MCOneSpurious
    NULL = NULL

INVARIANTS
    TypeOK
    BlockOwnership
    BlocksUsable

PROPERTIES
    GrowsLast
    CallsComplete
