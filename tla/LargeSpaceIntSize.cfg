\* The system stops when an assertion fails or memory runs out.
CHECK_DEADLOCK FALSE

SPECIFICATION Spec

CONSTANTS
    HEADER = 1
    OBJECT = 1
    BLOCK_SIZE = 4
    INITIAL_SIZE = 12
    SIZES = {2, 5}
    SMALL_HEAP_SIZE = 8
    MEMORY_LIMIT = 28
    FREE_SPACE_DIVISOR = 3
    POWERS <- MCPowers
    INT_MAX = 9
    SIZE_MODULUS = 1000
    SPURIOUS = {}
    MAX_ALLOCATED = 4
    NULL = NULL

INVARIANTS
    ListTilesHeap
