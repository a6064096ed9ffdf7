\* The system stops when memory runs out.
CHECK_DEADLOCK FALSE

SPECIFICATION FairSpec
CONSTANTS
    THREADS = {main, t2}
    MAIN = main
    INITIAL_BLOCKS = 2
    GROWTH = 1
    MAX_BLOCKS = 4
    SWEEPS <- MCSweeps
    CAPACITY = 1
    NULL = NULL
    GARBAGE = GARBAGE
INVARIANTS TypeOK RegisteredExact OwnersDistinct
PROPERTIES RequestsComplete
