\* The system stops when a finalizer raises.
CHECK_DEADLOCK FALSE

SPECIFICATION FairSpec
CONSTANTS
    PROGRAM = {main, f1, f2, f3}
    MAIN = main
    COLLECTOR = collector
    NULL = NULL
INVARIANTS AlwaysPending OneRequest FiberPlaces
PROPERTIES RequestServed RequestsReturn
