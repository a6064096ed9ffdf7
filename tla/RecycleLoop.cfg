\* The loop ends.
CHECK_DEADLOCK FALSE

SPECIFICATION Spec

CONSTANTS
    LINE_SIZE = 1
    LINE_COUNT = 8
    NULL = NULL

INVARIANTS
    TypeOK
    HolesRecorded
    HolesAreSpareLines
