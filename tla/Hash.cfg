SPECIFICATION Spec

CONSTANTS
    A = {a1, a2, a3, a4}
    B = {b1, b2, b3}
    C = {}
    KEYS <- MCKeys
    VALUES = {v1}
    HASH <- MCHash
    MINSIZE = 8
    CAPACITIES <- MCCapacities
    REREGISTERED <- C
    NULL = NULL

SYMMETRY MCSymmetry

INVARIANTS
    TypeOK
    CountsExact
    StoredKeysFound

PROPERTIES
    ImplementsTable
