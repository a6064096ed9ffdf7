SPECIFICATION Spec

CONSTANTS
    A = {a1}
    B = {b1, b2}
    C = {c1}
    KEYS <- MCKeys
    VALUES = {v1}
    HASH <- MCHash
    MINSIZE = 8
    CAPACITIES <- MCCapacities
    REREGISTERED <- C
    NULL = NULL

SYMMETRY MCSymmetry

INVARIANTS
    KeysOnce
