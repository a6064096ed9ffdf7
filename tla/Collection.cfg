SPECIFICATION FairSpec
CONSTANTS
    small = small
    large = large
    leaf = leaf
    fiber = fiber
    NULL = NULL
    OBJECTS <- MCObjects
    LARGE = {large, leaf}
    ROOTS <- MCRoots
    SIZE <- MCSize
INVARIANTS TypeOK MarkingExact ScannedOnce LiveKept FinalizersValid
PROPERTIES FinalizedOnce CollectionEnds
