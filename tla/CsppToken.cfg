CONSTANTS
    Tokens = {t1, t2, t3}
    NULL = NULL
    MAX_DEL_PTRS = 1
    MaxSeq = 4
SYMMETRY Symmetry
SPECIFICATION Spec
 
PROPERTY PlaceIsKept
PROPERTY ImplementsEpoch
INVARIANT QueueRight
