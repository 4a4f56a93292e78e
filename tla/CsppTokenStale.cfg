CONSTANTS
    Tokens = {t1, t2, t3}
    NULL = NULL
    MAX_DEL_PTRS = 1
    MaxSeq = 6
SYMMETRY Symmetry
SPECIFICATION Spec
INVARIANT MinAgeIsHeld
