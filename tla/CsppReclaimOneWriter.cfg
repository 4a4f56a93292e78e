CONSTANTS
    Tokens = {w1, r}
    Writers = {w1}
    Nodes = {n1, n2, n3}
    ConLevel = "OneWriteMultiRead"
    Verseqs = {1, 2, 3, 4, 5}
SYMMETRY Symmetry
SPECIFICATION Spec
CHECK_DEADLOCK FALSE
INVARIANT NoUseAfterFree
