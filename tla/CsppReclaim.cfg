CONSTANTS
    Tokens = {w1, w2, r}
    Writers = {w1, w2}
    Nodes = {n1, n2, n3}
    ConLevel = "MultiWriteMultiRead"
    Verseqs = {1, 2, 3, 4}
SYMMETRY Symmetry
SPECIFICATION Spec
CHECK_DEADLOCK FALSE
INVARIANT MinAgeSafe
INVARIANT NoUseAfterFree
PROPERTY AgesOnlyGrow
