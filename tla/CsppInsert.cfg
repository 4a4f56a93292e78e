CONSTANTS
    Writers = {w1, w2}
    Readers = {r}
    Label = {0, 1}
    Keys <- MCKeys
    LoadKeys <- MCLoadKeys
    Loader = w1
    InitFails = TRUE
    AllocFails = TRUE
    MaxZpath = 2
    MaxNode = 12
    MaxInserts = 1
    MaxLookups = 1
SPECIFICATION Spec
INVARIANT TrieIsSet
INVARIANT LookupSees
INVARIANT NodesAccounted
