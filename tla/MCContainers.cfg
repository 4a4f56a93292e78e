CONSTANTS
    PoolThreads = {t1, t2}
    PoolCap = 5
    PoolBase = 1
    ArenaSize = 3
    FastMax = 2
    LevelMax = 2
    Requests = {1, 3}
    SeqCap = 8
    SeqFastMax = 1
    SeqRequests = {1, 2, 3}
    HashKeys = {1, 2, 3, 4}
    Hash <- MCHash
    Primes = {5, 11, 19}
    LoadPcts = {50}
    MaxOps = 7
    StrKeys = {1, 2, 3, 4}
    KeySize <- MCKeySize
    StrHash <- MCStrHash
    StrValues = {0, 1}
    StrPrimes = {5, 11, 19, 31}
    Align = 2
    FreeLens = {2, 4}
    MapTypes <- MCTypes
    MaxStrOps = 5
    Objects = {a, b}
    Garbage = garbage
    Word = 2
    MaxId = 7
    MaxKey = 2
    WaySizes <- MCWays
    SetLen = 4
    Threshold = 2
    Strings <- MCStrings
    StrCount = 3
    MaxByte = 2
    NewWords <- MCNew
    LoadWords <- MCLoad
    SeekKeys <- MCSeek
    PrefixKeys <- MCPrefix
    FastMin = 2
    MaxZpath = 1
    PoolNodes = 20
    IterOps = 3
    ConLevels = {"SingleThreadShared", "OneWriteMultiRead"}
SPECIFICATION MCSpec
SYMMETRY ThreadSymmetry
CHECK_DEADLOCK FALSE
INVARIANT PoolIsWhole
INVARIANT SeqIsWhole
INVARIANT FindsContent
INVARIANT StrMapRight
PROPERTY KeepsIds
INVARIANT SetOpsRight
INVARIANT IterRight
