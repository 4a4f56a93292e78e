CONSTANTS
    WordBits = 2
    LineWords = 2
    BitKinds = {"simple", "se", "se_512", "il", "il_41"}
    FastWalk = 2
    MaxBits = 7
    MixedUses <- MCUses
    Fan = 2
    FewBits = 7
    FeBits = 2
    MaxFe = 5
    StaticSizes = {4, 5}
    BlockUnits = 4
    HeaderSizes <- MCHeaders
    DiffBits = 4
    UintUses <- MCUintUses
    ByteBits = 3
    CountBits = 2
    LBytes = 1
    BlockBytes = 2
    TFShift = 3
    HeadBits = 4
    HeadCodes = 5
    RansBits = 14
    BLOCK_BITS = 4
    Stores <- MCCoderStores
    Contents <- MCContents
    Capacities = {0, 2, 3}
    IoLens = {1, 2, 4}
    CR = 8
    LF = 9
    IoKinds = {"input", "seekin", "memread", "output", "seekout", "detached", "both", "zcread", "zcwrite"}
    FullKinds = {"output"}
    Rooms = {0, 3}
    BufAlign = 2
    MaxIoOps = 5
    VecUses <- MCVecUses
    VecProbes <- MCVecProbes
    UintLens = {1, 2}
    ZoUnits = 2
    ZoAlign = 2
    MaxVecOps = 2
SPECIFICATION MCSpec
CHECK_DEADLOCK FALSE
INVARIANT BitVectorsRight
INVARIANT IntegersRight
INVARIANT RoundTrip
INVARIANT StreamRight
INVARIANT StringsRight
