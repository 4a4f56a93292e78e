CONSTANTS
    Align = 4
    SizeT = 2
    UnitBits = 2
    HeaderLen = 8
    FooterLen = 4
    FlushSize = 8
    BlockLen = 2
    Bases = {0, 4}
    Inputs <- MCInputs
    StoreUses <- MCStoreUses
    RecordsPerBatch = 2
    BytesPerBatch = 2
    LakeCap = 2
    LakeBytes = 4
    DictInputs <- MCDictInputs
    DictUses <- MCDictUses
    DictLens <- MCDictLens
    MaxDictOps = 1
    DzLenBits = 2
    NearBits = 1
    DzByteBits = 2
    VarBits = 2
    Dicts <- MCDicts
    DzRecords <- MCDzRecords
    Probes = {1, 5}
    LabelBits = 3
    BitmapWords = 2
    ShortLen = 3
    NestUses <- MCNestUses
    DawgKeys <- MCDawgKeys
    IterKeys <- MCIterKeys
    IterUses <- MCIterUses
    IterSteps = 3
    KeyBits = 2
    EntryPerTrie = 4
    CbtHashBits = 2
    IndexInputs <- MCIndexInputs
    IndexOptions <- MCIndexOptions
    IndexProbes <- MCIndexProbes
    MaxRun = 3
    IndexSteps = 2
SPECIFICATION MCSpec
INVARIANT PlainStoresRight
INVARIANT UnzipRight
INVARIANT DictStoreRight
INVARIANT StaticTrieRight
PROPERTY IteratesWords
INVARIANT IndexRight
CHECK_DEADLOCK FALSE
