SPECIFICATION Spec
CONSTANTS
    Keys = {1, 2, 3}
    Shapes <- SmallShapes
    MaxSeq = 4
    MaxClaimed = 2
    ByteValues = 4
    PageCells = 20
    RestartGroup = 2
    RBits = 1
    WordBits = 6
    Memtables <- SmallMemtables
    KeyHash <- SmallHash
    PartitionSize = 8
    BufferPages = 2
    KeysPerMetaPage = 2
    SuperThreshold = 1
    FilterQBits = 3
    Hashes = {0, 1, 2, 4, 6, 7, 9, 12, 13, 14, 15, 16}
CHECK_DEADLOCK FALSE
INVARIANTS
    MergeIsExact
    ScanIsExact
    FrozenCursorIsExact
    EachKeyOnce
    RangesAreWhole
    GetIsExact
    IndexReadsBack
    RangeIsCovered
    OnlyWholeFilesLoad
    FilterIsExact
