SPECIFICATION Spec
CONSTANTS
    MaxNumLevels = 3
    MinWidth = 2
    MaxWidth = 3
    Threshold = 2
    MaxFlushed = 8
CHECK_DEADLOCK FALSE
INVARIANTS
    SearchedNewestFirst
    EachFlushOnce
    BucketsAreThePieces
    NoResurrection
    CounterIsExact
