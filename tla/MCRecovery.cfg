SPECIFICATION Spec
CONSTANTS
    w1 = w1
    w2 = w2
    Writers = {w1, w2}
    MaxPuts = 4
    Cap = 0
    MaxFlushes = 1
    MaxRestarts = 3
    MaxGap = 2
SYMMETRY WriterSymmetry
CHECK_DEADLOCK FALSE
INVARIANTS
    AckedIsOnDisk
    RecoveredIsFresh
    SlotsAreExclusive
