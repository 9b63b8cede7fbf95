SPECIFICATION Spec
CONSTANTS
    Writers = {w1, w2}
    w1 = w1
    w2 = w2
    MaxPuts = 3
    FailingPuts = {2}
    FailingJobs = {1}
    Cap = 0
    MaxFlushes = 2
INVARIANTS ChronologicalTiers GetIsFresh
PROPERTIES DrainedIsImmutable
SYMMETRY WriterSymmetry
CHECK_DEADLOCK FALSE
