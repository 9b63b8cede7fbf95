SPECIFICATION FairSpec
CONSTANTS
    Writers = {w1, w2}
    w1 = w1
    w2 = w2
    MaxPuts = 3
    FailingPuts = {}
    FailingJobs = {}
    Cap = 0
    MaxFlushes = 1
INVARIANTS MakerWaitsOnlyForReset
PROPERTIES PutsReturn JobsFinish
CHECK_DEADLOCK FALSE
