SPECIFICATION Spec
CONSTANTS
    w1 = w1
    w2 = w2
    Writers = {w1}
    MaxPuts = 3
    Cap = 0
    MaxFlushes = 1
    MaxRestarts = 2
    MaxGap = 2
CHECK_DEADLOCK FALSE
PROPERTIES
    SkippedIsPersisted
