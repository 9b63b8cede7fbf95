SPECIFICATION FailingFairSpec
CONSTANTS
    MaxNumLevels = 3
    MinWidth = 2
    MaxWidth = 3
    Threshold = 2
    MaxFlushed = 4
CHECK_DEADLOCK FALSE
PROPERTIES
    ChainIsNeverBroken
