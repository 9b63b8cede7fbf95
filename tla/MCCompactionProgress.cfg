SPECIFICATION FairSpec
CONSTANTS
    MaxNumLevels = 3
    MinWidth = 2
    MaxWidth = 3
    Threshold = 1
    MaxFlushed = 5
CHECK_DEADLOCK FALSE
PROPERTIES
    TasksFinish
    PressureEnds
