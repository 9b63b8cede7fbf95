SPECIFICATION Spec
CONSTANTS
    Threads = {a, b}
    NTasks = 5
    a = a
    b = b
    Executors <- SmallExecutors
    Depth = 2
INVARIANTS
    CqNeverOverflows
    CompletionsAreFound
PROPERTY
    EveryTaskEnds
CHECK_DEADLOCK FALSE
