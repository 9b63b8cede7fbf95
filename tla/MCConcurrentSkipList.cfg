CONSTANTS
    Threads = {t1, t2, t3}
    NoOne = NoOne
    Keys = {1, 2}
    Ops = {"add", "remove", "contains", "lower_bound", "iterate"}
    MaxHeight = 2
    SizeLimit <- OneKey
    Lists <- SmallLists
    MaxCalls = 3
    MaxReads = 1
SPECIFICATION Spec
SYMMETRY Symmetry
INVARIANTS
    NothingIsLost
    AnswersAreHonest
    NoUseAfterDestroy
    LinkExists
    LocksDescend
CHECK_DEADLOCK FALSE
