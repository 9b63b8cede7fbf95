SPECIFICATION FairSpec
CONSTANTS
    Writers = {1, 2, 3}
    NumSlots = 3
    SlotOf <- OwnSlots
    Attempts = 4
INVARIANTS DrainedIsQuiet
PROPERTIES ImplementsGate FrozenDrains
CHECK_DEADLOCK FALSE
