SPECIFICATION Spec
CONSTANTS
    f1 = f1
    f2 = f2
    m1 = m1
    m2 = m2
    Flushes = {f1, f2}
    Merges = {m1, m2}
SYMMETRY JobSymmetry
CHECK_DEADLOCK FALSE
INVARIANTS
    ManifestNamesOnlyFiles
    PersistedStays
    LoadIsComplete
