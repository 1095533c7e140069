SPECIFICATION Spec
CONSTANTS
    Keys = {k1, k2}
    MaxValues = 2
    MaxErrors = 2
    ErrorLimit = 1
    MaxFaults = 1
    Faults = {"cancel", "crash", "io"}
SYMMETRY Symmetry
INVARIANTS TypeOK Agreement IndexMatchesFiles
PROPERTIES CleanupSparesGood
CHECK_DEADLOCK FALSE
