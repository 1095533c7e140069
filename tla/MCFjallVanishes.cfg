SPECIFICATION Spec
CONSTANTS
    Tasks = {1, 2}
    MaxRetries = 1
    MaxFaults = 1
    Faults = {"cut"}
INVARIANTS NothingVanishes
CHECK_DEADLOCK FALSE
