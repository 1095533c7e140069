SPECIFICATION RoundRobinSpec
CONSTANTS
    Tasks = {1, 2, 3}
    Tags = {1, 2}
    MaxRetries = 1
    MaxFaults = 1
    Faults = {"cut", "power", "io"}
INVARIANTS RotationCoversQueue
PROPERTIES NoTagOvertakesTwice
CHECK_DEADLOCK FALSE
