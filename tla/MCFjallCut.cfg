SPECIFICATION Spec
CONSTANTS
    Tasks = {1, 2}
    MaxRetries = 1
    MaxFaults = 2
    Faults = {"cut", "power", "io"}
INVARIANTS PromiseKept NoResurrection GhostsAreSettled HeldExclusively OnlyCutPopsVanish
PROPERTIES ContractUntilCut
CHECK_DEADLOCK FALSE
