SPECIFICATION Spec
CONSTANTS
    Tasks = {t1, t2, e1}
    ExternalTasks = {e1}
    MaxRetries = 1
    ProducerBuffer = 1
    ResultBuffer = 1
    ControlBuffer = 1
    ConcurrencyLimit = 2
    StopWhenIdle = FALSE
    Commands = {"Pause", "Resume", "Stop"}
    MaxCommands = 1
    MaxCrashes = 1
    Faults = {"timeout", "panic", "ready", "drop"}
SYMMETRY Symmetry
INVARIANTS TypeOK InFlightExact OneExecution NoOrphanLease AttemptBound DrainedExit OneFate
PROPERTIES LifecycleSpec NoRegress
CHECK_DEADLOCK FALSE
