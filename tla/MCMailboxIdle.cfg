SPECIFICATION FairSpec
CONSTANTS
    Tasks = {t1, t2, e1}
    ExternalTasks = {e1}
    MaxRetries = 1
    ProducerBuffer = 1
    ResultBuffer = 1
    ControlBuffer = 1
    ConcurrencyLimit = 2
    StopWhenIdle = TRUE
    Commands = {}
    MaxCommands = 0
    MaxCrashes = 1
    Faults = {"timeout"}
INVARIANTS IdleStopComplete
PROPERTIES IdleStopTerminates EveryTaskSettled
CHECK_DEADLOCK FALSE
