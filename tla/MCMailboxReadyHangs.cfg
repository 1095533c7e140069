SPECIFICATION FairSpec
CONSTANTS
    Tasks = {t1, e1}
    ExternalTasks = {e1}
    MaxRetries = 1
    ProducerBuffer = 1
    ResultBuffer = 1
    ControlBuffer = 1
    ConcurrencyLimit = 1
    StopWhenIdle = FALSE
    Commands = {}
    MaxCommands = 0
    MaxCrashes = 0
    Faults = {"ready"}
PROPERTIES StopTerminates
CHECK_DEADLOCK FALSE
