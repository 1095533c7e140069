SPECIFICATION FairSpec
CONSTANTS
    Tasks = {t1, t2, e1}
    ExternalTasks = {e1}
    MaxRetries = 0
    ProducerBuffer = 1
    ResultBuffer = 1
    ControlBuffer = 1
    ConcurrencyLimit = 1
    StopWhenIdle = FALSE
    Commands = {"Pause", "Resume", "Stop"}
    MaxCommands = 2
    MaxCrashes = 0
    Faults = {"storage"}
PROPERTIES HeldBack StopTerminates PauseDrains BackpressureReleases
CHECK_DEADLOCK FALSE
