SPECIFICATION FairCrawl
CONSTANTS
    Tasks = {e1, t1, t2, t3}
    ExternalTasks = {e1}
    MaxRetries = 0
    ProducerBuffer = 1
    ResultBuffer = 2
    ControlBuffer = 1
    ConcurrencyLimit = 3
    StopWhenIdle = FALSE
    Commands = {"Stop"}
    MaxCommands = 1
    MaxCrashes = 0
    Faults = {"timeout"}
    StatsBuffer = 2
    Conns <- MCConns
    SitePaths <- MCPaths
    MaxRequests = 5
    Posts = 1
INVARIANTS StatsExact SeenIsPursued CrawledOnce
PROPERTIES CrawlCompletes
CHECK_DEADLOCK FALSE
