SPECIFICATION PartsSpec
CONSTANTS
    Tasks = {t1, t2, t3}
    MaxRetries = 1
    Clients = {c1, c2, c3}
    MaxAbandons = 1
    Conns = {k1, k2}
    SitePaths <- MCPaths
    MaxRequests = 3
    Configs <- MCConfigs
    MaxPort = 5
    MaxGets = 9
    Limits = {2, 4}
    MaxInterval = 2
    Links <- MCLinks
    Domains <- MCDomains
    Middlewares <- MCMiddlewares
    RegexRules <- MCRules
    Radix = 2
    IdLength = 2
    KeyTags <- SmallTags
    KeyIds <- SmallIds
    MaxKeys = 2
SYMMETRY Symmetry
INVARIANTS RecordsTellFate OnlyFormattingBlocks SnapshotConsistent EveryProxyUsed FetchEndsInTime LinksSorted TagsApart
PROPERTIES MemoryLifecycle
CHECK_DEADLOCK FALSE
