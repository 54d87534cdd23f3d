SPECIFICATION Spec
CONSTANTS
    p1 = p1
    p2 = p2
    c1 = c1
    c2 = c2
    named = named
    Proxies <- MCProxies
    Pools <- MCPools
    AnyPool = AnyPool
    ConfigTags <- MCConfigTags
    NoProxy = NoProxy
    ChunkProxy = TRUE
    Threshold = 1
    MaxStrike = 2
    ChunkTasks <- MCChunks
    ChunkRetries = 2
    RetryBudget = 1
    HeadTasks <- MCHeads
    HeadRetries = 2
    WholeTasks <- MCWholes
    WholeRetries = 2
    Bounds <- MCBounds
INVARIANTS
    ProbeIsOut
