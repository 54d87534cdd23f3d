SPECIFICATION Spec
CONSTANTS
    u1 = u1
    u2 = u2
    r1 = r1
    r2 = r2
    w1 = w1
    w2 = w2
    NoRequest = NoRequest
    Urls <- MCUrls
    Requests <- MCRequests
    Workers <- MCWorkers
    OldTables <- MCOldTables
    SizeOf <- MCSizeOf
    MaxAges <- MCMaxAges
    Bounds <- MCBounds
    MemSize = 1
    MemMaxBody = 3
    MemTTL = 1
    DiskSize = 2
    DiskMaxBody = 3
    DiskTTL = 1
INVARIANTS
    CacheTypeOK
    DiskWithinLimit
    ServedWithinLifetime
    ConfirmedIsCurrent
PROPERTIES
    RequestEnds
CHECK_DEADLOCK FALSE
