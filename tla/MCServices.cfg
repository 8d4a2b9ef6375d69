SPECIFICATION Spec
CONSTANTS
    VfClients = {c1, c2}
    NumTiles = 2
    MaxVfs = 2
    Memory = 2
    Conf <- MCConf
    VfCounts = {1, 2}
    LmemAsked = {0, 1}
    VfNobody = nobody
    Mixed = mixed
    DumpClients = {c1, c2}
    Workers = {w1, w2}
    Rates = {1, 2}
    FirstRate = 1
    MaxDumps = 2
    MaxSets = 2
    NoRate = 0
    DumpNobody = nobody
    Limits = {1, 2, 3}
    Throttle <- MCThrottle
    Shutdown <- MCShutdown
    Default <- MCDefault
    SmiMode = TRUE
    MaxModules = 2
    Readings = {0, 1, 3}
INVARIANTS
    VfsProvisioned
    RemoveClears
    DumpsAtConfiguredRate
    MemoryWorst
PROPERTY
    KeepsDumping
CHECK_DEADLOCK FALSE
