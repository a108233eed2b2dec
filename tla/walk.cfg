CONSTANTS
    Clients = {w, c}
    Walker = w
    Keys = {1, 2, 3}
    IntMod = 2
    Chains = {1}
    CHAINLEN = 2
    Backend = "leveldb"
    MemFaults = TRUE
    DbFaults = FALSE
    MaxQueue = 2
    hash <- OneChain
    InitDbs <- AnyDb
    Requests <- WalkRequests
SPECIFICATION WLiveSpec
INVARIANT WalkMissesOnePerGap
PROPERTY EveryCallReturns
