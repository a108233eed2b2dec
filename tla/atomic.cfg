CONSTANTS
    Clients = {c1, c2}
    Keys = {1, 2, 3}
    IntMod = 4
    Chains = {1}
    CHAINLEN = 2
    Backend = "tdb"
    MemFaults = FALSE
    DbFaults = FALSE
    MaxQueue = 2
    hash <- OneChain
    InitDbs <- EmptyDb
    Requests <- StoreRequests
SPECIFICATION LSpec
SYMMETRY ClientSymmetry
INVARIANTS ChainsWellFormed CacheCoherent QueueReplaysToStore
PROPERTY ImplementsAtomicStore
