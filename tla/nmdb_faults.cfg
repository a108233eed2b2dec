CONSTANTS
    Clients = {c1, c2}
    Keys = {1, 2, 3}
    IntMod = 2
    Chains = {1}
    CHAINLEN = 2
    Backend = "qdbm"
    MemFaults = TRUE
    DbFaults = TRUE
    MaxQueue = 2
    hash <- OneChain
    InitDbs <- EmptyDb
    Requests <- AllRequests
SPECIFICATION LSpec
VIEW FaultsView
SYMMETRY ClientSymmetry
INVARIANTS TypeOK OneReplyOwed OnlyAsyncFailsSilently
PROPERTY ReadOnlyIsFinal
