CONSTANTS
    TcpClients = {t1, t2}
    DgramClients = {}
    Lossy = {}
    Fds = {1, 2}
    Addrs = {3}
    MaxCalls = 1
    Parties = 2
SPECIFICATION Spec
INVARIANT RepliesCorrespond
CHECK_DEADLOCK FALSE
