CONSTANTS
    TcpClients = {t1, t2}
    DgramClients = {u1, u2}
    Lossy = {u2}
    Fds = {1, 2}
    Addrs = {3, 4}
    MaxCalls = 2
    Parties = 2
SPECIFICATION LiveSpec
INVARIANTS TypeOK OnlyHeirsSeeStrangers CallsStayInStep
PROPERTIES CallsReturn DescriptorsComeBack
\* every client may be gone
CHECK_DEADLOCK FALSE
