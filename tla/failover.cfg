CONSTANTS
    Servers = {s1, s2}
    Main = s1
    Clients = {c1, c2}
    Keys = {k1}
    MaxCalls = 3
    MaxEvents = 2
SPECIFICATION LiveSpec
INVARIANTS CopiesAgree QuietSwitchIsSafe
PROPERTY CallsReturn
\* every client may have made its calls, every server may be gone
CHECK_DEADLOCK FALSE
