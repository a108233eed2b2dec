CONSTANTS
    Base = 8
    HdrLen = 2
    MinLen = 4
    MaxLen = 6
    SBSIZE = 7
    VER = 1
    Bodies <- Good
    MaxSends = 2
    Pipelined = TRUE
    MemFaults = FALSE
SPECIFICATION Spec
INVARIANT ParsedInOrder
