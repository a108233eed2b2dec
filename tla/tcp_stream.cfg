CONSTANTS
    Base = 8
    HdrLen = 2
    MinLen = 4
    MaxLen = 6
    SBSIZE = 7
    VER = 1
    Bodies <- AllBodies
    MaxSends = 3
    Pipelined = FALSE
    MemFaults = TRUE
SPECIFICATION LiveSpec
INVARIANTS TypeOK ParsedInOrder RepliesMatch ReadsMakeProgress
PROPERTIES ClosedForCause EveryRequestAnswered
