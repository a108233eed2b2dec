CONSTANTS
    Keys = {k1, k2, k3, k4}
    Vals = {v1, v2}
    CHAINLEN = 3
    MemFaults = TRUE
    ksize <- OwnKeySizes
    vsize <- OwnValSizes
SPECIFICATION Spec
SYMMETRY Interchangeable
INVARIANTS TypeOK KeepsRecentSets LinksAgree
PROPERTY ImplementsList
\* the process dies where a malloc() failure is mishandled
CHECK_DEADLOCK FALSE
