CONSTANTS
    Procs = {p1, p2}
    Byte = 4
    Idents <- SomeIdents
    Keys <- SomeKeys
    MemFaults = TRUE
    MaxAdds = 3
SPECIFICATION Spec
SYMMETRY ProcPermutations
INVARIANTS AgreeOnServers NoDescriptorLost SelectsByOnesComplement
