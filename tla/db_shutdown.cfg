CONSTANTS
    Entries = {s1, a1}
    SyncEntries = {s1}
    Null = Null
    WaitFaults = FALSE
SPECIFICATION Spec
INVARIANT DrainedAtClose
