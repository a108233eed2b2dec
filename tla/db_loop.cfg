CONSTANTS
    Entries = {s1, s2, a1}
    SyncEntries = {s1, s2}
    Null = Null
    WaitFaults = TRUE
SPECIFICATION LiveSpec
INVARIANTS TypeOK MutexHeld QueueIntact ProcessedInOrder StuckLoopOwesNothing
PROPERTIES EveryEntryProcessed SyncEntryProcessed ShutdownCompletes
