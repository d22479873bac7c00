\* Two publishers, batches of two, entries that die after two failures.
SPECIFICATION FairSpec
CONSTANTS
    Entries = {e1, e2, e3}
    Workers = {w1, w2}
    None = None
    BatchSize = 2
    MaxAttempts = 2
    BackoffBase = 1
    BackoffCap = 3
    PurgeAfter = 1
    MaxFaults = 2
INVARIANTS
    CopiesAccounted
PROPERTIES
    EventuallySent
CHECK_DEADLOCK FALSE
