\* One handler at a time, four job runs, crashes and redeliveries.
SPECIFICATION Spec
CONSTANTS
    s1 = s1
    s2 = s2
    x1 = x1
    x2 = x2
    Sagas = {s1, s2}
    Workers = {w1}
    None = None
    Blank = Blank
    CSV_MAX_BYTES = 10
    CSV_MAX_ROWS = 2
    MAX_TX_PAGES = 2
    Pages <- MCShort
    Uploads <- MCUploads
    ChunkSize = 2
    MaxRetries = 0
    MaxRuns = 4
INVARIANTS
    RollsBackOwnRows
    EachOnce
CHECK_DEADLOCK FALSE
