\* One saga, two handlers at once, three job runs.
SPECIFICATION Spec
CONSTANTS
    s1 = s1
    s2 = s2
    x1 = x1
    x2 = x2
    Sagas = {s1}
    Workers = {w1, w2}
    None = None
    Blank = Blank
    CSV_MAX_BYTES = 10
    CSV_MAX_ROWS = 2
    MAX_TX_PAGES = 2
    Pages <- MCPages
    Uploads <- MCUploads
    ChunkSize = 1
    MaxRetries = 1
    MaxRuns = 3
SYMMETRY WorkerSymmetry
INVARIANTS
    DeletedOnce
    AcceptedRunUndone
CHECK_DEADLOCK FALSE
