\* Two events, one unreadable; two handlers.
SPECIFICATION FairSpec
CONSTANTS
    Events = {1, 2}
    Poison = {2}
    Workers = {w1, w2}
    MaxRetries = 1
    MaxCopies = 2
    MaxFaults = 3
INVARIANTS
    NothingLost
    AppliedOnce
PROPERTIES
    EventuallySettled
CHECK_DEADLOCK FALSE
