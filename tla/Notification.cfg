\* Two handlers at once, two requests on the feeds, one crash or deleted account.
SPECIFICATION NoticeSpec
CONSTANTS
    MaxRequests = 2
    MaxFaults = 1
    Accounts = {a1, a2}
    Owner <- MCOwner
    Events <- MCEvents
    NoticeWorkers = {w1, w2}
    a1 = a1
    a2 = a2
    u1 = u1
    u2 = u2
INVARIANTS
    NotifiedOnce
PROPERTIES
    GoneStaysGone
CHECK_DEADLOCK FALSE
