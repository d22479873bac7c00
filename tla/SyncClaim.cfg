\* Two users and the scheduler; the clock can pass the TTL once.
SPECIFICATION ClaimSpec
CONSTANTS
    Requests = {m1, m2, a1}
    Manual = {m1, m2}
    Null = Null
    TTL = 1
    MaxClock = 2
    Deliveries = {d1, d2}
INVARIANTS
    OneEventPerSaga
    OwnManualHeard
    ClaimHeldInFlight
CHECK_DEADLOCK FALSE
