SPECIFICATION FairSpec
CONSTANTS
    Workers = {w1, w2}
    Clients = {c1}
    MaxAttempts = 2
    Second = 2
    WindowSeconds = 2
    MaxDelay = 2
    Faults = TRUE
INVARIANTS BurstBounded RefusedOnlyAfterUse RetryAfterHolds
PROPERTIES WindowEnds
