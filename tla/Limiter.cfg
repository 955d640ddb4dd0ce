\* Stamps up to one tick old, and two calls at once.
CONSTANTS
    Capacity = 6
    Refill = 2
    Cost = 3
    IdleExpiry = 4
    Lag = 1
    MaxTime = 9
    MaxRegress = 2
    Calls = {c1, c2}
SPECIFICATION LimiterSpec
INVARIANTS
    TypeOK
    AdmissionAccounted
    RetryAfterExact
    OnlyFirstCallsRaise
