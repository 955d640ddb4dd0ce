CONSTANTS
    Calls = {c1, c2}
    Threshold = 2
    Recovery = 2
    Window = 2
    CallTimeout = 1
    MaxTime = 4
    MaxAttempts = 2
SPECIFICATION Spec
SYMMETRY CallSymmetry
INVARIANTS
    TypeOK
    WriteAtMostOnce
    SlotsMatch
PROPERTIES
    WritesNeedConsent
    FailuresAreExhausted
    Audited
    DrivesBreaker
