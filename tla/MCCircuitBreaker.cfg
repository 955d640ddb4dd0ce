\* Calls shorter than the recovery time.
CONSTANTS
    Calls = {c1, c2, c3}
    Threshold = 2
    Recovery = 2
    Window = 2
    CallTimeout = 1
    MaxTime = 9
SPECIFICATION Spec
SYMMETRY CallSymmetry
INVARIANTS
    TypeOK
    NoLockout
    OpenAdmitsNothing
    FailuresBelowThreshold
    ProbeRunsAlone
PROPERTIES
    TripSpansWindow
    ImplementsBreaker
