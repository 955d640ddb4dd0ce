\* Ticks of one second; a backend that answers at once or in 5 s, where the
\* latencies first allow 3 s.
CONSTANTS
    Calls = {c1, c2}
    Latencies = {1, 5}
    Window = 3
    MinSamples = 2
    Percentile = 50
    DefaultP95 = 2
    MinTimeout = 2
    TotalBudget = 6
    ExpectedCalls = 2
    MaxTurnCalls = 3
    MaxIdle = 1
SPECIFICATION Spec
INVARIANTS
    TurnWithinBudget
    SharesKept
PROPERTIES
    AnswersResume
