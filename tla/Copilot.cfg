\* A run ends: deadlock is not checked.
CONSTANTS
    MaxIterations = 4
    MaxReported = 2
SPECIFICATION Spec
INVARIANTS
    TypeOK
    CompletionBudget
    VerdictIsOfDraft
    ShortCircuitCallsNoTool
PROPERTY AnswerEnds
CHECK_DEADLOCK FALSE
