\* Two attempts, answers of up to three documents, the best two returned.
CONSTANTS
    Docs = {d1, d2, d3}
    MaxHits = 3
    TopK = 2
    RrfK = 10
    MaxAttempts = 2
SPECIFICATION Spec
\* The execution ends.
CHECK_DEADLOCK FALSE
INVARIANTS
    TypeOK
    PartialContext
    ContextLeavesNothing
    StragglersHaveFailedSibling
    FusionKeepsOrder
