CONSTANTS
    Calls = {c1, c2, c3}
    Threshold = 2
    Recovery = 1
    Window = 3
    CallTimeout = 3
    MaxTime = 5
SPECIFICATION Spec
INVARIANT SingleProbe
