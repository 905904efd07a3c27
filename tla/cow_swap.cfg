CONSTANTS
    Modes = {"waiting", "fallback"}
    UsesSafe = {TRUE, FALSE}
    Period = 2
    MaxAttempts = 3
    MaxTime = 5
    MaxErrors = 1
SPECIFICATION Spec
INVARIANTS SwapsAccountedFor FallbackAfterExpiry
PROPERTY SwapEnds
CHECK_DEADLOCK FALSE
