CONSTANTS
    Files = {TRUE, FALSE}
    PageSize = 1
    OffsetCap = 2
    Window = 1
    Second = 2
    None = None
    MaxTrades = 3
    MaxTime = 2
    MaxCrashes = 1
SPECIFICATION Spec
INVARIANTS ReplicatedOnce NoneMissed
PROPERTIES SavedIsFinal
CHECK_DEADLOCK FALSE
