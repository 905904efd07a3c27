CONSTANTS
    Nobody = Nobody
    SyncCallers = {t1}
    AsyncCallers = {a1}
    MaxCalls = 2
    MaxErrors = 1
    MaxAges = {1, Forever}
    Forever = Forever
    Second = 2
    MaxTime = 3
SPECIFICATION Spec
INVARIANTS SavedIsServed
CHECK_DEADLOCK FALSE
