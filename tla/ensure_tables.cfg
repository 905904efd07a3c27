CONSTANTS
    Nobody = Nobody
    SyncCallers = {t1, t2}
    AsyncCallers = {a1}
    MaxCalls = 2
    MaxErrors = 1
SPECIFICATION EnsureSpec
INVARIANTS TablesBeforeUse OneKindCreatesOnce
PROPERTY EveryCallEnds
CHECK_DEADLOCK FALSE
