CONSTANTS
    c1 = c1
    c2 = c2
    Callers <- TwoCallers
    Tasks <- SecondIsTask
    Interval = 2
    Timeout = 3
    Skew <- OneAhead
    MaxSkew = 1
    RowLocks = TRUE
    Prompt = FALSE
    MaxTime = 5
    MaxRequests = 2
    MaxErrors = 1
    NoRow = NoRow
    NoCaller = NoCaller
SPECIFICATION FairSpec
INVARIANT GrantSpacing
PROPERTIES ImplementsPacing EveryRequestEnds
CHECK_DEADLOCK FALSE
