CONSTANTS
    eoa = eoa
    safe = safe
    Senders <- BothSenders
    SafeSenders <- OneSafe
    MaxTries = 2
    MaxOuter <- EoaRetries
SPECIFICATION SendSpec
INVARIANTS NoSurpriseExecution OnePending
PROPERTIES KeepsPromise EveryCallEnds
CHECK_DEADLOCK FALSE
