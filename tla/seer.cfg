SPECIFICATION Spec
CONSTANTS
    Worth <- MCWorth
    Slippage <- MCSlippage
    Parent <- MCParent
    InvalidWords = {"invalid", "invalid result"}
    Predictions = {3, 8}
    Names <- MCNames
    Template <- MCTemplate
    Class = {"categorical", "binary"}
    Opening <- MCOpening
    Payouts <- MCPayouts
    Created = {"plain", "child"}
    Contested = {"plain", "child"}
    Wanted <- MCWanted
    Odds = 2
    Stake = 120
    Balances <- MCBalances
    Since = 1
    Ttl = 1
    MaxCalls = 2
    MaxMoves = 1
    MaxFaults = 1
    MaxTime = 2
INVARIANT DepositSuffices
PROPERTIES LiquidLately AllRedeemed
CHECK_DEADLOCK FALSE
