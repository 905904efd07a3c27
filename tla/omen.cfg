SPECIFICATION Spec
CONSTANTS
    Worth <- MCWorth
    Slippage <- MCSlippage
    Token <- MCToken
    Slots <- MCSlots
    Opening <- MCOpening
    Funds <- MCFunds
    OthersFunds <- MCOthersFunds
    Answers <- MCAnswers
    Balances <- MCBalances
    Contested = {"vault"}
    Fee = 2
    Stake = 120
    OtherBet = 50
    MaxCalls = 2
    MaxMoves = 1
    MaxFaults = 1
    MaxTime = 1
INVARIANTS
    DepositSuffices
    WithdrawsWhatItGot
    NoCompleteSetsLeft
    ProfitIsPaid
PROPERTY AllRedeemed
CHECK_DEADLOCK FALSE
