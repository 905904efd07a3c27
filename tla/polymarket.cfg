SPECIFICATION AccountSpec
CONSTANTS
    m1 = m1
    m2 = m2
    Markets <- MCMarkets
    Events <- MCEvents
    Binary <- MCBinary
    Limit = 3
    ListLimit = 2
    ListCap = 8
    Earlier <- MCEarlier
    Reports <- MCReports
    Prices = {4}
    Amounts = {4, 12}
    Sales = {4}
    LargeAmount = 30
    MaxAttempts = 2
    Wallets <- MCWallets
    Capital = 26
    MinPol = 3
    MaxOrders = 2
    MaxDays = 2
CHECK_DEADLOCK FALSE
INVARIANTS
    OneBuyPerDay
    ProfitIsPaid
    Liquidated
PROPERTIES AllRedeemed
