SPECIFICATION StrategySpec
CONSTANTS
    Pools <- SomePools
    MarketFee = 2
    Liquidity = 600
    Strategies <- AllStrategies
    Predictions <- SomeAnswers
    Joint = {20, 90}
    TinyBet = 40
    OthersBet = 150
    MaxRuns = 3
    MaxOthers = 1
INVARIANT MaxIsEnough
 
PROPERTY CapIsBest
PROPERTY NoChurn
CHECK_DEADLOCK FALSE
