SPECIFICATION PortfolioSpec
CONSTANTS
    Spread = 1
    Slippage = 1
    Scale = 20
    Fee = 0
    StartingCash = 2000
    SizingFraction = 40
    MaxPosition = 90
    DailyLossLimit = 20
    MaxDrawdown = 25
    KillSwitch = FALSE
    MinPeriod = 1
    MinTrades = 1
    DrawdownCeiling = 2500
    SharpeFloor = TRUE
    Fast = 1
    Slow = 2
    Lookback = 1
    Threshold = 10
    RsiLength = 2
    LegStrategy <- ThreeStrategies
    LegSymbol <- TwoSymbols
    Asked <- SomeWeights
    Capital = 1
    Closes = {9, 12, 16}
    Warmup <- FlatWarmup
    MaxBars = 4
CHECK_DEADLOCK FALSE
INVARIANTS
    BoundedByLegs
    OneEntryAtATime
