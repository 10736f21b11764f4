SPECIFICATION Spec
CONSTANTS
    Spread = 1
    Slippage = 1
    Scale = 20
    Fee = 0
    StartingCash = 800
    SizingFraction = 50
    MaxPosition = 33
    DailyLossLimit = 8
    MaxDrawdown = 25
    KillSwitch = FALSE
    MinPeriod = 1
    MinTrades = 1
    DrawdownCeiling = 2500
    SharpeFloor = TRUE
    Closes = {7, 12, 20, 30}
    History <- FlatHistory
    Fast = 1
    Slow = 2
    Lookback = 1
    Threshold = 0
    RsiLength = 2
    BarsPerDay = 2
    Endless = FALSE
    MaxTicks = 7
CHECK_DEADLOCK FALSE
INVARIANTS
    LedgerIsTheTruth
    NeverShortNeverOwing
    BacktestAgrees
    RecordShowsLedger
    ListedOnItsLedger
    TradesWithinLimits
PROPERTIES
    TradesCostEquity
