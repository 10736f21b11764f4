SPECIFICATION Spec
CONSTANTS
    Minute = 2
    Day = 8
    WeekDays = 2
    Drifts <- MCDrifts
    Gaps = {2, 6}
    FirstTime = 5
    FirstPrice = 5
    Timeframes = {1, 2}
    Lengths = {2, 3}
    HtfMinutes = 2
    MaxBars = 5
INVARIANTS
    CandlesTellBars
    LinesOnScale
PROPERTY NoRepaint
CHECK_DEADLOCK FALSE
