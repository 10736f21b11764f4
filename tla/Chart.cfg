SPECIFICATION FairSpec
CONSTANTS
    Minute = 2
    Feed <- MCFeed
    SnapshotBars = 1
    Ranges <- MCRanges
    SignalTimes <- MCSignalTimes
    Timeframes = {1, 2}
    Speeds = {1, 2}
    AllTime <- MCAllTime
    MaxMarkers = 1
    MaxPending = 2
    MaxClicks = 1
INVARIANTS
    ShowsItsSource
    DrawnIsCurrent
    TradesOnCandles
    LoadedPageStays
PROPERTY PlaybackEnds
CHECK_DEADLOCK FALSE
