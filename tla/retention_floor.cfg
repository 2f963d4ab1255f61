SPECIFICATION SpecB
CONSTANTS
    Second = 1
    Day = 3
    Week = 3
    MaxNow = 6
    MaxId = 5
    MaxInc = 1
    SnapshotKeep = 2
    Lookback = 2
    Span = 2
INVARIANT DailyFloorHolds
INVARIANT HistoryBounded
INVARIANT AdoptsNewestOwnScreen
CHECK_DEADLOCK FALSE
