SPECIFICATION FairSpec
CONSTANTS
    WindowIds = {w1, w2}
    NoWindow = NoWindow
    Details = {d1, d2}
    MinSaveInterval = 1
    Captures = TRUE
    MaxChanges = 2
    MaxRestarts = 1
    MaxCrashes = 1
INVARIANT TypeOK
PROPERTY StructureAlwaysSaves
PROPERTY EventuallyRecorded
PROPERTY SavesSettle
CHECK_DEADLOCK FALSE
