SPECIFICATION FairSpec
CONSTANTS
    WindowIds = {w1, w2}
    NoWindow = NoWindow
    Details = {d1, d2}
    MinSaveInterval = 1
    Captures = FALSE
    MaxChanges = 3
    MaxRestarts = 0
    MaxCrashes = 1
PROPERTY StructureSavesAfterCrash
CHECK_DEADLOCK FALSE
