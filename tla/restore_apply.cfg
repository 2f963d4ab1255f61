SPECIFICATION Spec
CONSTANTS
    Items <- MCItems
    LiveSets <- MCLiveSets
    Mirrors = {"m"}
    BaseIndex = 1
    Renumber = TRUE
    HasInsert = TRUE
    SkipIdle = TRUE
    SkipRunning = TRUE
    MaxFaults = 1
    MaxUserActs = 2
    MaxTries = 2
INVARIANT LandsInOwnWindow
INVARIANT OptionsOnOwnPane
INVARIANT Accounted
INVARIANT PoppedOnlyIfRestored
INVARIANT NotTwice
CHECK_DEADLOCK FALSE
