SPECIFICATION FairSpec
CONSTANTS
    Mirrors = {"m"}
    IgnoredNames = {"skip"}
    Current = "a"
    SnapshotLists <- MCSnapshotLists
    CloseLists <- MCCloseLists
    Running = {"a"}
    Shas = {"s1", "s2"}
    NoSha = "none"
    Lines <- MCLines
    Screens <- MCScreens
    MapRows = 1
    TextRows = 2
    WheelRows = 2
INVARIANT TypeOK
INVARIANT EnterRestoresShown
INVARIANT PointerTruth
INVARIANT FramesHold
PROPERTY OnlyTogglesUnsettle
PROPERTY CloseOffsetStays
PROPERTY PreviewsAnswered
CHECK_DEADLOCK FALSE
