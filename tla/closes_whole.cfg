SPECIFICATION Spec
CONSTANTS
    Panes = {p1,p2,p3}
    Windows = {w1,w2}
    Sessions = {s1,s2}
    None = None
    MaxNow = 2
    MaxInc = 1
    Acts = {"split","open","exit","killw","kills","kill","join","move"}
    LaterActs = {"split","exit"}
    Second = 1
    Day = 9
    Week = 9
    DedupWindow = 1
    OuterScan = 5
    InnerScan = 50
    SnapshotScan = 100
    UndoScan = 50
    SnapshotKeep = 1
    CloseKeep = 9
    MaxSteps = 8
    Prunes = TRUE
SYMMETRY MCSymmetry
INVARIANT TypeOK
INVARIANT OneRowPerClosure
INVARIANT OnlyClosedPanesListed
INVARIANT EliminatedOnce
INVARIANT OwnServersEntity
INVARIANT DiscardedIdsUnsaved
PROPERTY RetractedStillHeld
CHECK_DEADLOCK FALSE
