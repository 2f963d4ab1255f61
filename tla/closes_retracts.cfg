SPECIFICATION Spec
CONSTANTS
    Panes = {p1,p2}
    Windows = {w1,w2}
    Sessions = {s1,s2}
    None = None
    MaxNow = 4
    MaxInc = 0
    Acts = {"open","exit"}
    LaterActs = {}
    Second = 1
    Day = 2
    Week = 2
    DedupWindow = 1
    OuterScan = 5
    InnerScan = 50
    SnapshotScan = 100
    UndoScan = 50
    SnapshotKeep = 1
    CloseKeep = 9
    MaxSteps = 8
    Prunes = FALSE
SYMMETRY MCSymmetry
PROPERTY RetractedRecreated
CHECK_DEADLOCK FALSE
