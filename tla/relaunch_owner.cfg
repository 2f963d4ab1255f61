SPECIFICATION Spec
CONSTANTS
    Pids = {p1,p2,p3}
    PanePid = pane
    InitPid = init
    Ids = {x}
    Hand = hand
    None = None
    MaxStart = 4
    MaxDeaths = 2
    MaxFaults = 1
SYMMETRY MCSymmetry
INVARIANT TypeOK
INVARIANT OwnerCoversAgent
PROPERTY LiveStampKept
PROPERTY GoneDropped
PROPERTY HandKept
CHECK_DEADLOCK FALSE
