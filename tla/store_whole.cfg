SPECIFICATION Spec
CONSTANTS
    p1 = p1
    p2 = p2
    l1 = l1
    l2 = l2
    k1 = k1
    k2 = k2
    s1 = s1
    s2 = s2
    Procs = {p1, p2}
    NoProc = NoProc
    Lanes = {l1, l2}
    LaneOf <- MCLaneOf
    Panes = {k1, k2}
    Shas = {s1, s2}
    NoSha = NoSha
    MaxEvents = 3
    SnapshotKeep = 1
    CloseKeep = 1
    FaultyOps = {"save", "capture", "undo", "prune", "gc"}
SYMMETRY MCSymmetry
INVARIANT TypeOK
INVARIANT RefcountExact
INVARIANT ReferentialIntegrity
INVARIANT NamesPinned
INVARIANT LinkedBlobOnDisk
