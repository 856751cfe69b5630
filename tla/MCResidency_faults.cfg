SPECIFICATION Spec
CONSTANTS
    p1 = p1
    p2 = p2
    t1 = t1
    t2 = t2
    v1 = v1
    v2 = v2
    Pages = {p1, p2}
    Threads = {t1, t2}
    Values = {v1, v2}
    VramUsable = 1
    HostUsable = 1
    NvmeExtents = 1
    Pinnable = {}
    Faults <- AllFaults
    Garbage = Garbage
    Null = Null
    NoPage = NoPage
    NoThread = NoThread
    NoSum = NoSum
SYMMETRY Symmetry
INVARIANTS
    Inductive
