SPECIFICATION Spec
CONSTANTS
    p1 = p1
    p2 = p2
    p3 = p3
    t1 = t1
    t2 = t2
    v1 = v1
    Pages = {p1, p2, p3}
    Threads = {t1, t2}
    Values = {v1}
    VramUsable = 1
    HostUsable = 1
    NvmeExtents = 2
    Pinnable = {}
    Faults <- NoFaults
    Garbage = Garbage
    Null = Null
    NoPage = NoPage
    NoThread = NoThread
    NoSum = NoSum
SYMMETRY Symmetry
INVARIANTS
    ClaimsExclusive
    OneAuthoritativeCopy
    NoLostWrite
    StoreCopyValid
    ExtentsExclusive
    BudgetsExact
PROPERTIES
    TransitionsLegal
