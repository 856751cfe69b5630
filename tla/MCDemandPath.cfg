SPECIFICATION DemandFairSpec
CONSTANTS
    p1 = p1
    p2 = p2
    t1 = t1
    t2 = t2
    v1 = v1
    Pages = {p1, p2}
    Threads = {t1, t2}
    Values = {v1}
    VramUsable = 1
    HostUsable = 1
    NvmeExtents = 2
    Pinnable = {p1}
    Faults = {"deviceAlloc", "dropFree"}
    Garbage = Garbage
    Null = Null
    NoPage = NoPage
    NoThread = NoThread
    NoSum = NoSum
    MaxAttempts = 2
    MaxRounds = 2
    Scenarios <- Contention
INVARIANTS
    LoneJobProgresses
PROPERTIES
    ImplementsResidency
    JobsEnd
