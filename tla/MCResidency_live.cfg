SPECIFICATION FairSpec
CONSTANTS
    p1 = p1
    p2 = p2
    t1 = t1
    t2 = t2
    v1 = v1
    Pages = {p1, p2}
    Threads = {t1, t2}
    Values = {v1}
    VramUsable = 1
    HostUsable = 1
    NvmeExtents = 1
    Pinnable = {p1}
    Faults <- TransferFaults
    Garbage = Garbage
    Null = Null
    NoPage = NoPage
    NoThread = NoThread
    NoSum = NoSum
PROPERTIES
    TransfersSettle
    HeadroomReleased
    ImplementsPageStore
