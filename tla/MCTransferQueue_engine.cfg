SPECIFICATION FairSpec
CONSTANTS
    Callers = {c1, c2}
    Prefetchers = {c1}
    Workers = {w1, w2}
    Pages = {p1, p2}
    QueueDepth = 1
    PrefetchDepth = 1
    MaxStarts = 2
    NoCaller = NoCaller
    NoRequest = NoRequest
    NoPage = NoPage
    c1 = c1
    c2 = c2
    w1 = w1
    w2 = w2
    p1 = p1
    p2 = p2
INVARIANTS
    TypeOK
    DemandHeldOnce
    PrefetchDeduplicated
    StoppedStaysEmpty
PROPERTIES
    ShutdownCompletes
    DemandAnsweredUnlessFull
