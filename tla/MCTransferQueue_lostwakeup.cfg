SPECIFICATION FairSpec
CONSTANTS
    c1 = c1
    c2 = c2
    w1 = w1
    p1 = p1
    Callers = {c1, c2}
    Prefetchers = {}
    Workers = {w1}
    Pages = {p1}
    QueueDepth = 1
    PrefetchDepth = 1
    MaxStarts = 1
    NoCaller = NoCaller
    NoRequest = NoRequest
    NoPage = NoPage
PROPERTIES
    DemandAnswered
