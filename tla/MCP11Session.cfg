SPECIFICATION FairSpec
CONSTANTS
    t1 = t1
    t2 = t2
    s1 = s1
    s2 = s2
    h1 = h1
    h2 = h2
    Nobody = Nobody
    Stuck = Stuck
    Threads <- TwoThreads
    Sessions <- TwoSessions
    Handles <- TwoHandles
INVARIANTS
    OwnHandleOnly
    SearchesEnd
PROPERTIES
    IdealSpec
    GoroutinesReturn
