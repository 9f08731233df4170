SPECIFICATION PSpec
CONSTANTS
    t1 = t1
    t2 = t2
    t3 = t3
    NoThread = NoThread
    Threads <- ThreeThreads
CHECK_DEADLOCK FALSE
INVARIANTS
    CloseMeansUnloaded
PROPERTIES
    CloseErrSettled
    OpenSettles
    CloseReturns
