SPECIFICATION FairSpec
CONSTANTS
    session = h1
    maxActive = 2
    maxOutBuf = 3
    maxRetries = 3
    Lengths <- SmallLengths
INVARIANTS
    OutOpInv
    BufferScrubbed
    SuccessIsExecuted
    ResultsTellState
PROPERTIES
    OpsSpec
    MethodsReturn
