SPECIFICATION MSpec
CONSTANTS
    Positions = {1, 2}
    Lengths = {0, 1, 2, 9}
    MaxInt = 3
    Unavailable = Unavailable
    maxListLen = 3
    maxObjects = 2
    Counts = {0, 1, 2, 3, 4, 5}
    maxFound = 6
    ByteValues = 2
    UintSize = 4
    nil = nil
    Values <- SmallValues
    Templates <- SmallTemplates
    Headers <- SmallHeaders
CHECK_DEADLOCK FALSE
INVARIANTS
    BuffersScrubbed
    ValuesComplete
    NilIsExplained
    ErrorTellsHidden
    ListIsWhole
    PanicOnlyOnOverclaim
    NumbersSurvive
    MarkerIsRecognised
    DefaultsFillGaps
    NamesAreCurrent
PROPERTY
    SearchEnds
