SPECIFICATION Spec
CONSTANTS
    strong = strong
    weak = weak
    Ids = {strong, weak}
    Policies <- AnyPolicy
    Digests <- UpToTwo
    Lengths = {0, 1, 2, 3, 4}
    CiphertextLen = 2
    MaxOutBuf = 3
    NoKey = NoKey
INVARIANTS
    PolicyHolds
    NoOrphanKey
    SuccessIsWhole
