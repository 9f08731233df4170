SPECIFICATION Spec
CONSTANTS
    Positions = {1, 2}
    Lengths = {0, 1, 2, 4, 9}
    MaxInt = 3
    Unavailable = Unavailable
CHECK_DEADLOCK FALSE
INVARIANT
    CopiesAreWhole
