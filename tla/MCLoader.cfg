SPECIFICATION Spec
CONSTANTS
    m1 = m1
    m2 = m2
    m3 = m3
    Modules <- ThreeModules
    Versions = {30, 32, 40}
    NULL = NULL
SYMMETRY Symmetry
INVARIANTS
    HandlesBalanced
    OpenIsUsable
    V32Negotiated
