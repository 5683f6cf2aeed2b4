CONSTANTS
    Keys = {k1, k2, k3, k4, k5}
    INLINE_CAP = 4
    KeyPanics = TRUE
    MaxGen = 7
SPECIFICATION Spec
SYMMETRY Symmetry
CHECK_DEADLOCK FALSE
INVARIANTS
    OneEntryPerKey
    LookupFindsSubject
PROPERTIES
    ImplementsKeyTable
