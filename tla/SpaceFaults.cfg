CONSTANTS
    Keys = {k1, k2}
    Owners = {c1, c2}
    Handles = {h1, h2}
    Slots = {s1, s2}
    Null = null
    PoolCap = 1
    MaxGen = 2
    MaxBirths = 2
    DropPanics = TRUE
    KeyPanics = TRUE
SPECIFICATION Spec
SYMMETRY Symmetry
CHECK_DEADLOCK FALSE
INVARIANTS
    Inv
    NoUseAfterDrop
    EntryOfSubject
PROPERTIES
    ImplementsNamespace
