CONSTANTS
    Keys = {k1}
    Owners = {c1, c2}
    Handles = {h1}
    Slots = {s1, s2, s3}
    Null = null
    PoolCap = 1
    MaxGen = 9
    MaxBirths = 2
    DropPanics = FALSE
    KeyPanics = FALSE
SPECIFICATION Spec
SYMMETRY Symmetry
CHECK_DEADLOCK FALSE
INVARIANTS
    RefusedOnlyByPeers
