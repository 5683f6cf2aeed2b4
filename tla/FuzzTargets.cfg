CONSTANTS
    Keys = {k1, k2}
    Owners = {k1, k2}
    Handles = {h1, h2, h3}
    Slots = {s1, s2, s3}
    Null = null
    PoolCap = 1
    MaxGen = 9
    MaxBirths = 3
    DropPanics = FALSE
    KeyPanics = FALSE
SPECIFICATION FuzzSpec
SYMMETRY Symmetry
CHECK_DEADLOCK FALSE
INVARIANTS
    TryGetOracle
    IntoOutcomeOracle
    WakerOracle
    DropOracle
    ShadowInv
