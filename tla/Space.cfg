CONSTANTS
    Keys = {k1, k2}
    Owners = {c1, c2}
    Handles = {h1, h2}
    Slots = {s1, s2}
    Null = null
    PoolCap = 1
    MaxGen = 9
    MaxBirths = 3
    DropPanics = FALSE
    KeyPanics = FALSE
SPECIFICATION Spec
SYMMETRY Symmetry
INVARIANTS
    Inv
    Isolation
    PristineUntilComplete
    OutcomeEndsOnce
    NoCrossGenerationWake
    PoolSound
PROPERTIES
    AnswerIsFinal
    ImplementsNamespace
CHECK_DEADLOCK FALSE
