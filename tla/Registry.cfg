CONSTANTS
    Threads = {t1, t2}
    Futures = {f1, f2}
    Wakers = {w1, w2}
    None = none
    MaxLen = 6
SPECIFICATION Spec
SYMMETRY Symmetry
CHECK_DEADLOCK FALSE
INVARIANTS
    OneEntryPerWaker
    FiresExactlyOnce
PROPERTIES
    VectorIsBox
