CONSTANTS
    Threads = {t1, t2}
    MaxDepth = 2
SPECIFICATION Spec
SYMMETRY Symmetry
CHECK_DEADLOCK FALSE
INVARIANTS
    DeadlockOnlyUnderLock
