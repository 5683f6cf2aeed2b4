CONSTANTS
    Threads = {t1}
    Callers = {}
    Futures = {}
    Wakers = {}
    Outcomes = {o1}
    Completer = completer
    Null = null
SPECIFICATION FairSpec
CHECK_DEADLOCK FALSE
INVARIANT TimeoutBeforePublication
