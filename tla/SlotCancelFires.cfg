CONSTANTS
    Threads = {}
    Callers = {}
    Futures = {f1}
    Wakers = {w1}
    Outcomes = {o1}
    Completer = completer
    Null = null
SPECIFICATION FairSpec
CHECK_DEADLOCK FALSE
PROPERTY CancelledNeverFires
