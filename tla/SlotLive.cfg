CONSTANTS
    Threads = {t1}
    Callers = {}
    Futures = {f1}
    Wakers = {w1}
    Outcomes = {o1}
    Completer = completer
    Null = null
SPECIFICATION FairSpec
INVARIANTS
    NotifiedFindOutcome
    NoLostWakeup
    NoStaleRegistration
PROPERTIES
    WaitReturns
    WaitTimeoutReturns
    CompleteReturns
    AsyncReturns
