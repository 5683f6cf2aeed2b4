CONSTANTS
    Threads = {}
    Callers = {c1}
    Futures = {f1, f2}
    Wakers = {w1, w2}
    Outcomes = {o1}
    Completer = completer
    Null = null
SPECIFICATION Spec
SYMMETRY Symmetry
CONSTRAINT OneWakerWithCallers
INVARIANTS
    TypeOK
    Inv
    ReadsPublished
    RegistryUnique
    FutureWakersWoken
    DirectWakersWoken
    OwnersExact
    DropFindsOwner
PROPERTIES
    ImplementsCompletion
