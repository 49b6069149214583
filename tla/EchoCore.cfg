SPECIFICATION Spec
CONSTANTS
    Worker = {w1, w2}
    Acceptor = Acceptor
    Session = {s1}
    NoSession = NoSession
    Free = Free
    Capacity = 4
    SidMod = 1
    MaxBytes = 3
    Failures = {"start", "memory", "io", "post"}
SYMMETRY Symmetry
INVARIANTS
    TypeOK
    RefCount
    NoUseAfterFree
    ReapAlone
    NoOverlappedReuse
    WindowsSafe
    NoLostWakeup
    EchoInOrder
    MapMatches
    LifetimeInv
PROPERTIES
    ImplementsEchoService
