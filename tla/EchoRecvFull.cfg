SPECIFICATION Spec
CONSTANTS
    Worker = {w1}
    Acceptor = Acceptor
    Session = {s1}
    NoSession = NoSession
    Free = Free
    Capacity = 2
    SidMod = 1
    MaxBytes = 2
    Failures = {}
INVARIANTS
    NeverRecvFull
