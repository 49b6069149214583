SPECIFICATION Spec
CONSTANTS
    Worker = {w1, w2}
    Acceptor = Acceptor
    Session = {s1, s2}
    NoSession = NoSession
    Free = Free
    Capacity = 2
    SidMod = 1
    MaxBytes = 1
    Failures = {}
SYMMETRY Symmetry
INVARIANTS
    MapMatches
