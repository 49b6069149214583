SPECIFICATION FairSpec
CONSTANTS
    Worker = {w1, w2}
    Acceptor = Acceptor
    Session = {s1}
    NoSession = NoSession
    Free = Free
    Capacity = 2
    SidMod = 1
    MaxBytes = 2
    Failures = {"io", "post"}
PROPERTIES
    EchoComplete
    EndedFreed
    ShutdownEnds
