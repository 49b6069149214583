SPECIFICATION Spec
CONSTANTS
    Socket = {k1, k2, k3}
    NoSocket = NoSocket
    NoSid = NoSid
    MAX_SESSION = 2
    FD_SETSIZE = 1
    IDLE_TIMEOUT = 0
    RecvCapacity = 4
    SendCapacity = 2
    BodySize = {0, 2}
    Failures = {"memory", "call"}
SYMMETRY Symmetry
INVARIANTS
    TypeOK
    PoolExact
    TableMatches
    LookupsSucceed
    RoomToReceive
    NeverSendEmpty
PROPERTY ImplementsClientSessions
