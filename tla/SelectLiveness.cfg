SPECIFICATION FairSpec
CONSTANTS
    Socket = {k1, k2}
    NoSocket = NoSocket
    NoSid = NoSid
    MAX_SESSION = 2
    FD_SETSIZE = 1
    IDLE_TIMEOUT = 0
    RecvCapacity = 2
    SendCapacity = 1
    BodySize = {0}
    Failures = {"call"}
PROPERTY DeadLeave
