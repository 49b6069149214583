SPECIFICATION Spec
CONSTANTS
    Path = {p1, p2}
    NoPath = NoPath
    Handle = {h1, h2}
    NoHandle = NoHandle
    BUFFER_SIZE = 3
    MAX_LINE_LENGTH = 3
    UsedLevel = {1, 4}
    TextLength = {1, 3}
    MaxLines = 2
    Failures = {"memory", "path", "write", "flush"}
SYMMETRY Symmetry
INVARIANTS
    TypeOK
    HandlesMatch
    OrderKept
    NothingLost
    LinesWhole
