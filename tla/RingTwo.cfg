SPECIFICATION Spec
CONSTANTS
    Buffer = {b1, b2}
    ByteMod = 2
    Junk = Junk
    NoMemory = NoMemory
    Width = 2
    Size = {2}
SYMMETRY Symmetry
PROPERTY ImplementsByteQueue
