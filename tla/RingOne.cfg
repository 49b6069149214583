SPECIFICATION Spec
CONSTANTS
    Buffer = {b1}
    ByteMod = 5
    Junk = Junk
    NoMemory = NoMemory
    Width = 3
    Size = {0, 3}
INVARIANTS
    TypeOK
    WithinCapacity
    DirectPartsUsable
PROPERTY ImplementsByteQueue
