SPECIFICATION Spec
CONSTANTS
    Id = {i1, i2}
    SECTION_SIZE = 2
    SECTION_X_COUNT = 4
    SECTION_Y_COUNT = 3
    START_HP = 1
    TOLERANCE = 1
    STEP_X = 2
    STEP_Y = 1
    Attacks <- NoAttack
    Spawn <- West
    Directions = {1, 5, 8}
    Reports <- Corner
    NotShown = NotShown
    Underway = Underway
SYMMETRY Symmetry
INVARIANTS
    ViewExact
