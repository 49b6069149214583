SPECIFICATION Spec
CONSTANTS
    Id = {i1, i2, i3}
    SECTION_SIZE = 1
    SECTION_X_COUNT = 3
    SECTION_Y_COUNT = 1
    START_HP = 3
    TOLERANCE = 1
    STEP_X = 1
    STEP_Y = 1
    Attacks <- OneAttack
    Spawn <- Corner
    Directions = {0, 4}
    Reports <- Corner
    NotShown = NotShown
    Underway = Underway
SYMMETRY Symmetry
INVARIANTS
    TypeOK
    SectionsMatch
    ViewExact
    ViewAccurate
    StandsNear
    SlainLeave
