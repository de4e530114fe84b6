SPECIFICATION Spec
CONSTANTS
    Sessions = {s1, s2}
    Sizes = {z1}
    Holds = {}
    NoHold = NoHold
    None = None
    Talking = TRUE
    Spaced = FALSE
SYMMETRY ViewerSymmetry
CHECK_DEADLOCK FALSE
INVARIANTS TypeOK MicExclusive TapEnds
