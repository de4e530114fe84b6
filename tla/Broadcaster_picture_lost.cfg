SPECIFICATION Spec
CONSTANTS
    Sessions = {s1, s2}
    Sizes = {z1}
    Holds = {}
    NoHold = NoHold
    None = None
    Talking = FALSE
    Spaced = FALSE
CHECK_DEADLOCK FALSE
INVARIANTS PictureForViewers
