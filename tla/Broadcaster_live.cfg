SPECIFICATION LiveSpec
CONSTANTS
    Sessions = {s1, s2}
    Sizes = {z1, z2}
    Holds = {h1}
    NoHold = NoHold
    None = None
    Talking = FALSE
    Spaced = TRUE
CHECK_DEADLOCK FALSE
INVARIANTS FollowsViewers
PROPERTIES TapKept ViewerStarts
