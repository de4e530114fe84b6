SPECIFICATION Spec
CONSTANTS
    Buffers = {b1, b2}
    Callers = {e1}
    None = None
    Kinds = {"cropped"}
    SlowWork = FALSE
    MaxErrors = 2
    MaxCaptures = 1
    MaxPictures = 2
CHECK_DEADLOCK FALSE
INVARIANTS EncodesMapped
