SPECIFICATION Spec
CONSTANTS
    Buffers = {b1, b2}
    Callers = {e1, e2}
    None = None
    Kinds = {"cropped"}
    SlowWork = TRUE
    MaxErrors = 2
    MaxCaptures = 2
    MaxPictures = 2
SYMMETRY Symmetry
VIEW View
CHECK_DEADLOCK FALSE
INVARIANTS BuffersAccounted PicturesIntact LoopPictureIntact LatestIsFresh
