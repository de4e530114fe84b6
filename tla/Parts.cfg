SPECIFICATION PartsSpec
CONSTANTS
    Callers = {c1, c2}
    Watched = c1
    Calls = {"move", "click", "scroll", "down", "up"}
    PressSettle = 1
    ReleaseSettle = 1
    GlideRest = 1
    GlideSteps = 2
    Conns = {b1, b2}
    Timed = {b1}
    BiDiSessions = {d1, d2}
    Values = {"X", "left", "finger"}
    MaxHeld = 2
    NoSession = NoSession
    Recordings = {r1, r2}
    NoRec = NoRec
    Procs = {p1, p2}
    MaxBehind = 1
    MaxFrames = 4
    NoProc = NoProc
    Inputs = {i1, i2}
    Outputs = {o1, o2}
    Listeners = {l1}
    UsbFormat = fu
    HdmiFormats = {fh, fk}
    NoFormat = NoFormat
    Prefill = 2
    MaxQueue = 3
    StaleAfter = 1
    MaxDelay = 1
    MaxLooks = 13
    MaxLate = 3
    Rects <- CropRects
    NoRect = NoRect
    CropRequests = {q1, q2}
    NoFile = NoFile
SYMMETRY SessionSymmetry
VIEW PartsView
CHECK_DEADLOCK FALSE
INVARIANTS PartsTypeOK OwnGesturesSettle FingerTracksTouch InputAccounted SessionServed SamplesStamped
    BuffersKept DecodesAsTold TurnKnowsPhone CropKept
PROPERTIES KeepsRecordings HeardFresh OneFrameTurnsNothing
