SPECIFICATION Spec
CONSTANTS
    Fns = {"keyboard"}
    Keys = {k1}
    None = None
    Idle = Idle
    HasNet = TRUE
    AdminOps = {"hid", "relay"}
    Ends = {"kill", "shutdown"}
INVARIANTS IInv OwedIsHeld
PROPERTIES NothingAfterClosed
