SPECIFICATION Spec
CONSTANTS
    Fns = {"keyboard"}
    Keys = {k1}
    None = None
    Idle = Idle
    HasNet = TRUE
    AdminOps = {}
    Ends = {"shutdown"}
PROPERTIES ShutdownLetsGo
