SPECIFICATION LiveSpec
CONSTANTS
    Fns = {"keyboard"}
    Keys = {k1}
    None = None
    Idle = Idle
    HasNet = TRUE
    AdminOps = {}
    Ends = {"kill"}
PROPERTIES OwedLands PhoneConverges ReplugNoticed
