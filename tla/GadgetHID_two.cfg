SPECIFICATION Spec
CONSTANTS
    Fns = {"mouse", "touch"}
    Keys = {k1}
    None = None
    Idle = Idle
    HasNet = FALSE
    AdminOps = {}
    Ends = {"kill"}
INVARIANTS HeldWasAsked PhoneAccounted LeftoverReleased
PROPERTIES ResendPressesNothing
