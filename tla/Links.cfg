SPECIFICATION LinksLive
CONSTANTS
    Handles = {f1, f2}
    MaxFaults = 2
    MaxDue = 1
    Loops = {l1, l2}
    Resets = {r1}
    Settings = {g1, g2}
    MaxStill = 1
    NoLoop = NoLoop
CHECK_DEADLOCK FALSE
INVARIANTS LinksTypeOK StatusAgrees HandlesOwned RecoverySparesAnswering
PROPERTIES WedgedRestarts SettingsApplied ResetAnswered
