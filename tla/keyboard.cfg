SPECIFICATION Spec
CONSTANTS
    Platforms = {"windows", "mac", "other"}
    KeysOf <- Keys
    MaxLeds = 1
INVARIANTS
    HeldKnown
    TracksFingers
    AwayHoldsNothing
PROPERTIES
    LockSynced
CHECK_DEADLOCK FALSE
