SPECIFICATION Spec
CONSTANTS
    Touches = {t1, t2, t3, t4}
    Points = {p, q}
    Buttons = {0, 3}
    WheelDeltas <- HalfSteps
    Devices <- OneDevice
    MULTITOUCH_TIMEOUT = 1
    TAP_TIMEOUT = 2
SYMMETRY Symmetry
INVARIANTS
    GestureBookkeeping
    ServerButtonsReal
    PointerCatchesUp
PROPERTIES
    HeldGestureEnds
CHECK_DEADLOCK FALSE
