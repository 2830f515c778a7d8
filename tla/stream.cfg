SPECIFICATION Spec
CONSTANTS
    Encodings = {"raw", "copy", "rre", "hextile", "zlib", "zrle", "tight", "jpeg", "h264", "cursor", "vmcursor", "name", "screens", "led", "size", "keys", "buttons"}
    Messages = {"bell", "xvp", "fence", "cuttext", "endofcontinuous"}
    MaxRects = 2
    MaxMsgs = 2
INVARIANTS
    InOrder
    Aligned
    ArrivedIsHandled
    OneUpdateAsked
PROPERTIES
    FlushEnds
CHECK_DEADLOCK FALSE
