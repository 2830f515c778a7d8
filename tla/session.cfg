SPECIFICATION WSpec
CONSTANTS
    Versions = {"repeater", "bad", "3.3", "3.8"}
    Schemes = {"none", "vnc", "ra2", "tight", "vencrypt", "xvp", "ard", "mslogon", "plain", "unsupported"}
    MaxMsgs = 1
    Sizes = {1, 2}
    MaxChanges = 2
INVARIANTS
    Announced
    EndedLetsGo
    ViewportInside
    InSync
PROPERTIES
    HandshakeSettles
CHECK_DEADLOCK FALSE
