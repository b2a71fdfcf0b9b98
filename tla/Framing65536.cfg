SPECIFICATION Spec
CONSTANTS
    SenderRoles = {"client", "server"}
    Lengths = {125, 65536}
    MaxMessages = 2
INVARIANTS
    AllFramesAligned
CHECK_DEADLOCK FALSE
