SPECIFICATION Spec
CONSTANTS
    SenderRoles = {"client", "server"}
    Lengths = {0, 1, 125, 126, 255, 256, 65535, 65537, 131071, 131073}
    MaxMessages = 2
INVARIANTS
    TypeOK
    FramesAligned
CHECK_DEADLOCK FALSE
