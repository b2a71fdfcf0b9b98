SPECIFICATION Spec
CONSTANTS
    MaxSend <- One
    MaxSignals = 0
    Window = 1
    ResetAt = {"client"}
    CrashAt = {"server"}
INVARIANT DeliveredWasSent
CHECK_DEADLOCK FALSE
