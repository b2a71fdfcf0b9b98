SPECIFICATION FairSpec
CONSTANTS
    MaxSend <- One
    MaxSignals = 1
    Window = 1
    ResetAt = {"server"}
    CrashAt = {"client", "server"}
PROPERTIES
    CallReturns
    ServerNotices
CHECK_DEADLOCK FALSE
