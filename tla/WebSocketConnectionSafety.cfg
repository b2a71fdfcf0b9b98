SPECIFICATION Spec
CONSTANTS
    MaxSend <- TwoFromServer
    MaxSignals = 2
    Window = 2
    ResetAt = {"client", "server"}
    CrashAt = {"client", "server"}
INVARIANTS
    TypeOK
    NothingAfterClose
    DeliveredInOrder
    ClosedMeansAllReceived
PROPERTY ImplementsChannel
CHECK_DEADLOCK FALSE
