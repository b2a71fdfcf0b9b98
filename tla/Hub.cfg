\* Two clients, a window of one message each way.
SPECIFICATION FairSpec
CONSTANTS
    Client = {c1, c2}
    NoClient = none
    Window = 1
    MaxThrows = 1
    MaxFaults = 1
INVARIANTS
    TypeOK
    BroadcastReachesAll
PROPERTIES
    BroadcastOnce
    
    DeadLinksGo
    MessagesServed
CHECK_DEADLOCK FALSE
