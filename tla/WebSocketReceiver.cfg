SPECIFICATION Spec
CONSTANTS
    Role = "server"
    MaxLength = 4
    MaxControl = 3
    Frames <- MCFrames
    MaxFrames = 4
    MaxFaults = 1
INVARIANTS
    TypeOK
    WholeMessages
    DamageIsLocal
    PongsAnswerPings
PROPERTY JudgesFrames
CHECK_DEADLOCK FALSE
