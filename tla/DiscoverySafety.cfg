SPECIFICATION Spec
CONSTANTS
    Process = {p1, p2, p3}
    Topics = {t1, t2}
    Addresses = {a1, a2, a3}
    NoTopic = NoTopic
    NoProcess = NoProcess
    NoAddress = NoAddress
    Roles = {"hub", "link"}
    MaxRestarts = 1
    MaxRemovals = 1
INVARIANTS
    TypeOK
    CreatedHubIsListed
    LinkedToTopic
PROPERTY ImplementsTopicMap
SYMMETRY Symmetry
CHECK_DEADLOCK FALSE
