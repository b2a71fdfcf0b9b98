SPECIFICATION FairSpec
CONSTANTS
    Process = {p1, p2}
    Topics = {t1, t2}
    Addresses = {a1, a2}
    NoTopic = NoTopic
    NoProcess = NoProcess
    NoAddress = NoAddress
    Roles = {"hub", "link", "both"}
    MaxRestarts = 1
    MaxRemovals = 0
PROPERTY CreateReturns
CHECK_DEADLOCK FALSE
