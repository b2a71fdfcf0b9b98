\* One looker that looks up three times from the same port, so that answers to
\* an earlier lookup are under way, and two registries, one after the other or
\* at once.
SPECIFICATION FairSpec
CONSTANTS
    Looker = {l1}
    Registry = {r1, r2}
    Port = {p1}
    None = none
    MaxTries = 2
    MaxLookups = 3
INVARIANTS
    TypeOK
    FoundWasRunning
    OneLateAnswer
PROPERTIES
    LookupEnds
    StopReturns
CHECK_DEADLOCK FALSE
