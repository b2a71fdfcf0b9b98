SPECIFICATION Spec
CONSTANTS
    MaxCalls = 3
    MaxBroadcasts = 1
INVARIANT
    TypeOK
    AnswersInOrder
    AtMostOnce
    SuccessMeansDone
\* The link may be gone, and the calls are used up.
CHECK_DEADLOCK FALSE
