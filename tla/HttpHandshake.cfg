\* The limits are what librcom's own messages just need; a foreign message has
\* at most 14 characters, enough for a header.
SPECIFICATION Spec
CONSTANTS
    Nonces <- SomeNonces
    Foreign = {"GET", "HTTP/1.1", "101", "sp", "cr", "lf", "colon"}
    MaxChars = 14
    MaxWord = 1
    MaxCode = 1
    MaxReason = 3
    MaxUri = 1
    MaxName = 1
    MaxValue = 3
INVARIANTS
    TypeOK
    NothingMisread
    StopsAtBlankLine
    OwnHandshakeSucceeds
CHECK_DEADLOCK FALSE
