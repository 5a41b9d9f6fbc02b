SPECIFICATION Spec
CONSTANTS
    Channels = {0}
    MSS = 2
    MaxSegments = 3
    AckEvery = 2
    StreamLen = 5
    Capacities = {1, 3, 5}
    Hiding = TRUE
    PeerBreaks = TRUE
    PeerObeys = FALSE
    CardFaults = TRUE
    OtherCalls = TRUE
INVARIANTS
    TypeOK
    StreamKept
    DebtSettled
CHECK_DEADLOCK FALSE
