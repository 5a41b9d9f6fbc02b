SPECIFICATION Spec
CONSTANTS
    Channels = {0, 1}
    MSS = 2
    MaxSegments = 2
    AckEvery = 2
    StreamLen = 3
    Capacities = {1, 4}
    Hiding = FALSE
    PeerBreaks = TRUE
    PeerObeys = FALSE
    CardFaults = FALSE
    OtherCalls = TRUE
INVARIANTS
    StreamKept
    ShutWindowReopens
    EndAfterTheStream
CHECK_DEADLOCK FALSE
