SPECIFICATION Spec
CONSTANTS
    Channels = {0, 1}
    MSS = 2
    MaxSegments = 2
    AckEvery = 2
    StreamLen = 3
    Capacities = {2, 3}
    Hiding = FALSE
    PeerBreaks = FALSE
    PeerObeys = TRUE
    CardFaults = FALSE
    OtherCalls = FALSE
PROPERTY
    StreamArrives
CHECK_DEADLOCK FALSE
