SPECIFICATION Spec
CONSTANTS
    MSS = 2
    Lengths = {1, 3}
    Windows = {1, 3}
    Slices = {0}
    Attempts = 2
    WaitMs = 1
    ProbeMax = 2
    MaxCalls = 2
    MaxSeq = 4
    PeerCloses = TRUE
    PeerResets = TRUE
    TxFaults = TRUE
    Interrupts = FALSE
INVARIANTS
    ConfirmedReachedPeer
    AmbiguousStreamIsLatched
    WaitStartsWithoutEvents
PROPERTIES
    KeepsContract
CHECK_DEADLOCK FALSE
