SPECIFICATION Spec
CONSTANTS
    MSS = 1
    Lengths = {2}
    Windows = {0, 3}
    Slices = {0, 1, 3}
    Attempts = 2
    WaitMs = 2
    ProbeMax = 2
    MaxCalls = 1
    MaxSeq = 2
    PeerCloses = TRUE
    PeerResets = TRUE
    TxFaults = TRUE
    Interrupts = TRUE
INVARIANTS
    TypeOK
    OneSegmentInFlight
    GivesUpAfterTheLadder
PROPERTIES
    SlicedCallReturns
    BlockingSegmentEnds
CHECK_DEADLOCK FALSE
