SPECIFICATION Spec
CONSTANTS
    Sends = 2
    Arrivals = 2
    Slots = 2
    Depth = 2
    StaleMax = 2
    Attempts = 2
    FreeQuanta = 2
    Pending = 2
    Slow = {"SelectWindow", "TxReset", "Thresholds", "TxEnable", "RxDiscard"}
INVARIANTS
    SentAtMostOnce
    OkMeansSent
    TransmitterReady
    FramesWholeInOrder
PROPERTY
    CallReturns
CHECK_DEADLOCK FALSE
