SPECIFICATION Spec
CONSTANTS
    cl = cl
    cm = cm
    Clients = {cl, cm}
    Servers = {}
    SynAttempts = 2
    CloseAttempts = 2
    CardFaults = TRUE
    PeerBreaks = TRUE
    EarlySend = FALSE
    None = None
SYMMETRY ClientSymmetry
PROPERTIES
    OtherChannelKept
CHECK_DEADLOCK FALSE
