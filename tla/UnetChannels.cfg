SPECIFICATION Spec
CONSTANTS
    sv = sv
    cl = cl
    Clients = {cl}
    Servers = {sv}
    SynAttempts = 2
    CloseAttempts = 2
    CardFaults = FALSE
    PeerBreaks = FALSE
    EarlySend = FALSE
    None = None
INVARIANTS
    TypeOK
    TableMatchesContexts
    OrderlyCloseAnswered
PROPERTIES
    SuspendedSendIsAlone
    CallComesBack
CHECK_DEADLOCK FALSE
