SPECIFICATION Spec
CONSTANTS
    MSS = 2
    Word = 90
    BodyLen = 17
    Targets = {2, 3, 6}
    Capacities = {4, 13}
    Delays = {0, 9}
    LossReach = 7
    LossSets <- FewLosses
    Twice = {FALSE, TRUE}
    Damaged = {FALSE, TRUE}
    Pages = {FALSE, TRUE}
INVARIANTS
    TypeOK
    StreamIntact
    OneResendPerLoss
    HoleWindowFixed
    BurstFitsCard
PROPERTIES
    EdgeNeverMovesLeft
    Arrives
CHECK_DEADLOCK FALSE
