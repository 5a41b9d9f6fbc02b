SPECIFICATION Spec
CONSTANTS
    Modes = {"get", "put"}
    Lengths = {0, 1, 4, 5}
    Answers = {"oack", "fallback", "badOack", "error", "silent"}
    Rooms = {3, 9}
    DefaultBlock = 1
    RequestBlock = 2
    FileCapacity = 3
    BlockModulus = 65536
    StateSends = 3
    MaxFaults = 3
    MaxNoise = 2
    Noisy = {"get"}
INVARIANTS
    OkMeansWhole
    FailsForAReason
    CopiesDoNotBreed
PROPERTIES
    Ends
CHECK_DEADLOCK FALSE
