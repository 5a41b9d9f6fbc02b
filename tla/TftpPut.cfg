SPECIFICATION Spec
CONSTANTS
    Modes = {"put"}
    Lengths = {1, 4}
    Answers = {"oack", "fallback", "badOack", "error", "silent"}
    Rooms = {3, 9}
    DefaultBlock = 1
    RequestBlock = 2
    FileCapacity = 3
    BlockModulus = 65536
    StateSends = 3
    MaxFaults = 2
    MaxNoise = 1
    Noisy = {"put"}
INVARIANTS
    OkMeansWhole
CHECK_DEADLOCK FALSE
