SPECIFICATION Spec
CONSTANTS
    Operands = {0, 1, 9, 15, 16, 25, 49, 50, 99, 127, 128, 153, 154, 240, 255}
    WideOperands = {0, 1, 4095, 4096, 32767, 32768, 36863, 65535}
    Longs = {0, 1, 255, 65535, 8348360, 16711681, 16777215}
    Spans = {1, 2, 3, 5}
    Depths = {1, 2, 5}
INVARIANTS
    ProgramsExact
    IndexedLikeHL
CHECK_DEADLOCK FALSE
