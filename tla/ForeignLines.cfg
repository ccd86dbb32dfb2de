SPECIFICATION Spec
CONSTANTS
    FrameStore = 12
    HighValue = 9999
    Programs <- MCPrograms
    Openers = {"six", "seven"}
    Commands = {"exec", "run"}
    MaxPid = 4
INVARIANT OwnLinesInOrder
CHECK_DEADLOCK FALSE
