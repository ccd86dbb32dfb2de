\* HighValue, 9999 in the code, is low enough to be passed by a session.
SPECIFICATION Spec
CONSTANTS
    FrameStore = 12
    HighValue = 18
    Programs <- MCPrograms
    Openers <- Names
    Commands = {"exec", "run", "pagepolicy"}
    MaxPid = 4
INVARIANTS TypeOK FreeTogether AbortsOnly
PROPERTIES EndsComplete EvictsNothingPending Terminates
CHECK_DEADLOCK FALSE
