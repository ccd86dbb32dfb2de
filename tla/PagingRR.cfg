\* Three processes, six frames.
SPECIFICATION Spec
CONSTANTS
    FrameStore = 18
    VarStore = 2
    VarNames = {}
    VarValues = {1}
    Scripts <- PlainScripts
    MaxPid = 3
INVARIANTS RunsScripts FrameOwnership
PROPERTIES EvictsOnlyFinished Terminates
\* The shell may exit(99), and PID_counter is bounded.
CHECK_DEADLOCK FALSE
