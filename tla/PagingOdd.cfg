\* Scripts of every shape and four frames.
SPECIFICATION Spec
CONSTANTS
    FrameStore = 12
    VarStore = 3
    VarNames <- ThreeNames
    VarValues = {1}
    Scripts <- OddScripts
    MaxPid = 3
PROPERTIES StaysDefined VariablesKept
\* The shell may exit(99), and PID_counter is bounded.
CHECK_DEADLOCK FALSE
