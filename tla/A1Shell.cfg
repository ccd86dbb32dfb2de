\* Two entries for three variables, and scripts nested three deep.
SPECIFICATION Spec
CONSTANTS
    Names = {"x", "y", "z"}
    Values = {"p", "q"}
    Slots = 2
    Files <- SomeFiles
    Script <- SomeScripts
    Typed <- SomeTyped
    MaxFiles = 3
    MaxDepth = 1
INVARIANTS TypeOK Ends99
PROPERTIES PromptReturns ImplementsMap
\* The shell may be quit.
CHECK_DEADLOCK FALSE
