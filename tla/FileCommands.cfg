\* One name for commands and the name recover 0 uses.
SPECIFICATION Spec
CONSTANTS
    Names = {a}
    Recovered = r
    Texts <- ShortTexts
    Foreign <- Letters
    Sizes = {1}
    Offsets <- SomeOffsets
    MaxLength = 4
    MaxLeaks = 1
INVARIANTS HandlesAgree DefinedOtherwise EndsInNul AtTextEnd CopyIntact
\* Undefined behaviour ends the session.
CHECK_DEADLOCK FALSE
