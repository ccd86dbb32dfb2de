\* One file on a small disk.
SPECIFICATION Spec
CONSTANTS
    Names = {a}
    MapSize = 6
    Reserved = 2
    Direct = 1
    PerSector = 2
    MaxLength = 3
PROPERTY MapSurvives
