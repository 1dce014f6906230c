CONSTANTS
    MaxLines = 5
    FILL = 2
    NameLine = 2
    MayCrash = FALSE
SPECIFICATION Spec
INVARIANT LacksAreReadAgain
CHECK_DEADLOCK FALSE
