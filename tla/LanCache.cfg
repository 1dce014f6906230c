SPECIFICATION Spec
CONSTANTS
    Ids <- MCIds
    Values <- MCValues
    Nothing = Nothing
    Hour = 1
    Day = 1
    MaxTime = 2
    MaxVersions = 3
    MaxFrames = 1
INVARIANTS ChangesAreExact CursorsNameVersions NoLostWakeup
PROPERTY PhoneCatchesUp
CHECK_DEADLOCK FALSE
