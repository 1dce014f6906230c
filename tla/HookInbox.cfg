CONSTANTS
    Reports <- AllReports
    Keys = {"account", "attention", "origin"}
    KeyOf <- MCKeyOf
    Locked = {"account"}
    Retention <- MCRetention
    MaxTime = 1
SPECIFICATION MCSpec
PROPERTIES AccountsNewest EvidenceNewest LatestIsSeen
CHECK_DEADLOCK FALSE
