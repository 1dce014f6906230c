CONSTANTS
    MaxRequests = 3
    MaxLaunches = 2
    Names = {a, b}
    Full = 2
    LastDay = 2
    MaxTime = 5
    MaxRevision = 2
    Words = {a, b}
    Brief = 0
    Lifetime = 1
    MaxNow = 3
    MaxLoads = 2
    Paths = {a, b}
    Lines = {"x", "y"}
    MaxSaves = 2
    MaxCalls = 2
    MaxChanges = 3
    Signs = {a, b}
    Local = TRUE
    Running = 2
    Quiet = 3
    MaxMinute = 2
    MaxFailed = 1
    MaxLines = 5
    FILL = 2
    NameLine = 2
    MayCrash = TRUE
    Tickets = {c1, c2}
    Holds = {1, 3}
    Safety = 2
SPECIFICATION MCSpec
SYMMETRY Alike
INVARIANTS
    TypeOK
    ToldIsKept
    ServedInTime
    WordsOnce
    ClientsSettingsStay
    DrawnIsSo
    ShownIsCurrent
    HolesAreNoted
    MissedAtMostSafety
    ExpiresOnTime
CHECK_DEADLOCK FALSE
