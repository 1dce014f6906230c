CONSTANTS
    Tickets <- MCTickets
    Ids <- MCIds
    IdOf <- MCIdOf
    Native = {}
    Decisions = {"leave", "allow"}
    Takes <- MCTakes
    Holds = {1, 2}
    MaxTime = 2
    ActiveLimit = 1
SPECIFICATION Spec
INVARIANTS NoOrphanCard OnlyTheUsersAnswer
PROPERTIES PromiseSpec EveryClientIsReleased StopEnds
CHECK_DEADLOCK FALSE
