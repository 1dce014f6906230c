CONSTANTS
    Tickets <- TwoTickets
    Native <- TwoTickets
    Ids = {"a1"}
    IdOf <- MCIdOf
    By <- MCBy
    Observers = {1}
    Decisions = {"leave", "allow"}
    Takes <- MCTakes
    Holds = {1}
    MaxTime = 0
    Stops = {1}
    Webs = {}
SPECIFICATION Spec
INVARIANTS OneCardPerId
PROPERTIES DropEnds
CHECK_DEADLOCK FALSE
