CONSTANTS
    Tickets <- OneTicket
    Native <- OneTicket
    Ids = {"a1"}
    IdOf <- MCIdOf
    By <- MCBy
    Observers = {1}
    Decisions = {"leave", "allow", "deny"}
    Takes <- MCTakes
    Holds = {1}
    MaxTime = 1
    Stops = {}
    Webs = {"w"}
SPECIFICATION Spec
INVARIANTS CardsAreWatched HarnessTakesTheUsers
PROPERTIES SettledGoes AnswerIsLeft
CHECK_DEADLOCK FALSE
