CONSTANTS
    Tickets <- MCTickets
    Ids <- MCIds
    IdOf <- MCIdOf
    Native = {}
    Decisions = {"leave"}
    Takes <- MCTakes
    Holds = {1, 3}
    Safety = 2
    MaxTime = 5
SPECIFICATION Spec
PROPERTIES UnchangedMeansUnchanged
CHECK_DEADLOCK FALSE
