SPECIFICATION MCSpec
CONSTANTS
    Phones <- MCPhones
    Conns <- MCConns
    Cap = 2
    MaxClients = 1
    MaxGrants = 2
    MaxInvitations = 2
    MaxCalls = 1
    MaxLost = 1
INVARIANTS RevokedGetsNothing RevokedStayOut PairedOnce StreamsAreThere
CHECK_DEADLOCK FALSE
PROPERTY CallsReturn
