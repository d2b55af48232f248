CONSTANTS
    a = a
    b = b
    p = p
    q = q
    Calls <- MCRosterCalls
    Tokens <- MCTwoClients
    Ports <- MCTwoPorts
    Sockets <- MCOneSocket
    MaxClientId = 2
    MaxServerSends = 0
    MaxClientSends = 0
    MaxPublishes = 0
    MaxTicks = 0
SPECIFICATION Spec
INVARIANTS
    RosterViewIsPastRoster
    IdNamesOwnSlot
PROPERTIES
    OnlyLeaversLeave
CHECK_DEADLOCK FALSE
SYMMETRY MCSymmetry
