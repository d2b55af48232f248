CONSTANTS
    a = a
    b = b
    p = p
    q = q
    Calls <- MCNoCalls
    Tokens <- MCOneClient
    Ports <- MCOnePort
    Sockets <- MCTwoSockets
    MaxClientId = 1
    MaxServerSends = 0
    MaxClientSends = 0
    MaxPublishes = 0
    MaxTicks = 2
SPECIFICATION Spec
INVARIANT
    AppliesNewestState
CHECK_DEADLOCK FALSE
