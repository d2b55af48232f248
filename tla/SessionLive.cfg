CONSTANTS
    a = a
    b = b
    p = p
    q = q
    Calls <- MCLiveCalls
    Tokens <- MCOneClient
    Ports <- MCOnePort
    Sockets <- MCTwoSockets
    MaxClientId = 1
    MaxServerSends = 1
    MaxClientSends = 1
    MaxPublishes = 0
    MaxTicks = 2
SPECIFICATION FairSpec
PROPERTIES
    MessagesArrive
    NewestStateArrives
    LeaveReturns
CHECK_DEADLOCK FALSE
