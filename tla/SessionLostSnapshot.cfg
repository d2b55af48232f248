CONSTANTS
    a = a
    b = b
    p = p
    q = q
    Calls <- MCNoCalls
    Tokens <- MCOneClient
    Ports <- MCOnePort
    Sockets <- MCTwoSockets
    MaxClientId = 1
    MaxServerSends = 0
    MaxClientSends = 0
    MaxPublishes = 1
    MaxTicks = 0
SPECIFICATION FairSpec
PROPERTY
    NewestSnapshotArrives
CHECK_DEADLOCK FALSE
