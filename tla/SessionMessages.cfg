CONSTANTS
    a = a
    b = b
    p = p
    q = q
    Calls <- MCMessageCalls
    Tokens <- MCOneClient
    Ports <- MCOnePort
    Sockets <- MCTwoSockets
    MaxClientId = 1
    MaxServerSends = 2
    MaxClientSends = 2
    MaxPublishes = 0
    MaxTicks = 0
SPECIFICATION Spec
INVARIANTS
    NoMessageForgotten
PROPERTIES
    MessagesUseChannels
CHECK_DEADLOCK FALSE
