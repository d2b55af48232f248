CONSTANTS
    Calls <- MCAllCalls
    Tokens <- MCTokens
    Ports <- MCPorts
    MaxClientId = 2
    MaxServerSends = 1
    MaxPublishes = 1
    UpdateRequests <- MCRequests
SPECIFICATION FairSpec
INVARIANTS
    EveryThreadHasOneOwner
    NoGhostEntities
    OneIdPerClient
PROPERTIES
    RosterIsKept
    StopReturns
    RetiredThreadsJoined
CONSTRAINT MCOneClientTalks
