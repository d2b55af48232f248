SPECIFICATION FairSpec
CONSTANTS
    Callers = {c1, c2}
    Threads = {t1, t2}
    Pairings <- MCPairings
    Packets <- MCPackets
    MaxGenerations = 2
    Sender = 1
    Receiver = 2
    MaxEdits = 2
    MaxEntities = 2
    Publishers = {p1, p2}
    Listeners = {l1, l2}
    Prefix <- MCPrefix
    GamePublisher = p1
    QueueLimit = 2
    Topic <- MCTopic
    PulseTopic <- MCPulseTopic
    MaxPublished = 2
CHECK_DEADLOCK FALSE
INVARIANTS
    AnswersMatch
    OnlyWholePacketsDecode
    UpdatesAreWhole
PROPERTIES
    StopIsHeeded
    NothingOutlives
    CopiesMirror
