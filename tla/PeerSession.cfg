CONSTANTS
    Self = 1
    Others <- MCOneOther
    NetIds <- MCTwoIds
    MaxEntities = 3
    UseAfterLeave = FALSE
SPECIFICATION FairSpec
INVARIANTS
    MapsInverse
    NoGhosts
    PeersFollowRoster
    NoListenerLeft
PROPERTIES
    OwnEntitiesUntouched
    CallsReturn
CHECK_DEADLOCK FALSE
