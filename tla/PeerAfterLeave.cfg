CONSTANTS
    Self = 1
    Others <- MCOneOther
    NetIds <- MCTwoIds
    MaxEntities = 1
    UseAfterLeave = TRUE
SPECIFICATION Spec
INVARIANT
    NoListenerLeft
CHECK_DEADLOCK FALSE
