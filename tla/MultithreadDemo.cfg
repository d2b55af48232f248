SPECIFICATION FairSpec
CONSTANTS
    MaxSteps = 2
    MaxTime = 2
    ScancodeCount = 512
    ArraySize = 512
    Gravity = 49
    RunSpeed = 1200
    JumpSpeed = 1800
    SpawnAt <- MCSpawnAt
    Bottom = 194400
    PlayerSize <- MCPlayerSize
    FloorAt <- MCFloorAt
    FloorSize <- MCFloorSize
    PlatformAt <- MCPlatformAt
    PlatformSize <- MCPlatformSize
    Swing <- MCSwing
    QueueCapacity = 1
    Holds <- MCHolds
    MaxPolls = 3
CHECK_DEADLOCK FALSE
INVARIANTS
    EveryTickReported
    StandsOnBlocks
PROPERTIES
    OnePressOneJump
    PausedStandsStill
    DemoEnds
