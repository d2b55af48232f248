CONSTANTS
    Subsystems = 1
    MaxSteps = 1
    Keyboards <- MCOneKeyboard
    Tasks <- MCToggleAndThrow
    Throws <- MCAllThreads
    MaxTime = 2
    MaxPosts = 2
    MaxStarts = 2
SPECIFICATION FairSpec
INVARIANTS
    OwnerRunsAlone
    PausedMeansQuiet
    FrameIsCurrent
PROPERTIES
    TicksNeverRepeat
    OwnerReturns
    FailureStopsAll
    TasksRun
