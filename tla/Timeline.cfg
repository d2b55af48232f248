CONSTANTS
    Units = 2
    Rates <- MCRates
    Speeds <- MCSpeeds
    Scale = 24
    MaxCounter = 4
    MaxChanges = 3
SPECIFICATION Spec
INVARIANTS
    TimeIsKept
PROPERTIES
    NowNeverJumps
