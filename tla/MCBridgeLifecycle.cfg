SPECIFICATION FairBridge
CONSTANTS
    Paths = {1, 2}
    Versions <- Releases
    Minimum <- LeastRelease
    MaxUpgrades = 1
INVARIANTS
    ReadinessIsTruthful
    LossIsAnswered
    CleanupReachesAll
    OnlyAdmittedStarts
PROPERTIES
    BridgeEnds
CONSTRAINT Installation
CHECK_DEADLOCK FALSE
