SPECIFICATION FairSpec
CONSTANTS
    Capacity <- MCCapacity
    RegenSeconds <- MCRegenSeconds
    IdleMultiplier <- MCIdleMultiplier
    StartFull = TRUE
    Total = 5
    WarmChunks = 1
INVARIANTS
    TypeOK
    PacingBound
PROPERTIES
    EmptyBucketRefills
