SPECIFICATION Spec
CONSTANTS
    d1 = d1
    d2 = d2
    NoDoc = NoDoc
    Welcome = d1
    Docs <- OneDocument
    Chunks <- ThreeChunks
    MaxChunks = 3
    MaxMark = 1
    Ratings = {1}
    Notes = {1}
    WarmChunks = 1
    UseFreeMode = TRUE
    MaxEvents = 3
    MaxFaults = 1
    Capacity = 1
    RegenSeconds = 1
    IdleMultiplier = 1
    StartFull = TRUE
INVARIANTS
    TypeOK
    ProjectionsFollowTheLog
    MemoryFollowsTheStore
    MarksStayBehindTheFrontier
PROPERTIES
    FrontierNeverRetreats
