SPECIFICATION Spec
CONSTANTS
    d1 = d1
    d2 = d2
    NoDoc = NoDoc
    Welcome = d1
    Docs <- OneDocument
    Chunks <- FourChunks
    MaxChunks = 4
    MaxMark = 1
    Ratings = {}
    Notes = {}
    WarmChunks = 1
    UseFreeMode = TRUE
    MaxEvents = 6
    MaxFaults = 0
    Capacity = 2
    RegenSeconds = 1
    IdleMultiplier = 1
    StartFull = TRUE
INVARIANT NoChunkIsSkipped
