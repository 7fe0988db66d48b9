SPECIFICATION Spec
CONSTANTS
    d1 = d1
    d2 = d2
    NoDoc = NoDoc
    Welcome = d1
    Docs <- TwoDocuments
    Chunks <- ALongAndAShortOne
    MaxChunks = 3
    MaxMark = 1
    Ratings = {}
    Notes = {}
    WarmChunks = 1
    UseFreeMode = FALSE
    MaxEvents = 4
    MaxFaults = 0
    Capacity = 1
    RegenSeconds = 1
    IdleMultiplier = 1
    StartFull = TRUE
INVARIANTS
    NoLockKeptOverALiveDocument
    PacedReadingIsSettled
PROPERTIES
    ImplementsSpine
