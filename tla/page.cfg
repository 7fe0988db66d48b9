SPECIFICATION Spec
CONSTANTS
    Fetches = {1, 2}
    Total = 3
    Capacity = 1
    RegenSeconds = 1
    IdleMultiplier = 1
    MaxWait = 1
INVARIANTS
    TypeOK
    OverlapsSkipNothing
    PatienceIsSerial
PROPERTIES
    SpaceReachesTheEnd
CHECK_DEADLOCK FALSE
