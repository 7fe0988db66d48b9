SPECIFICATION Spec
CONSTANTS
    Cost <- MCCost
    Budget = 2
    Constructs <- MCConstructs
    MaxBlocks = 5
INVARIANTS
    TypeOK
    NothingIsLostOrDoubled
    ProseFitsTheBudget
    LeadInsStayWithTheirBlock
    UnbrokenDocumentsReadInOrder
    AgreesWithItsPredecessor
CHECK_DEADLOCK FALSE
