SPECIFICATION Spec
CONSTANTS
  Text <- DistinctText
  Plans <- MCPlans
  Requests = {k1, k2}
  WarmChunks = 2
  Unread = Unread
INVARIANTS
  TypeOK
  ReadyHasChunks
  PlaceIsInTheChunks
  MarksStayOnReadText
PROPERTIES
  TheFrontierKeepsItsText
CONSTRAINT MCMishaps
SYMMETRY MCSymmetry
