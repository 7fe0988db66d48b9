SPECIFICATION Spec
CONSTANTS
  Requests = {k1, k2}
  note = note
  paper = paper
  data = data
  Names <- MCNames
  Suffix <- MCSuffix
  Contents = {prose, blank, bytes}
  Decodable = {prose, blank}
  Readable = {prose}
  None = None
  MaxDocs = 3
  MaxArrivals = 2
  MaxDisruptions = 1
INVARIANTS
  TypeOK
  DropsAreNeverLost
  ReadyIsComplete
  RetriesMakeNoDuplicates
  OnlyLossesStrand
PROPERTIES
  ReadyStaysReady
SYMMETRY MCSymmetry
CHECK_DEADLOCK FALSE
