SPECIFICATION Spec
CONSTANTS
  novel = novel
  other = other
  r1 = r1
  r2 = r2
  Docs <- MCDocs
  Tags <- MCTags
  Canonical <- MCCanonical
  Invalid = Invalid
  Unread = Unread
  NoTile = NoTile
  Shelves <- MCShelves
  Layouts <- MCLayouts
  Selections <- MCSelections
  Filters <- MCFilters
  Requests = {r1, r2}
  Buckets = 2
  FinishedPercent = 60
  MaxMoves = 1
SYMMETRY Perms
INVARIANTS
  TypeOK
  TilesAreTrue
  BatchesServeWhatRemains
\* Every request is made once; the library rests when all are answered.
CHECK_DEADLOCK FALSE
