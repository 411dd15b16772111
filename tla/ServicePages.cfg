CONSTANTS
  Ids = {a, b}
  NoId = NoId
  Admin = TRUE
  ReadOnly = FALSE
  MaxActs = 3
SPECIFICATION Spec
INVARIANT TypeOK
PROPERTIES DraftKept AckedStays Converges
CHECK_DEADLOCK FALSE
