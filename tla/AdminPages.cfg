CONSTANTS
  Ids = {a}
  NoId = NoId
  Drained = {"access"}
  ReadOnly = FALSE
  MaxActs = 3
  MaxLines = 2
SPECIFICATION Spec
INVARIANT LinesInOrder
PROPERTIES TypedKept AckedShown
CHECK_DEADLOCK FALSE
