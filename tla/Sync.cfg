CONSTANTS
  Callers = {c1}
  Names = {a}
  Keys = {k}
  Nothing = Nothing
  MaxOps = 2
  MaxEdits = 1
  MaxCrashes = 1
  MaxEvents = 2
SPECIFICATION Spec
INVARIANTS TypeOK FileCanStart AgreesAtRest
CHECK_DEADLOCK FALSE
