CONSTANTS
  Interval = 2
  Window = 6
  Scale = 36
  MaxSize = 2
  Values = {1}
  MaxTime = 7
  MaxTraffic = 3
  MaxSlack = 2
  Fields <- MCFields
  Rows <- MCRows
  MaxLength = 9
SPECIFICATION DisplaySpec
INVARIANTS ChartAddsUp ChartFollows HealthAgrees TableSorted AcceptedIsStrong
CHECK_DEADLOCK FALSE
