CONSTANTS
  MaxStarts = 3
SPECIFICATION HttpFairSpec
INVARIANT CalmIsMeasured
PROPERTY StoppedGoesSilent
CHECK_DEADLOCK FALSE
