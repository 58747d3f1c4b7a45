CONSTANTS
  INFINITY = 1000000
  Scores <- MCScores
  MaxMerges = 3
INIT Init
NEXT Next
INVARIANT OrderIndependent
CHECK_DEADLOCK FALSE
