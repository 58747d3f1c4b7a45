\* The helpers of common.c: a parameter table, a node weight, the enum option
\* rows and the text conversions, over up to three table and score calls.
CONSTANTS
  Names <- MCNames
  Values <- MCValues
  NULL = NULL
  MaxCalls = 3
  INFINITY = 1000000
  Scores <- MCScores
  MaxMerges = 3
  Lookups <- MCLookups
INIT CommonInit
NEXT CommonNext
INVARIANTS
  CommonTypeOK
  FirstValueWins
  OptionTableConsistent
  ConversionsInvertible
  AttributeFromContainerHost
  WeightFollowsScores
\* The caller makes a bounded number of calls, then uses the table.
CHECK_DEADLOCK FALSE
