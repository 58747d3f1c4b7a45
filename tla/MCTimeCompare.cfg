\* The earliest of up to three candidate times around a year boundary.
CONSTANTS
  Texts <- MCTexts
  LocalTm <- MCLocalTm
  TimeFormats <- MCTimeFormats
  Periods <- MCPeriods
  LenientPeriods <- MCLenientPeriods
  MaxCalls = 3
  Intervals <- MCIntervals
INIT Init
NEXT Next
INVARIANTS
  TypeOK
  EarliestIsMinimum
  ReadableIntervalFaithful
  ParseMatchesReference
  FormatParseRoundTrip
  PeriodMatchesReference
  LenientPeriodDenotes
\* The caller offers a bounded number of candidates, then stops.
CHECK_DEADLOCK FALSE
