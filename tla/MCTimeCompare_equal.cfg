\* Whether crm_time_compare() reports equal UTC instants as equal.
CONSTANTS
  Texts <- MCTexts
  LocalTm <- MCLocalTm
  TimeFormats <- MCTimeFormats
  Periods <- MCPeriods
  LenientPeriods <- MCLenientPeriods
  MaxCalls = 3
  Intervals <- MCIntervals
INIT Init
NEXT Next
INVARIANT CompareAgreesWithInstant
\* The caller offers a bounded number of candidates, then stops.
CHECK_DEADLOCK FALSE
