\* Whether crm_time_new() reads a text without a zone at the host's offset
\* when the host is 3:30 west of UTC.
CONSTANTS
  Texts <- MCTexts
  LocalTm <- MCLocalTmWest
  TimeFormats <- MCTimeFormats
  Periods <- MCPeriods
  LenientPeriods <- MCLenientPeriods
  MaxCalls = 3
  Intervals <- MCIntervals
INIT Init
NEXT Next
INVARIANT ParseMatchesReference
\* The caller offers a bounded number of candidates, then stops.
CHECK_DEADLOCK FALSE
