\* Whether crm_time_calculate_duration() of two candidates is the duration
\* crm_time_add() takes from the earlier back to the later.
CONSTANTS
  Texts <- MCTexts
  LocalTm <- MCLocalTm
  TimeFormats <- MCTimeFormats
  Periods <- MCPeriods
  LenientPeriods <- MCLenientPeriods
  MaxCalls = 3
  Intervals <- MCIntervals
INIT Init
NEXT NextDuration
INVARIANT DurationRestoresTime
\* The caller offers a bounded number of candidates, then stops.
CHECK_DEADLOCK FALSE
