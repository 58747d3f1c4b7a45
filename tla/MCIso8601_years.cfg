\* Whether year arithmetic, with the calendar operations, keeps the month and day.
CONSTANTS
  Years <- MCCalendarYears
  InitSeconds = {0}
  DayExtras <- MCDayExtras
  WeekExtras = {1}
  MonthExtras <- MCMonthExtras
  YearExtras <- MCYearExtras
  SecondExtras = {}
  MinuteExtras = {}
  HourExtras = {}
  Durations <- MCDurations
  XmlInputs = {}
  MaxSteps = 2
INIT Init
NEXT NextYears
INVARIANT DateMatchesReference
\* A sequence of MaxSteps operations ends; the end state is not a deadlock.
CHECK_DEADLOCK FALSE
