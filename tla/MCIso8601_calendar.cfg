\* Day, week, month and duration arithmetic against the reference calendar.
CONSTANTS
  Years <- MCCalendarYears
  InitSeconds = {0}
  DayExtras <- MCDayExtras
  WeekExtras = {1}
  MonthExtras <- MCMonthExtras
  YearExtras = {}
  SecondExtras = {}
  MinuteExtras = {}
  HourExtras = {}
  Durations <- MCDurations
  XmlInputs = {}
  MaxSteps = 3
INIT Init
NEXT NextCalendar
INVARIANTS
  TypeOK
  DateMatchesReference
  IsoWeekMatchesReference
\* A sequence of MaxSteps operations ends; the end state is not a deadlock.
CHECK_DEADLOCK FALSE
