\* Seconds, minutes, hours and days arithmetic, and rule duration components
\* read from XML at the limits of int, against reference instants.
CONSTANTS
  Years <- MCClockYears
  InitSeconds = {0, 1, 43200, 86399}
  DayExtras <- MCDayExtras
  WeekExtras = {}
  MonthExtras = {}
  YearExtras = {}
  SecondExtras <- MCSecondExtras
  MinuteExtras <- MCMinuteExtras
  HourExtras <- MCHourExtras
  Durations = {}
  XmlInputs <- MCXmlClockInputs
  MaxSteps = 2
INIT Init
NEXT NextClockXml
INVARIANTS
  TypeOK
  InstantMatchesReference
\* A sequence of MaxSteps operations ends; the end state is not a deadlock.
CHECK_DEADLOCK FALSE
