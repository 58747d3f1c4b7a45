CONSTANTS
  NoFormat = NoFormat
  NoTimespec = NoTimespec
INIT Init
NEXT Next
INVARIANTS
  HrTypeOK
  HrFormatFaithful
  FallbackNeverTruncates
  DuTypeOK
  DurationTextDenotes
  SecondsTextDenotes
  TimespecTextDenotes
\* One call per behaviour: every call is independent of the others.
CHECK_DEADLOCK FALSE
