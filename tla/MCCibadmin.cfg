\* Command lines of up to three arguments through parsing and main().
CONSTANTS
  Tokens <- MCTokens
  MaxArgs = 3
  NULL = NULL
SPECIFICATION Spec
INVARIANTS
  TypeOK
  MultipleDeleteNeedsForce
  SectionIsLastGiven
  FailureNeverExitsOk
PROPERTY
  SessionRefined
\* crm_exit() ends the process: a run that has exited takes no more steps.
CHECK_DEADLOCK FALSE
