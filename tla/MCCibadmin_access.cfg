\* Whether --show-access always annotates for the -U user from a full CIB.
CONSTANTS
  Tokens <- MCAccessTokens
  MaxArgs = 3
  NULL = NULL
INIT Init
NEXT Next
INVARIANT AccessShownForUser
\* crm_exit() ends the process: a run that has exited takes no more steps.
CHECK_DEADLOCK FALSE
