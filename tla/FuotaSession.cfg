SPECIFICATION Spec
CONSTANTS
  Path <- MCPath
  Scopes <- MCScopes
  max_retries = 2
INVARIANT SuccessVerified
PROPERTY LoopAdvances
CHECK_DEADLOCK FALSE
