SPECIFICATION Spec
CONSTANTS
  NULL = NULL
INVARIANTS
  TypeOK
  VerifiedIsInitialised
  Released

  
CHECK_DEADLOCK FALSE
