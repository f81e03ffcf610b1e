SPECIFICATION Spec
CONSTANTS
  NULL = NULL
  NaN = NaN
  Modulus = 5
  variableIndex = vx
  Variables = {vx, vy}
  Number = {0, 1, 2, 3, 4, NaN}
  Literal <- Residue
  Result <- ModularResult
  Points <- AllPoints
  Expressions <- AllExpressions
  Leaves = {vx, vy, "0", "2"}
  Operators = {"ADD", "SUB", "MUL", "DIV", "POW"}
  Functions = {"SIN", "COS", "SQRT", "LN", "EXP"}
  Outer = {"COS"}
  LongestText = 30
  MaxRefused = 1
INVARIANTS
  ReadsBack
  RegisteredOnce
  FitsOptimizer
  DerivativeCorrectWithoutChain
CHECK_DEADLOCK FALSE
