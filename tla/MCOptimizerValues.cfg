SPECIFICATION FairSpec
CONSTANTS
  NULL = NULL
  NaN = NaN
  Zero = 0
  One = 1
  Two = 2
  MinusOne = 4
  Number = {0, 1, 2, 3, 4, NaN}
  Modulus = 5
  variableIndex = vx
  Variables = {vx}
  Derivatives <- AllDerivatives
  Evaluate <- ModularResults
  Result <- ModularResult
  Orders = {{}}
  Leaves = {vx, "0", "2"}
  Outer = {"SUB", "MUL", "DIV"}
  Inner = {"ADD", "SUB", "MUL", "DIV", "POW"}
  Functions = {"SIN", "COS", "SQRT", "LN", "EXP"}
  Nested = {"SIN", "COS", "SQRT", "LN", "EXP"}
INVARIANTS
  NothingLeft
PROPERTIES
  Termination
  ImplementsSimplifier
  OnlyZeroOnTheLeftChangesValue
CHECK_DEADLOCK FALSE
