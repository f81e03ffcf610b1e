SPECIFICATION Spec
CONSTANTS
  NULL = NULL
  NaN = NaN
  Zero = 0
  One = 1
  Two = 2
  MinusOne = 4
  Number = {0, 1, 2, 3, 4, NaN}
  Modulus = 5
  variableIndex = vx
  Variables = {vx}
  Derivatives <- DetachedDerivatives
  Evaluate <- ModularResults
  Result <- ModularResult
  Orders = {{}}
  Leaves = {vx, "2"}
  Outer = {"ADD", "MUL"}
  Inner = {"DIV", "MUL"}
  Functions = {"SIN"}
  Nested = {}
INVARIANT DeleteReadsAllocated
CHECK_DEADLOCK FALSE
