SPECIFICATION Spec
CONSTANTS
  NULL = NULL
  NaN = NaN
  Zero = zero
  One = one
  Two = other
  MinusOne = other
  Number = {zero, one, other, NaN}
  variableIndex = vx
  Variables = {vx, vy}
  Derivatives <- StrangeDerivatives
  Evaluate <- ClassOf
  Orders = {{}, {"ADD", "SUB", "MUL", "DIV", "POW"}}
  Leaves = {vx, "0", "2"}
  Outer = {"MUL"}
  Inner = {"MUL", "POW"}
  Functions = {"SIN"}
  Nested = {}
INVARIANTS
  TypeOK
  TreeIntact
  LeaksOnlyConstants
  FreedOnce
PROPERTIES
  UndefinedOnlyInReport
CHECK_DEADLOCK FALSE
