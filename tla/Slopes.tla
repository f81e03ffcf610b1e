------------------------------- MODULE Slopes -------------------------------
(***************************************************************************)
(* Differentiate against the textbook: the value and the slope of an           *)
(* expression at a point, computed together without a derivative (forward      *)
(* differentiation), in an exact arithmetic.                                  *)
(***************************************************************************)
EXTENDS Differentiation

CONSTANTS
  Result(_, _, _),  (* The evaluation callbacks: the result on two numbers.      *)
  Points            (* Values of the variables.                                *)

ASSUME PointsAssumption == Points \subseteq [Variables -> Number]

ASSUME VariableAssumption == variableIndex \in Variables /\ Variables \cap OperationNames = {}

Finite == Number \ {NaN}

Zero     == Literal["0"]
One      == Literal["1"]
Two      == Literal["2"]
MinusOne == Literal["-1"]

ASSUME ConstantsAssumption ==
  {"0", "1", "2", "-1"} \subseteq DOMAIN Literal /\ {Zero, One, Two, MinusOne} \subseteq Finite

Plus(a, b)  == Result("ADD", a, b)
Minus(a, b) == Result("SUB", a, b)
Times(a, b) == Result("MUL", a, b)
Over(a, b)  == Result("DIV", a, b)
Power(a, b) == Result("POW", a, b)

(* Every operation yields a number, and NaN if it needs an operand that is none;    *)
(* pow (x, 0) and pow (1, x) are 1 for all x.                                   *)
ASSUME NumberAssumption ==
  \A x, y \in Number :
    /\ \A op \in {"EQUALS"} \cup BinaryOps \cup FunctionOps : Result(op, x, y) \in Number
    /\ \A op \in (BinaryOps \ {"POW"}) \cup FunctionOps : Result(op, NaN, y) = NaN
    /\ \A op \in BinaryOps \ {"POW"} : Result(op, x, NaN) = NaN
    /\ Result("EQUALS", x, y) = x

(* The finite numbers are a field, and a power is a product of equal factors.       *)
ASSUME FieldAssumption ==
  \A a, b, c \in Finite :
    /\ {Plus(a, b), Minus(a, b), Times(a, b)} \subseteq Finite
    /\ Plus(Zero, a) = a
    /\ Times(a, b) = Times(b, a) /\ Times(Times(a, b), c) = Times(a, Times(b, c))
    /\ Times(Zero, a) = Zero /\ Times(One, a) = a
    /\ Times(Minus(a, b), c) = Minus(Times(a, c), Times(b, c))
    /\ Minus(Zero, a) = Times(MinusOne, a)
    /\ Over(a, Zero) = NaN
    /\ b # Zero => /\ Over(a, b) \in Finite
                   /\ Times(Over(a, b), b) = a /\ Over(Times(a, b), b) = a
    /\ Power(a, Zero) = One /\ Power(a, Two) = Times(a, a)
    /\ a # Zero /\ b # Zero => Power(a, b) = Times(a, Power(a, Minus(b, One)))

-----------------------------------------------------------------------------
LeafValue(label, point) ==
  IF label \in DOMAIN Literal THEN Literal[label]
  ELSE IF label \in Variables THEN point[label] ELSE NaN

(* The value of every node.                                                    *)
Values(label, point) ==
  LET value[path \in DOMAIN label] ==
        LET Of(side) == IF LinkTo(label, path, side) = NULL THEN NaN
                        ELSE value[LinkTo(label, path, side)]
        IN  IF IsOperation(label[path]) THEN Result(label[path], Of(1), Of(2))
            ELSE LeafValue(label[path], point)
  IN  value

ValueAt(tree, point) == Values(tree.label, point)[<<>>]

(* The slopes of the functions, from their values.                               *)
FunctionSlope(op, u) ==
  CASE op = "SIN"  -> Result("COS", u, NaN)
    [] op = "COS"  -> Minus(Zero, Result("SIN", u, NaN))
    [] op = "SQRT" -> Over(One, Times(Two, Result("SQRT", u, NaN)))
    [] op = "LN"   -> Over(One, u)
    [] op = "EXP"  -> Result("EXP", u, NaN)

(* A power with a number as exponent is a product of equal factors.              *)
PowerSlope(u, du, n) ==
  IF n = Zero THEN Zero ELSE Times(Times(n, Power(u, Minus(n, One))), du)

(* The slope of an operation.  A power whose exponent depends on the variable has   *)
(* the slope u^v (v' ln u + v u' / u).                                          *)
OperationSlope(op, u, v, numberAbove) ==
  CASE op \in {"ADD", "SUB"} -> Result(op, u.slope, v.slope)
    [] op = "MUL" -> Plus(Times(u.slope, v.value), Times(u.value, v.slope))
    [] op = "DIV" -> Over(Minus(u.slope, Times(Over(u.value, v.value), v.slope)), v.value)
    [] op = "POW" -> IF numberAbove THEN PowerSlope(u.value, u.slope, v.value)
                     ELSE Times(Power(u.value, v.value),
                                Plus(Times(v.slope, Result("LN", u.value, NaN)),
                                     Times(v.value, Over(u.slope, u.value))))
    [] op \in FunctionOps -> Times(FunctionSlope(op, u.value), u.slope)
    [] OTHER -> NaN

(* The value and the slope at a node, from those of its operands.                  *)
NodeJet(label, path, u, v, point) ==
  LET op == label[path]
  IN  IF IsOperation(op)
      THEN [value |-> Result(op, u.value, v.value),
            slope |-> OperationSlope(op, u, v, Append(path, 2) \in DOMAIN label
                                               /\ label[Append(path, 2)] \in DOMAIN Literal)]
      ELSE [value |-> LeafValue(op, point), slope |-> IF op = variableIndex THEN One ELSE Zero]

NoJet == [value |-> NaN, slope |-> NaN]

Jets(label, point) ==
  LET jet[path \in DOMAIN label] ==
        LET Of(side) == IF LinkTo(label, path, side) = NULL THEN NoJet
                        ELSE jet[LinkTo(label, path, side)]
        IN  NodeJet(label, path, Of(1), Of(2), point)
  IN  jet

(* Wherever the derivative and the slope both have a value.                       *)
IsDerivativeOf(tree, e) ==
  \A point \in Points :
    LET slope == Jets(e.label, point)[<<>>].slope
        value == ValueAt(tree, point)
    IN  slope = NaN \/ value = NaN \/ slope = value

(* The powers the rule of POW differentiates rightly: those of the variable.       *)
PowersOfVariable(e) ==
  \A p \in DOMAIN e.label : e.label[p] = "POW" => e.label[Append(p, 1)] = variableIndex

-----------------------------------------------------------------------------
IsFormula == expression # None /\ Formula(expression)

(* The report's ( ... )' = ... is an equation: Differentiate yields the          *)
(* derivative.                                                                *)
DerivativeCorrect ==
  derivative # None /\ IsFormula => IsDerivativeOf(derivative, expression)

(* It does for every expression all whose powers are powers of the variable.      *)
DerivativeCorrectWithoutChain ==
  derivative # None /\ IsFormula /\ PowersOfVariable(expression)
    => IsDerivativeOf(derivative, expression)

=============================================================================
