------------------------------- MODULE Values -------------------------------
(***************************************************************************)
(* The value of the derivative (EvalTree), before and after a step of the      *)
(* optimizer, in an arithmetic in which the neutral elements of the table are   *)
(* neutral.  Doubles are no such arithmetic where rounding shows: a number up   *)
(* to EPS counts as 0.                                                       *)
(***************************************************************************)
EXTENDS Optimizer

CONSTANT Result(_, _, _)   (* The result of an operation on two numbers.       *)

Applicable == {"EQUALS"} \cup BinaryOps \cup FunctionOps

(* EvalTree and ComputeSubtree share the evaluation callbacks of the table.      *)
ASSUME ResultAssumption ==
  \A op \in Applicable : \A l, r \in Number : Evaluate(op, l, r) = {Result(op, l, r)}

(* What is no number makes no number of any operation it matters to: pow (x, 0)   *)
(* and pow (1, x) are 1 for all x, and a function ignores its right operand.     *)
ASSUME NaNAssumption ==
  \A op \in Applicable : \A l, r \in Number :
    /\ Result(op, NaN, r) \in {NaN, Result(op, l, r)}
    /\ Result(op, l, NaN) \in {NaN, Result(op, l, r)}

(* The neutral elements, but for the two that are none: 0 on the left of a        *)
(* difference or a power.                                                    *)
ASSUME NeutralAssumption ==
  \A v \in Number :
    /\ Result("ADD", Zero, v) = v /\ Result("ADD", v, Zero) = v
    /\ Result("SUB", v, Zero) = v
    /\ Result("MUL", Zero, v) \in {Zero, NaN} /\ Result("MUL", v, Zero) \in {Zero, NaN}
    /\ Result("MUL", One, v) = v /\ Result("MUL", v, One) = v
    /\ Result("DIV", Zero, v) \in {Zero, NaN} /\ Result("DIV", v, One) = v
    /\ Result("POW", v, Zero) = One /\ Result("POW", v, One) = v

-----------------------------------------------------------------------------
(* What the records of the name table say of the variables; a variable without a  *)
(* record is no number.                                                      *)
Environments == [Variables -> Number]

(* The value of a node, given those of its operands.                            *)
NodeValue(env, n, l, r) ==
  CASE kind[n] = "NUMERIC_NODE"  -> value[n]
    [] kind[n] = "VARIABLE_NODE" -> IF value[n] \in DOMAIN env THEN env[value[n]] ELSE NaN
    [] OTHER -> Result(kind[n], l, r)

EvalInternal(env) ==
  LET evalValue[n \in Addresses] ==
        NodeValue(env, n, IF left[n]  = NULL THEN NaN ELSE evalValue[left[n]],
                          IF right[n] = NULL THEN NaN ELSE evalValue[right[n]])
  IN  evalValue

EvalTree(env) == EvalInternal(env)[root]

Preserved(before, after) == before = NaN \/ before = after

-----------------------------------------------------------------------------
(* Whatever the values of the variables, an optimization does not change the      *)
(* value of the derivative where it has one.                                   *)
ValuePreserved ==
  [][\A env \in Environments : Preserved(EvalTree(env), EvalTree(env)')]_vars

(* A zero on the left is declared neutral for SUB, though 0 - x is not x, and     *)
(* makes a power 0, though pow (0, 0) is 1.  These are the only rules of the       *)
(* optimizer that change the value of the derivative.                          *)
OnlyZeroOnTheLeftChangesValue ==
  [][\/ UNCHANGED <<root, fields>>
     \/ /\ phase = "collapse" /\ stack # <<>>
        /\ kind[Current] \in {"SUB", "POW"}
        /\ Operand(left[Current]) = Zero
     \/ \A env \in Environments : Preserved(EvalTree(env), EvalTree(env)')]_vars

=============================================================================
