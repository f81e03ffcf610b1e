----------------------------- MODULE Simplifier -----------------------------
(***************************************************************************)
(* What OptimizeTree promises, without nodes, pointers or passes: a term that  *)
(* is rewritten by the rules of the table, one place at a time.  A term is a    *)
(* tree by value; a node carries its kind and, if it is an operand, its value.  *)
(***************************************************************************)
EXTENDS Operations, Paths

CONSTANTS
  Number, NaN, Zero, One,
  Evaluate(_, _, _)  (* The results an operation may have on two numbers.        *)

VARIABLE term

Constant(v) == Joined([kind |-> "NUMERIC_NODE", value |-> v], <<>>, <<>>)

(* The number at a path, if there is one.                                      *)
Value(t, p) == IF p \in DOMAIN t /\ t[p].kind = "NUMERIC_NODE" THEN t[p].value ELSE NaN

Left(p)  == Append(p, 1)
Right(p) == Append(p, 2)

(* What an operation that has a number as its value, whatever the variables are,    *)
(* gives way to.                                                              *)
Folded(t, p) ==
  IF t[p].kind \notin OperationNames THEN {}
  ELSE LET right == IF t[p].kind \in BinaryOps THEN Value(t, Right(p)) ELSE NaN
       IN  {Constant(v) : v \in Evaluate(t[p].kind, Value(t, Left(p)), right) \ {NaN}}

If(condition, u) == IF condition THEN {u} ELSE {}

(* The identities of the table, the two that hold with exceptions among them:      *)
(* 0 - x = x does not, unless x is 0, and 0 ^ x = 0 does not for x = 0.           *)
Collapsed(t, p) ==
  LET op == t[p].kind
      L(number) == Value(t, Left(p)) = number
      R(number) == Value(t, Right(p)) = number
      l == SubtreeAt(t, Left(p))
      r == SubtreeAt(t, Right(p))
  IN  CASE op \in {"ADD", "SUB"} -> If(L(Zero), r) \cup If(R(Zero), l)
        [] op = "MUL" -> If(L(Zero) \/ R(Zero), Constant(Zero)) \cup If(L(One), r) \cup If(R(One), l)
        [] op = "DIV" -> If(L(Zero), Constant(Zero)) \cup If(R(One), l)
        [] op = "POW" -> If(R(Zero), Constant(One)) \cup If(L(Zero), Constant(Zero)) \cup If(R(One), l)
        [] OTHER -> {}

(* The terms one rule away, the rule applied anywhere, or none.                  *)
Rewritten(t) ==
  {t} \cup
  UNION {{Grafted(t, p, u) : u \in Folded(t, p) \cup Collapsed(t, p)} : p \in DOMAIN t}

Next == term' \in Rewritten(term)

Spec == [][Next]_term

=============================================================================
