----------------------------- MODULE MCOptimizer -----------------------------
(***************************************************************************)
(* Instances of Optimizer for TLC: the derivatives are those that Derivative  *)
(* computes for small expressions, the numbers four classes of doubles.       *)
(***************************************************************************)
EXTENDS Optimizer, TLC

CONSTANTS
  Two, MinusOne,   (* The other numbers the rules and the expressions use.     *)
  variableIndex,   (* The variable to differentiate by.                        *)
  Leaves,          (* The operands of the expressions.                         *)
  Outer, Inner,    (* The operators of the expressions, by level.              *)
  Functions,
  Nested           (* The functions of functions of operators.                 *)

D == INSTANCE Expressions

(* The numbers of the rules, as labels of Derivative.                          *)
Literal == ("0" :> Zero) @@ ("1" :> One) @@ ("2" :> Two) @@ ("-1" :> MinusOne)

(* Expressions of one operator, of two operators one above the other, and of      *)
(* the same function twice around an operator, for results registered by one rule  *)
(* and met by the next.                                                       *)
Leaf == {<<leaf>> : leaf \in Leaves}

Simple == {<<op, a, b>> : op \in Inner, a \in Leaf, b \in Leaf}
          \cup {<<f, a>> : f \in Functions, a \in Leaf}

(* "=" as an operation that is only differentiated.                             *)
Equations == {<<"ADD", <<"EQUALS", t, t>>, <<variableIndex>>>> : t \in Simple}

Terms == Leaf \cup Simple \cup Equations \cup
         {<<f, t>> : f \in Functions, t \in Simple} \cup
         {<<f, <<f, t>>>> : f \in Nested, t \in Simple} \cup
         UNION {{<<op, t, leaf>>, <<op, leaf, t>>} : op \in Outer, t \in Simple, leaf \in Leaf}

(* x / 2 * 1 ^ (0 + 0 + 2) + 2: a registered product gives way to its factor, which  *)
(* is registered too and computed one pass later.                              *)
DetachedTwice ==
  <<"ADD", <<"MUL", <<"DIV", <<variableIndex>>, <<"2">>>>,
                    <<"POW", <<"1">>, <<"ADD", <<"ADD", <<"0">>, <<"0">>>>, <<"2">>>>>>>>,
           <<"2">>>>

Derived(term) == InMemory(D!Differentiate(D!ParsedTree(term)), Literal)

DetachedDerivatives == {Derived(DetachedTwice)}

(* The derivative of an expression that was not accepted is a lonely EQUALS.     *)
AllDerivatives ==
  {Derived(term) : term \in Terms} \cup DetachedDerivatives
  \cup {InMemory(D!Differentiate(D!None), Literal)}

(* With "=" as an operation that is copied, and with what a misparse leaves: an      *)
(* operand with a child.                                                      *)
StrangeDerivatives ==
  {Derived(<<op, <<"EQUALS", <<variableIndex>>, t>>, <<"0">>>>) : op \in Outer, t \in Simple}
  \cup {Derived(<<f, <<leaf, t>>>>) : f \in Functions, leaf \in Leaves, t \in Simple}
  \cup AllDerivatives

-----------------------------------------------------------------------------
(* Doubles, in four classes: 0, 1, NaN, and all that are neither nor near, the      *)
(* infinities among them; Two and MinusOne are both the rest then.  What          *)
(* arithmetic leaves open, for operations on the rest, is open; but a number that   *)
(* is not 0 and within EPS of it, or so with 1, is in none of the classes.         *)
OfOther(op, l, r) ==
  CASE op \in {"ADD", "SUB"} /\ Zero \in {l, r} -> {Two}
    [] op = "MUL" /\ Zero \in {l, r} -> {Zero, NaN}
    [] op = "MUL" /\ One \in {l, r}  -> {Two}
    [] op = "DIV" /\ l = Zero        -> {Zero}
    [] op = "DIV" /\ r = Zero        -> {Two}
    [] op = "DIV" /\ r = One         -> {Two}
    [] op = "POW" /\ l = Zero        -> {Zero, Two}
    [] op = "POW" /\ r = One         -> {Two}
    [] OTHER                         -> Number

Exact(op, l, r) ==
  CASE op = "ADD" -> IF l = Zero THEN r ELSE IF r = Zero THEN l ELSE Two
    [] op = "SUB" -> IF l = r THEN Zero ELSE IF r = Zero THEN l ELSE Two
    [] op = "MUL" -> IF Zero \in {l, r} THEN Zero ELSE One
    [] op = "DIV" -> IF r = One THEN l ELSE IF l = Zero THEN NaN ELSE Two
    [] op = "POW" -> l
    [] op \in {"SIN", "LN"} -> IF (l = Zero) = (op = "SIN") THEN Zero ELSE Two
    [] op \in {"COS", "EXP"} -> IF l = Zero THEN One ELSE Two
    [] op = "SQRT" -> l

(* pow is the only operation that has a number as its result on NaN.             *)
ClassOf(op, l, r) ==
  IF op = "POW" /\ (r = Zero \/ l = One) THEN {One}
  ELSE IF l = NaN \/ (op \in BinaryOps /\ r = NaN) THEN {NaN}
  ELSE IF op = "EQUALS" THEN {l}
  ELSE IF Two \in (IF op \in BinaryOps THEN {l, r} ELSE {l}) THEN OfOther(op, l, r)
  ELSE {Exact(op, l, r)}

=============================================================================
