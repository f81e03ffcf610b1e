----------------------------- MODULE Derivative -----------------------------
(***************************************************************************)
(* Differentiate (Differentiator.cpp), the rules of the operation table and  *)
(* the functions that create and copy nodes (OperationsDSL).                 *)
(*                                                                         *)
(* The nodes of a tree are named by their paths.  A record holds the label     *)
(* and the depth of every node, and the nodes registered while the tree was    *)
(* built, in the order of the reassignments buffer.  A label is an operation, *)
(* a variable or a number; numbers are written as strings.                    *)
(*                                                                         *)
(* There is memory for the nodes: CreateNode returns NULL without it, and        *)
(* CopySubtree dereferences the NULL.  What becomes of the program then, with a    *)
(* hole in the derivative or none at all, is an outcome of Derive in Session.       *)
(***************************************************************************)
EXTENDS Operations, Paths

CONSTANT variableIndex   (* The variable to differentiate by.                  *)

R == INSTANCE Reassignments

None == [label |-> <<>>, depth |-> <<>>, registered |-> <<>>]

IsOperation(label) == label \in OperationNames

Moved(side, paths) == [i \in DOMAIN paths |-> <<side>> \o paths[i]]

Depth(tree) == IF tree = None THEN 0 ELSE tree.depth[<<>>]

CreateNode(label, l, r) ==
  [label |-> Joined(label, l.label, r.label),
   depth |-> Joined(1 + Depth(l) + Depth(r), l.depth, r.depth),
   registered |-> Moved(1, l.registered) \o Moved(2, r.registered)]

Const(number) == CreateNode(number, None, None)

(* The copies are new nodes: they are in no buffer, but keep the depths.        *)
CopySubtree(tree, path) ==
  [label |-> SubtreeAt(tree.label, path),
   depth |-> SubtreeAt(tree.depth, path),
   registered |-> <<>>]

(* The links GetReassignments follows.                                         *)
Links(tree) ==
  LET nodes == DOMAIN tree.label
  IN  [left    |-> [p \in nodes |-> LinkTo(tree.label, p, 1)],
       right   |-> [p \in nodes |-> LinkTo(tree.label, p, 2)],
       depth   |-> tree.depth,
       operand |-> [p \in nodes |-> ~IsOperation(tree.label[p])]]

(* GetReassignments on the whole tree.                                        *)
GetReassignments(tree) ==
  [label |-> tree.label,
   depth |-> R!DepthAfter(Links(tree), <<>>),
   registered |-> tree.registered \o R!AppendedBy(Links(tree), <<>>)]

Add(l, r) == CreateNode("ADD", l, r)
Sub(l, r) == CreateNode("SUB", l, r)
Mul(l, r) == CreateNode("MUL", l, r)
Div(l, r) == CreateNode("DIV", l, r)
Pow(l, r) == CreateNode("POW", l, r)

(* Fault: the operand is linked as the right child.                              *)
FunctionOnTheRight(op, l) == CreateNode(op, None, l)

Function(op, l) == CreateNode(op, l, None)

-----------------------------------------------------------------------------
(* The rules: dl and dr are the derivatives of the operands, l and r copies of     *)
(* the operands.                                                              *)

(* Fault: both products of the product rule differentiate the same factor.     *)
DiffMulTwice(dl, dr, l, r) == Add(Mul(dl, r), Mul(l, dl))

DiffMul(dl, dr, l, r) == Add(Mul(dl, r), Mul(l, dr))

DiffDiv(dl, dr, l, r) == Div(Sub(Mul(dl, r), Mul(dr, l)), Pow(r, Const("2")))

(* The rule never differentiates the base.                                     *)
DiffPow(dr, l, r) ==
  Mul(Pow(l, r), Add(Mul(dr, Function("LN", l)), Div(r, l)))

DiffFunction(op, dl, l) ==
  CASE op = "SIN"  -> Mul(dl, Function("COS", l))
    [] op = "COS"  -> Mul(dl, Mul(Const("-1"), Function("SIN", l)))
    [] op = "SQRT" -> Div(dl, Mul(Const("2"), Function("SQRT", l)))
    [] op = "LN"   -> Div(dl, l)
    [] op = "EXP"  -> Mul(dl, Function("EXP", l))

Rule(op, dl, dr, l, r) ==
  CASE op = "EQUALS" -> CreateNode("EQUALS", dl, None)
    [] op = "ADD"    -> Add(dl, dr)
    [] op = "SUB"    -> Sub(dl, dr)
    [] op = "MUL"    -> DiffMul(dl, dr, l, r)
    [] op = "DIV"    -> DiffDiv(dl, dr, l, r)
    [] op = "POW"    -> DiffPow(dr, l, r)
    [] op \in FunctionOps -> DiffFunction(op, dl, l)

(* A result is registered and printed only if the node it came from has a      *)
(* parent: the parser gives the topmost node of an expression none.            *)
DifferentiateInternal(tree) ==
  LET diff[path \in DOMAIN tree.label] ==
        LET op         == tree.label[path]
            Diff(side) == IF LinkTo(tree.label, path, side) = NULL THEN None
                          ELSE diff[LinkTo(tree.label, path, side)]
            Copy(side) == CopySubtree(tree, Append(path, side))
            result     == Rule(op, Diff(1), Diff(2), Copy(1), Copy(2))
        IN  IF ~IsOperation(op) THEN Const(IF op = variableIndex THEN "1" ELSE "0")
            ELSE IF path # <<>> THEN GetReassignments(result) ELSE result
  IN  diff

(* Differentiate: the EQUALS node InitDifferentiator made has the expression    *)
(* as its left child, but is not its parent.                                  *)
Differentiate(tree) ==
  CreateNode("EQUALS", IF tree = None THEN None ELSE DifferentiateInternal(tree)[<<>>], None)

=============================================================================
