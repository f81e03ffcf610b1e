------------------------------- MODULE Writer -------------------------------
(***************************************************************************)
(* WriteExpressionInternal and WriteNodeContentToLatex: a tree of Derivative    *)
(* as the words a reader sees.  A number or a variable is one word, so is R_i;   *)
(* braces show where they make a group: \frac, an exponent and a root are          *)
(* groups of their own and appear here in brackets.                            *)
(***************************************************************************)
EXTENDS Operations, Sequences

CONSTANT Variables

Kind(label) ==
  IF label \in OperationNames THEN label
  ELSE IF label \in Variables THEN "VARIABLE_NODE" ELSE "NUMERIC_NODE"

Group(words) == <<"OPEN_BRACKET">> \o words \o <<"CLOSE_BRACKET">>

(* Fault: the operand of an operation with the same priority gets no brackets.     *)
BracketsAbove(op, parentOp) ==
  Priority[op] > Priority[parentOp] /\ parentOp # "DIV"

PlaceBrackets(op, parentOp) ==
  Priority[op] >= Priority[parentOp] /\ parentOp # "DIV"

(* The LaTeX column, from the words of the operands.                            *)
Latex(op, l, r) ==
  CASE op = "DIV" -> Group(Group(l) \o <<op>> \o Group(r))
    [] op = "POW" -> l \o <<op>> \o Group(r)
    [] op = "SQRT" -> <<op>> \o Group(l)
    [] op \in BinaryOps \ {"DIV", "POW"} -> l \o <<op>> \o r
    [] OTHER -> <<op>> \o l

Parent(path) == SubSeq(path, 1, Len(path) - 1)

(* A registered node is named where it is an operand, or printed as a whole.       *)
Named(tree, path) ==
  /\ tree.depth[path] = 1
  /\ \E i \in DOMAIN tree.registered : tree.registered[i] = path

(* The words of each node, named or in full.  The topmost node has no parent;      *)
(* else the brackets depend on the parent, even if the node is printed alone.      *)
WriteExpressionInternal(tree) ==
  LET written[path \in DOMAIN tree.label, suppressReassignment \in BOOLEAN] ==
        LET op    == tree.label[path]
            child == [side \in {1, 2} |->
                        IF Append(path, side) \in DOMAIN tree.label
                        THEN written[Append(path, side), FALSE] ELSE <<>>]
            words == Latex(op, child[1], child[2])
        IN  IF op \notin OperationNames THEN <<Kind(op)>>
            ELSE IF ~suppressReassignment /\ Named(tree, path) THEN <<"VARIABLE_NODE">>
            ELSE IF path # <<>> /\ PlaceBrackets(op, tree.label[Parent(path)])
            THEN Group(words) ELSE words
  IN  written

=============================================================================
