--------------------------- MODULE Differentiation ---------------------------
(***************************************************************************)
(* The call of Differentiate in main: from the tree of an expression to the    *)
(* tree and the buffer the optimizer starts from.  The writes to the buffer may    *)
(* fail; that CreateNode and CopySubtree get no memory, after which a NULL is        *)
(* dereferenced or a subtree is missing, is an outcome of Derive in Session.         *)
(***************************************************************************)
EXTENDS Derivative, Heap

CONSTANTS
  Expressions,      (* The trees ParseFile may leave; None if it accepted none. *)
  Literal,          (* The numbers of the labels that are numbers.            *)
  MaxRefused        (* A bound on the nodes that cannot be written to the buffer.  *)

VARIABLES expression, derivative
vars == <<expression, derivative>>

(* The depths do not matter: the parser's are some of those assumed here.         *)
Parsed(e) ==
  LET nodes == DOMAIN e.label
      Has(p, side) == Append(p, side) \in nodes
  IN  /\ IsFiniteSet(nodes) /\ nodes \subseteq Seq({1, 2}) /\ <<>> \in nodes
      /\ \A p \in nodes : p # <<>> => Front(p) \in nodes
      /\ e.depth \in [nodes -> Nat]
      /\ \A p \in nodes :
           /\ e.label[p] \notin Brackets
           /\ e.label[p] \in BinaryOps \cup {"EQUALS"} => Has(p, 1) /\ Has(p, 2)
           /\ e.label[p] \in FunctionOps => Has(p, 1) /\ ~Has(p, 2)

(* What the parser guarantees of an accepted tree: LinksAgree and FitsDifferentiate *)
(* of Parser.                                                                *)
ASSUME ExpressionAssumption == \A e \in Expressions : e = None \/ Parsed(e)

ASSUME LiteralAssumption ==
  /\ NaN \in Number /\ \A label \in DOMAIN Literal : Literal[label] \in Number
  /\ DOMAIN Literal \cap (Variables \cup OperationNames) = {}

ASSUME NullAssumption == NULL \notin Seq(0..2)

ASSUME RefusedAssumption == MaxRefused \in Nat

Init == expression \in Expressions /\ derivative = None

(* What the buffer holds when the writes of the refused nodes fail.  Each node is given to *)
(* it once, so it does not matter which call of GetReassignments the write was in.      *)
Refusing(tree, refused) ==
  [tree EXCEPT !.registered = R!Written(tree.registered, refused)]

DifferentiateExpression ==
  /\ derivative = None
  /\ LET d == Differentiate(expression)
     IN  \E refused \in SUBSET Range(d.registered) :
           /\ Cardinality(refused) <= MaxRefused
           /\ derivative' = Refusing(d, refused)
  /\ UNCHANGED expression

Next == DifferentiateExpression
Spec == Init /\ [][Next]_vars

-----------------------------------------------------------------------------
(* The rules register results at every level, and GetReassignments goes over the   *)
(* lower levels each time: yet no node is registered twice, and none before a     *)
(* node below it, so R_i are all different and the report frees them in order.     *)
RegisteredOnce ==
  LET paths == derivative.registered
  IN  derivative # None =>
        \A i, j \in DOMAIN paths :
          i < j => ~IsPrefix(paths[i], paths[j])

(* An operand may have got a child by a misparse, and the grammar takes "=" for an   *)
(* operation; a formula has neither.                                           *)
Formula(e) ==
  \A p \in DOMAIN e.label :
    /\ e.label[p] # "EQUALS"
    /\ ~IsOperation(e.label[p]) => \A side \in {1, 2} : Append(p, side) \notin DOMAIN e.label

(* The optimizer climbs the parents, looks at both operands and frees by the        *)
(* buffer: whatever was parsed, the tree and the buffer it is given are as it      *)
(* needs them, and of a formula the derivative is one more.                       *)
FitsOptimizer ==
  derivative # None =>
    LET d == InMemory(derivative, Literal)
    IN  LaidOut(d) /\ (Formula(expression) => Proper(d))

=============================================================================
