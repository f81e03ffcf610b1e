------------------------------ MODULE Optimizer ------------------------------
(***************************************************************************)
(* OptimizeTree and TreeOptimizations: the loop that folds constants and      *)
(* removes neutral elements in the derivative, and what the report does with   *)
(* the reassignments afterwards (DifferentiatorIO): print the definition of    *)
(* every registered node, then free the ones the optimizer detached.          *)
(*                                                                         *)
(* Nodes live at addresses: the path from the root for the nodes of the        *)
(* derivative, the path after a 0 for the constant that replaces one.          *)
(* The reassignments of the expression itself are left out: their nodes are    *)
(* in another tree, which nothing here changes.                              *)
(*                                                                         *)
(* The optimizer is the stack machine of its two recursive functions; `order'  *)
(* holds the operations whose right operand the compiled code evaluates first,  *)
(* which C++ leaves open.                                                    *)
(***************************************************************************)
EXTENDS Heap

CONSTANTS
  Derivatives,      (* The trees Differentiate may leave: records of root,      *)
                    (* kind, value, left, right, parent and registered.        *)
  Zero, One,
  Evaluate(_, _, _), (* The results an operation may have on two numbers.        *)
  Orders            (* Sets of operations whose right operand is evaluated first. *)

ASSUME NumberAssumption ==
  /\ {Zero, One, NaN} \subseteq Number
  /\ NULL \notin Number \cup Variables
  /\ NaN \notin {Zero, One}

ASSUME EvaluateAssumption ==
  \A op \in {"EQUALS"} \cup BinaryOps \cup FunctionOps : \A l, r \in Number : Evaluate(op, l, r) \subseteq Number

VARIABLES
  root,             (* newDifferentiator->expressionTree.root                   *)
  kind, value, left, right, parent,  (* The fields of the nodes: `value' is     *)
                    (* the number of a NUMERIC_NODE, the index of a variable.   *)
  live,             (* The addresses that are allocated.                        *)
  manualDelete,     (* The nodes whose manualDelete flag is set.                *)
  registered,       (* The reassignments buffer.                               *)
  order,            (* The operations whose right operand comes first.          *)
  phase,            (* Where the report is.                                    *)
  stack,            (* The active calls: the node and the results of its children. *)
  changed,          (* The pass has returned TREE_CHANGED so far.               *)
  index             (* reassignmentIndex of the report's loops.                 *)

fields == <<kind, value, left, right, parent>>
vars   == <<root, fields, live, manualDelete, registered, order, phase, stack,
            changed, index>>

Addresses  == DOMAIN kind
Reassigned == {registered[i] : i \in DOMAIN registered}
IsOperation(n) == kind[n] \in OperationNames

(* The nodes below n, n included, as DestroySubtreeNode follows the pointers.    *)
Subtree ==
  LET subtree[n \in Addresses] ==
        {n} \cup (IF left[n]  = NULL THEN {} ELSE subtree[left[n]])
            \cup (IF right[n] = NULL THEN {} ELSE subtree[right[n]])
  IN  subtree

-----------------------------------------------------------------------------
(* The neutral elements of the table: if the child on one of `sides' is the      *)
(* number `at', the operation becomes the constant `result', or, if that is      *)
(* NULL, its other child.                                                     *)
Both == {"left", "right"}

(* Fault: 1 is neutral for both operands of a quotient and a power.             *)
EitherOperand == {"left", "right"}

RightOperand == {"right"}

NeutralElements(op) ==
  CASE op \in {"ADD", "SUB"} -> <<[at |-> Zero, sides |-> Both, result |-> NULL]>>
    [] op = "MUL" -> <<[at |-> Zero, sides |-> Both, result |-> Zero],
                       [at |-> One,  sides |-> Both, result |-> NULL]>>
    [] op = "DIV" -> <<[at |-> Zero, sides |-> {"left"}, result |-> Zero],
                       [at |-> One,  sides |-> RightOperand, result |-> NULL]>>
    [] op = "POW" -> <<[at |-> Zero, sides |-> RightOperand, result |-> One],
                       [at |-> Zero, sides |-> {"left"}, result |-> Zero],
                       [at |-> One,  sides |-> RightOperand, result |-> NULL]>>
    [] OTHER -> <<>>

Child(n, side) == IF side = "left" THEN left[n] ELSE right[n]

IsNeutral(element, n, side) ==
  /\ side \in element.sides
  /\ Child(n, side) # NULL
  /\ kind[Child(n, side)] = "NUMERIC_NODE"
  /\ value[Child(n, side)] = element.at

(* The first element that applies, on the left child if on both, decides.        *)
Neutral(n) ==
  LET elements == NeutralElements(kind[n])
      matches  == {i \in DOMAIN elements : \E side \in Both : IsNeutral(elements[i], n, side)}
      first    == CHOOSE i \in matches : \A j \in matches : i <= j
      side     == IF IsNeutral(elements[first], n, "left") THEN "left" ELSE "right"
  IN  IF matches = {} THEN NULL
      ELSE [result |-> elements[first].result,
            other  |-> Child(n, IF side = "left" THEN "right" ELSE "left")]

-----------------------------------------------------------------------------
(* The stack machine.                                                          *)

Frame(n) == [node |-> n, got |-> <<>>]

Running(at) == phase = at /\ stack # <<>>
Top    == stack[Len(stack)]
Current == Top.node

(* The children the function calls itself for, in order.                        *)
Sides(n) ==
  IF ~IsOperation(n) THEN <<>>
  ELSE IF phase = "compute"
  THEN IF kind[n] \notin BinaryOps THEN <<"left">>
       ELSE IF kind[n] \in order THEN <<"right", "left">> ELSE <<"left", "right">>
  ELSE IF left[n] = NULL
  THEN IF right[n] = NULL THEN <<>> ELSE <<"right">>
  ELSE IF right[n] = NULL THEN <<"left">> ELSE <<"left", "right">>

AllVisited == Len(Top.got) = Len(Sides(Current))

(* The result of the child on the side, once all are visited.                    *)
Got(side) ==
  IF \E i \in DOMAIN Sides(Current) : Sides(Current)[i] = side
  THEN Top.got[CHOOSE i \in DOMAIN Sides(Current) : Sides(Current)[i] = side]
  ELSE NaN

Return(result) ==
  stack' = IF Len(stack) = 1 THEN <<>>
           ELSE [SubSeq(stack, 1, Len(stack) - 1)
                   EXCEPT ![Len(stack) - 1].got = Append(@, result)]

(* Fault: every node is left for the report to free.                            *)
DestroyLater(n, created) ==
  /\ manualDelete' = manualDelete \cup {n}
  /\ live' = live \cup created

(* DestroyIfNotReassignment: the report still needs a registered node.            *)
DestroyIfNotReassignment(n, created) ==
  IF n \in Reassigned
  THEN manualDelete' = manualDelete \cup {n} /\ live' = live \cup created
  ELSE live' = (live \ Subtree[n]) \cup created /\ UNCHANGED manualDelete

(* Fault: the node is taken for the left child of its parent.                   *)
ReplaceLeft(n, new) ==
  /\ left' = [left EXCEPT ![parent[n]] = new]
  /\ UNCHANGED right

(* The pointer of the parent that leads to n leads to new instead.                *)
Replace(n, new) ==
  LET p == parent[n]
  IN  /\ left'  = IF left[p] = n THEN [left EXCEPT ![p] = new] ELSE left
      /\ right' = IF right[p] = n THEN [right EXCEPT ![p] = new] ELSE right

(* The nodes WriteExpressionInternal reads below n: an operation looks at its    *)
(* parent's priority, and a registered child is only named.                      *)
Printed ==
  LET printed[n \in Addresses] ==
        {n} \cup
        IF ~IsOperation(n) \/ n \notin live THEN {}
        ELSE ({parent[n]} \ {NULL}) \cup
             UNION {IF c \in Reassigned THEN {c} ELSE printed[c]
                      : c \in {left[n], right[n]} \ {NULL}}
  IN  printed

(* Fault: the children of a detached node stay.                                 *)
OwnedNone(n) == {}

(* Fault: a child that was given to another node goes with the detached one.      *)
OwnedAll(n) == {left[n], right[n]} \ {NULL}

(* The children that go with a detached node: those that still call it parent.   *)
Owned(n) == {c \in {left[n], right[n]} \ {NULL} : parent[c] = n}

(* What the report frees in place of a detached node.                             *)
Deleted(n) == {n} \cup UNION {Subtree[c] : c \in Owned(n)}

(* What the next step dereferences or frees; of an operation in a pass, what it    *)
(* frees should it be replaced.                                              *)
Touched ==
  CASE phase \in {"compute", "collapse"} /\ stack # <<>> ->
         IF ~IsOperation(Current) \/ ~AllVisited THEN {Current}
         ELSE {parent[Current]} \cup
              (IF Current \in Reassigned THEN {Current} ELSE Subtree[Current])
    [] phase = "print" ->
         IF index = 0 THEN Printed[root]
         ELSE IF index <= Len(registered) THEN Printed[registered[index]] ELSE {}
    [] phase = "delete" /\ index <= Len(registered) ->
         LET n == registered[index]
         IN  IF n \in manualDelete
             THEN ({left[n], right[n]} \ {NULL}) \cup Deleted(n)
             ELSE {n}
    [] phase = "destroy" -> Subtree[root]
    [] OTHER -> {}

Sound == Touched \subseteq live

-----------------------------------------------------------------------------
(* What Differentiate leaves: FitsOptimizer of Differentiation.                    *)
ASSUME DerivativeAssumption == \A d \in Derivatives : LaidOut(d)

(* A field of the tree, extended to the addresses of the constants to come.       *)
Extended(derivative, field, default) ==
  [a \in AllAddresses(derivative) |-> IF a \in Nodes(derivative) THEN field[a] ELSE default]

Init ==
  /\ \E d \in Derivatives :
       /\ root = d.root
       /\ kind   = Extended(d, d.kind, "NUMERIC_NODE")
       /\ value  = Extended(d, d.value, NaN)
       /\ left   = Extended(d, d.left, NULL)
       /\ right  = Extended(d, d.right, NULL)
       /\ parent = Extended(d, d.parent, NULL)
       /\ live = Nodes(d)
       /\ registered = d.registered
  /\ order \in Orders
  /\ manualDelete = {}
  /\ phase = "pass"
  /\ stack = <<>>
  /\ changed = FALSE
  /\ index = 0

(* Fault: a pass starts with the status of the one before.                       *)
StatusKept == changed

StatusReset == FALSE

(* Fault: one pass only.                                                       *)
AfterOnePass == "print"

AfterPass == IF changed THEN "pass" ELSE "print"

(* The loop of OptimizeTree: a pass computes, then collapses.                     *)
BeginPass ==
  /\ phase = "pass"
  /\ left[root] # NULL
  /\ phase' = "compute"
  /\ stack' = <<Frame(left[root])>>
  /\ changed' = StatusReset
  /\ UNCHANGED <<root, fields, live, manualDelete, registered, order, index>>

(* Without a tree both passes return OPTIMIZATION_ERROR, which ends the loop.     *)
RefuseTree ==
  /\ phase = "pass"
  /\ left[root] = NULL
  /\ phase' = "print"
  /\ UNCHANGED <<root, fields, live, manualDelete, registered, order, stack, changed, index>>

BeginCollapse ==
  /\ phase = "compute"
  /\ stack = <<>>
  /\ phase' = "collapse"
  /\ stack' = <<Frame(left[root])>>
  /\ UNCHANGED <<root, fields, live, manualDelete, registered, order, changed, index>>

EndPass ==
  /\ phase = "collapse"
  /\ stack = <<>>
  /\ phase' = AfterPass
  /\ UNCHANGED <<root, fields, live, manualDelete, registered, order, stack, changed, index>>

Descend ==
  /\ phase \in {"compute", "collapse"} /\ stack # <<>>
  /\ Sound
  /\ ~AllVisited
  /\ stack' = Append(stack, Frame(Child(Current, Sides(Current)[Len(Top.got) + 1])))
  /\ UNCHANGED <<root, fields, live, manualDelete, registered, order, phase, changed, index>>

(* ComputeSubtreeInternal                                                      *)

ComputeLeaf ==
  /\ Running("compute")
  /\ Sound
  /\ ~IsOperation(Current)
  /\ Return(IF kind[Current] = "NUMERIC_NODE" THEN value[Current] ELSE NaN)
  /\ UNCHANGED <<root, fields, live, manualDelete, registered, order, phase, changed, index>>

ComputeUnknown ==
  /\ Running("compute")
  /\ Sound
  /\ IsOperation(Current) /\ AllVisited
  /\ NaN \in Evaluate(kind[Current], Got("left"), Got("right"))
  /\ Return(NaN)
  /\ UNCHANGED <<root, fields, live, manualDelete, registered, order, phase, changed, index>>

(* The constant is linked to the parent, but the parent not to the constant.      *)
ComputeFold ==
  /\ Running("compute")
  /\ Sound
  /\ IsOperation(Current) /\ AllVisited
  /\ \E v \in Evaluate(kind[Current], Got("left"), Got("right")) \ {NaN} :
       /\ value' = [value EXCEPT ![Fresh(Current)] = v]
       /\ Return(v)
  /\ Replace(Current, Fresh(Current))
  /\ DestroyIfNotReassignment(Current, {Fresh(Current)})
  /\ changed' = TRUE
  /\ UNCHANGED <<root, kind, parent, registered, order, phase, index>>

(* CollapseNeutralElementsInternal                                             *)

CollapseNothing ==
  /\ Running("collapse")
  /\ Sound
  /\ AllVisited
  /\ ~IsOperation(Current) \/ Neutral(Current) = NULL
  /\ Return(NULL)
  /\ UNCHANGED <<root, fields, live, manualDelete, registered, order, phase, changed, index>>

CollapseToConstant ==
  /\ Running("collapse")
  /\ Sound
  /\ IsOperation(Current) /\ AllVisited
  /\ Neutral(Current) # NULL
  /\ Neutral(Current).result # NULL
  /\ Replace(Current, Fresh(Current))
  /\ value'  = [value EXCEPT ![Fresh(Current)] = Neutral(Current).result]
  /\ parent' = [parent EXCEPT ![Fresh(Current)] = parent[Current]]
  /\ DestroyIfNotReassignment(Current, {Fresh(Current)})
  /\ changed' = TRUE
  /\ Return(NULL)
  /\ UNCHANGED <<root, kind, registered, order, phase, index>>

(* The other child takes the place of the node.  A registered node keeps its      *)
(* pointer to that child; any other is freed without it.                         *)
CollapseToChild ==
  /\ Running("collapse")
  /\ Sound
  /\ IsOperation(Current) /\ AllVisited
  /\ Neutral(Current) # NULL
  /\ Neutral(Current).result = NULL
  /\ LET child == Neutral(Current).other
     IN  /\ Replace(Current, child)
         /\ parent' = [parent EXCEPT ![child] = parent[Current]]
         /\ IF Current \in Reassigned
            THEN manualDelete' = manualDelete \cup {Current} /\ UNCHANGED live
            ELSE live' = live \ ({Current} \cup (Subtree[Current] \ Subtree[child]))
                 /\ UNCHANGED manualDelete
  /\ changed' = TRUE
  /\ Return(NULL)
  /\ UNCHANGED <<root, kind, value, registered, order, phase, index>>

-----------------------------------------------------------------------------
(* The rest of the report.  Index 0 stands for the derivative itself.             *)

WriteExpression ==
  /\ phase = "print"
  /\ Sound
  /\ IF index < Len(registered)
     THEN index' = index + 1 /\ UNCHANGED phase
     ELSE index' = 1 /\ phase' = "delete"
  /\ UNCHANGED <<root, fields, live, manualDelete, registered, order, stack, changed>>

(* Only what the optimizer detached is freed here; the rest is in a tree.         *)
DeleteReassignment ==
  /\ phase = "delete"
  /\ index <= Len(registered)
  /\ Sound
  /\ LET n == registered[index]
     IN  live' = IF n \in manualDelete THEN live \ Deleted(n) ELSE live
  /\ index' = index + 1
  /\ UNCHANGED <<root, fields, manualDelete, registered, order, phase, stack, changed>>

EndDelete ==
  /\ phase = "delete"
  /\ index > Len(registered)
  /\ phase' = "destroy"
  /\ UNCHANGED <<root, fields, live, manualDelete, registered, order, stack, changed, index>>

(* DestroyDifferentiator (&firstDerivative).                                     *)
DestroyTree ==
  /\ phase = "destroy"
  /\ Sound
  /\ live' = live \ Subtree[root]
  /\ phase' = "done"
  /\ UNCHANGED <<root, fields, manualDelete, registered, order, stack, changed, index>>

(* Using or freeing a node that was freed is undefined: the model stops there.    *)
UseFreed ==
  /\ ~Sound
  /\ phase' = "undefined"
  /\ UNCHANGED <<root, fields, live, manualDelete, registered, order, stack, changed, index>>

OptimizeTree ==
  \/ BeginPass \/ RefuseTree \/ BeginCollapse \/ EndPass \/ Descend
  \/ ComputeLeaf \/ ComputeUnknown \/ ComputeFold
  \/ CollapseNothing \/ CollapseToConstant \/ CollapseToChild

WriteReport == WriteExpression \/ DeleteReassignment \/ EndDelete \/ DestroyTree

Next == OptimizeTree \/ WriteReport \/ UseFreed

Spec     == Init /\ [][Next]_vars
FairSpec == Spec /\ WF_vars(Next)

-----------------------------------------------------------------------------
Phases == {"pass", "compute", "collapse", "print", "delete", "destroy", "done", "undefined"}

Links == Addresses \cup {NULL}

(* The variables keep their types: links lead to nodes, the buffer holds nodes,  *)
(* the calls work on nodes and return numbers.                                 *)
TypeOK ==
  /\ root \in Addresses
  /\ kind \in [Addresses -> Kinds]
  /\ value \in [Addresses -> Number \cup Variables]
  /\ left \in [Addresses -> Links]
  /\ right \in [Addresses -> Links]
  /\ parent \in [Addresses -> Links]
  /\ live \subseteq Addresses
  /\ manualDelete \subseteq Reassigned
  /\ registered \in Seq(Addresses)
  /\ order \in Orders
  /\ phase \in Phases
  /\ \A i \in DOMAIN stack :
       /\ stack[i].node \in Addresses
       /\ stack[i].got \in Seq(Number \cup {NULL})
  /\ changed \in BOOLEAN
  /\ index \in 0..(Len(registered) + 1)

InTree == Subtree[root]

(* Throughout the report the derivative is a tree of allocated nodes: every      *)
(* node hangs below one other (n nodes have n - 1 links), an operation knows      *)
(* which, and an operator has both operands.  ComputeSubtreeInternal and          *)
(* ProcessNeutralElement rely on it when they look for the pointer to replace.   *)
TreeIntact ==
  phase # "done" =>
    LET inTree == InTree
        links  == {link \in inTree \X Both : Child(link[1], link[2]) # NULL}
    IN  /\ inTree \subseteq live
        /\ Cardinality(links) = Cardinality(inTree) - 1
        /\ \A link \in links :
             LET child == Child(link[1], link[2])
             IN  IsOperation(child) => parent[child] = link[1]
        /\ \A n \in inTree : kind[n] \in BinaryOps => left[n] # NULL /\ right[n] # NULL

(* The optimizer and the destruction of the derivative never use or free a node    *)
(* that was freed: only the two loops of the report can.                         *)
UndefinedOnlyInReport ==
  [][phase' = "undefined" => phase \in {"print", "delete", "undefined"}]_vars

(* The loop that frees the detached nodes never frees one twice, in whatever order  *)
(* they were registered and detached, and however they nest: the children it takes  *)
(* along are those that still belong to the node.                                *)
FreedOnce ==
  phase = "delete" /\ index <= Len(registered) =>
    LET n == registered[index]
    IN  n \in live /\ (n \in manualDelete => Deleted(n) \subseteq live)

Operand(n) == IF n # NULL /\ kind[n] = "NUMERIC_NODE" THEN value[n] ELSE NaN

(* When OptimizeTree stops there is nothing left to do: no operation has a        *)
(* neutral operand, and none has a number as its value.                         *)
NothingLeft ==
  phase = "print" =>
    \A n \in InTree :
      IsOperation(n) /\ n # root =>
        /\ Neutral(n) = NULL
        /\ NaN \in Evaluate(kind[n], Operand(left[n]), Operand(right[n]))

(* What the report never frees are constants the optimizer computed: everything   *)
(* Differentiate built is freed, and a node that was detached is freed with what  *)
(* still belongs to it.                                                       *)
LeaksOnlyConstants ==
  phase = "done" =>
    \A n \in live : kind[n] = "NUMERIC_NODE" /\ n \in {Fresh(m) : m \in Addresses}

(* The macro DestroyIfNotReassignment spares the registered nodes: the report     *)
(* still prints what R_i stands for.                                           *)
RegisteredSurvive ==
  phase = "print" => Reassigned \subseteq live

(* DestroyChild asks a child whose parent it is before it frees it: the loop looks   *)
(* only at children that exist.                                                *)
DeleteReadsAllocated == phase = "delete" => Sound

(* The derivative as a term: what the pointers of the heap mean.                   *)
TermBelow ==
  LET Label(n) == [kind |-> kind[n], value |-> IF IsOperation(n) THEN NaN ELSE value[n]]
      term[n \in Addresses] ==
        Joined(Label(n), IF left[n]  = NULL THEN <<>> ELSE term[left[n]],
                         IF right[n] = NULL THEN <<>> ELSE term[right[n]])
  IN  term

S == INSTANCE Simplifier WITH term <- TermBelow[root]

(* Every step of the optimizer on the heap, whichever pass it belongs to and         *)
(* whatever it detaches or frees, is a rewriting of the term at one place, or        *)
(* changes nothing of it; and so is everything the report does afterwards.        *)
ImplementsSimplifier == S!Spec

(* OptimizeTree stops, and the report ends or meets a freed node.                 *)
Termination == <>(phase \in {"done", "undefined"})

=============================================================================
