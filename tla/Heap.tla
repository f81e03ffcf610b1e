-------------------------------- MODULE Heap --------------------------------
(***************************************************************************)
(* The nodes of a derivative in memory, as Differentiate hands them to the     *)
(* optimizer (Tree::Node, DifferentiatorNode).                               *)
(***************************************************************************)
EXTENDS Operations, Paths

CONSTANTS
  Variables,        (* The indices of the name table.                          *)
  Number, NaN       (* The numbers told apart, NaN among them.                  *)

Kinds == Operands \cup OperationNames

(* The address CreateNode returns for the constant that takes the place of n.   *)
Fresh(n) == <<0>> \o n

Nodes(derivative) == DOMAIN derivative.kind
AllAddresses(derivative) == Nodes(derivative) \cup {Fresh(n) : n \in Nodes(derivative)}

(* The trees of CreateNode and CopySubtree, which set both links between a node   *)
(* and its children, named by paths; and the order of the buffer, which never     *)
(* holds a node twice, or before one below it.                                 *)
LaidOut(d) ==
  LET nodes == Nodes(d)
  IN  /\ IsFiniteSet(nodes) /\ nodes \subseteq Seq({1, 2}) /\ NULL \notin AllAddresses(d)
      /\ d.root = <<>> /\ <<>> \in nodes
      /\ d.kind \in [nodes -> Kinds]
      /\ d.value \in [nodes -> Number \cup Variables]
      /\ d.left \in [nodes -> nodes \cup {NULL}]
      /\ d.right \in [nodes -> nodes \cup {NULL}]
      /\ d.parent \in [nodes -> nodes \cup {NULL}]
      /\ \A n \in nodes :
           /\ d.left[n]  # NULL => d.left[n]  = Append(n, 1) /\ d.parent[d.left[n]]  = n
           /\ d.right[n] # NULL => d.right[n] = Append(n, 2) /\ d.parent[d.right[n]] = n
           /\ n # <<>> => d.parent[n] # NULL /\ n \in {d.left[d.parent[n]], d.right[d.parent[n]]}
           /\ d.kind[n] = "NUMERIC_NODE" => d.value[n] \in Number
           /\ d.kind[n] \in BinaryOps => d.left[n] # NULL /\ d.right[n] # NULL
           /\ d.kind[n] \in FunctionOps => d.left[n] # NULL
           /\ d.kind[n] = "EQUALS" => d.left[n] # NULL \/ n = <<>>
           /\ d.kind[n] \notin Brackets
      /\ d.registered \in Seq(nodes)
      /\ \A i, j \in DOMAIN d.registered :
           i < j => ~IsPrefix(d.registered[i], d.registered[j])

(* The derivative of an expression in which every operand is a leaf and "=" is no   *)
(* operation: Const and Var build leaves, functions and the rule of EQUALS have    *)
(* one operand.                                                               *)
Proper(d) ==
  /\ d.kind[d.root] = "EQUALS"
  /\ \A n \in Nodes(d) :
       /\ d.kind[n] \notin OperationNames => d.left[n] = NULL /\ d.right[n] = NULL
       /\ d.kind[n] \in FunctionOps \cup {"EQUALS"} => d.right[n] = NULL

(* A tree of Derivative in memory; `literal' has the numbers of the labels.        *)
InMemory(tree, literal) ==
  LET nodes == DOMAIN tree.label
      label(n) == tree.label[n]
  IN  [root   |-> <<>>,
       kind   |-> [n \in nodes |->
                     IF label(n) \in OperationNames THEN label(n)
                     ELSE IF label(n) \in Variables THEN "VARIABLE_NODE" ELSE "NUMERIC_NODE"],
       value  |-> [n \in nodes |->
                     IF label(n) \in DOMAIN literal THEN literal[label(n)]
                     ELSE IF label(n) \in Variables THEN label(n) ELSE NaN],
       left   |-> [n \in nodes |-> LinkTo(tree.label, n, 1)],
       right  |-> [n \in nodes |-> LinkTo(tree.label, n, 2)],
       parent |-> [n \in nodes |-> IF n = <<>> THEN NULL ELSE Front(n)],
       registered |-> tree.registered]

=============================================================================
