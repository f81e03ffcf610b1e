-------------------------------- MODULE Dump --------------------------------
(***************************************************************************)
(* What DumpExpressionTree (DifferentiatorDump.cpp) writes for graphviz, when   *)
(* no write fails: the statements of the nodes and of the links, in the order    *)
(* of the traversal.  A heap is a record of functions left, right and kind over  *)
(* a set of nodes; index gives the variables' indices in the name table, which    *)
(* has `size' records.                                                        *)
(***************************************************************************)
EXTENDS Operations, Sequences

CONSTANT NULL

GetNodeColor(kind) ==
  CASE kind = "NUMERIC_NODE"  -> "DUMP_NUMERIC_NODE_OUTLINE_COLOR"
    [] kind = "VARIABLE_NODE" -> "DUMP_VARIABLE_NODE_OUTLINE_COLOR"
    [] OTHER                  -> "DUMP_OPERATION_NODE_OUTLINE_COLOR"

(* A variable that is not in the name table gets an empty label: EmitNode drops    *)
(* the NAME_TABLE_ERROR.                                                      *)
EmitNodeData(heap, n, size) ==
  IF heap.kind[n] = "VARIABLE_NODE" /\ heap.index[n] >= size THEN NULL ELSE heap.kind[n]

(* Fault: a node is linked to its left child only.                              *)
EmitLeftConnection(heap, n) ==
  IF heap.left[n] = NULL THEN <<>> ELSE <<<<n, heap.left[n]>>>>

EmitNodeConnections(heap, n) ==
  (IF heap.left[n]  = NULL THEN <<>> ELSE <<<<n, heap.left[n]>>>>) \o
  (IF heap.right[n] = NULL THEN <<>> ELSE <<<<n, heap.right[n]>>>>)

(* The statement of the node, its links, and what its children emit.             *)
EmitNode(heap, size) ==
  LET emitted[n \in DOMAIN heap.left] ==
        LET l == IF heap.left[n]  = NULL THEN [nodes |-> <<>>, links |-> <<>>] ELSE emitted[heap.left[n]]
            r == IF heap.right[n] = NULL THEN [nodes |-> <<>>, links |-> <<>>] ELSE emitted[heap.right[n]]
        IN  [nodes |-> <<[node  |-> n,
                          color |-> GetNodeColor(heap.kind[n]),
                          label |-> EmitNodeData(heap, n, size)]>> \o l.nodes \o r.nodes,
             links |-> EmitNodeConnections(heap, n) \o l.links \o r.links]
  IN  emitted

=============================================================================
