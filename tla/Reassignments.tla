--------------------------- MODULE Reassignments ---------------------------
(***************************************************************************)
(* GetReassignments (Differentiator.cpp): the traversal that gives every    *)
(* operation node of a tree its depth and registers, in the reassignments   *)
(* buffer, each node whose subtree is deeper than MAX_DEPTH.  A registered   *)
(* node gets depth 1 and is later printed as R_{index}.                      *)
(*                                                                         *)
(* The traversal works on disjoint subtrees, so what it does to a node is a  *)
(* function of the node's subtree: the functions below are indexed by node.  *)
(* A heap is a record of functions left, right, depth and operand (is the    *)
(* node numeric or a variable?) over a set of nodes; NULL is not a node.     *)
(***************************************************************************)
EXTENDS Naturals, Sequences

CONSTANT NULL

MAX_DEPTH == 3

(* The nodes at which the traversal returns 1 and touches nothing below.     *)
Shallow(heap, n) == heap.operand[n] \/ heap.depth[n] = 1

(* Sum of the children's results plus one, before the comparison with        *)
(* MAX_DEPTH.  NULL children count for nothing.                               *)
Gather(heap, weight, n) ==
  1 + (IF heap.left[n]  = NULL THEN 0 ELSE weight[heap.left[n]])
    + (IF heap.right[n] = NULL THEN 0 ELSE weight[heap.right[n]])

(* What GetReassignments returns for each node: its new depth.               *)
Weight(heap) ==
  LET weight[n \in DOMAIN heap.left] ==
        IF Shallow(heap, n) THEN 1
        ELSE LET depth == Gather(heap, weight, n)
             IN  IF depth > MAX_DEPTH THEN 1 ELSE depth
  IN  weight

(* The nodes the traversal of each node's subtree gives to WriteDataToBuffer, in     *)
(* order.  They get depth 1 whether the write succeeds or not.                    *)
Registered(heap) ==
  LET weight == Weight(heap)
      registered[n \in DOMAIN heap.left] ==
        IF Shallow(heap, n) THEN <<>>
        ELSE   (IF heap.left[n]  = NULL THEN <<>> ELSE registered[heap.left[n]])
            \o (IF heap.right[n] = NULL THEN <<>> ELSE registered[heap.right[n]])
            \o (IF Gather(heap, weight, n) > MAX_DEPTH THEN <<n>> ELSE <<>>)
  IN  registered

(* The nodes the traversal visits, each below the node it is asked for.      *)
Visited(heap) ==
  LET visited[n \in DOMAIN heap.left] ==
        {n} \cup
        (IF Shallow(heap, n) THEN {}
         ELSE   (IF heap.left[n]  = NULL THEN {} ELSE visited[heap.left[n]])
           \cup (IF heap.right[n] = NULL THEN {} ELSE visited[heap.right[n]]))
  IN  visited

(* Fault: the depth that was computed is not stored.                           *)
DepthKept(heap, root) == heap.depth

(* Depths after GetReassignments (root).                                     *)
DepthAfter(heap, root) ==
  IF root = NULL THEN heap.depth
  ELSE LET weight  == Weight(heap)
           visited == Visited(heap)[root]
       IN  [n \in DOMAIN heap.depth |->
              IF n \in visited /\ ~heap.operand[n] THEN weight[n] ELSE heap.depth[n]]

(* What GetReassignments (root) appends to the buffer if there is memory for it.    *)
AppendedBy(heap, root) ==
  IF root = NULL THEN <<>> ELSE Registered(heap)[root]

(* What the buffer gets of these nodes when the writes of the refused ones fail:     *)
(* nobody looks at the result of a write, and the next one may succeed again.       *)
Written(nodes, refused) ==
  LET written[i \in 0..Len(nodes)] ==
        IF i = 0 THEN <<>>
        ELSE IF nodes[i] \in refused THEN written[i - 1]
        ELSE Append(written[i - 1], nodes[i])
  IN  written[Len(nodes)]

=============================================================================
