------------------------------ MODULE Drawing ------------------------------
(***************************************************************************)
(* The first dump of main: what DumpExpressionTree draws of the tree the        *)
(* parser accepted.                                                          *)
(***************************************************************************)
EXTENDS Parser, Functions

Dumps == INSTANCE Dump

(* The accepted tree as DumpExpressionTree reads it.  One name in the table, at *)
(* index 0, stands for all variables.                                         *)
DumpedTree ==
  Dumps!EmitNode([left |-> left, right |-> right, kind |-> tokens,
                  index |-> [n \in Nodes |-> 0]], 1)[root]

(* Dumping the parser's own result draws the tree and nothing else: every node *)
(* of it once, with its label, and exactly the links of its nodes, so that     *)
(* every node but the topmost has one incoming edge.  It needs the parser to   *)
(* leave no node shared, dropped or destroyed below the root.                   *)
DumpDescribesTree ==
  Accepted =>
    LET dump  == DumpedTree
        drawn == [i \in DOMAIN dump.nodes |-> dump.nodes[i].node]
    IN  /\ IsInjective(drawn)
        /\ Range(drawn) = Below[root]
        /\ \A i \in DOMAIN dump.nodes : dump.nodes[i].label # NULL
        /\ IsInjective([i \in DOMAIN dump.links |-> dump.links[i][2]])
        /\ Range(dump.links) =
             {link \in Below[root] \X (Below[root] \ {root}) :
                link[2] \in {left[link[1]], right[link[1]]}}
        /\ Len(dump.links) = Len(dump.nodes) - 1

=============================================================================
