----------------------------- MODULE Expressions -----------------------------
(***************************************************************************)
(* The trees ParseFile leaves, for terms: <<label>>, <<function, term>> or     *)
(* <<operation, term, term>>; of a misparse also <<operand, term>>.           *)
(***************************************************************************)
EXTENDS Derivative

(* The parser adds up the depths of the children.                              *)
RECURSIVE Linked(_)
Linked(term) ==
  LET l == IF Len(term) > 1 THEN Linked(term[2]) ELSE None
      r == IF Len(term) > 2 THEN Linked(term[3]) ELSE None
      tree == CreateNode(term[1], l, r)
  IN  IF Len(term) = 1 THEN tree
      ELSE [tree EXCEPT !.depth[<<>>] = Depth(l) + Depth(r)]

ParsedTree(term) == GetReassignments(Linked(term))

=============================================================================
