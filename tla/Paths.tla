------------------------------- MODULE Paths -------------------------------
(***************************************************************************)
(* Binary trees by value: a function from the paths of a tree's nodes to       *)
(* whatever a node carries.  <<>> is the path of the root, a path followed by   *)
(* 1 or 2 that of its left or right child.                                   *)
(***************************************************************************)
EXTENDS Naturals, SequencesExt

CONSTANT NULL   (* No node. *)

Under(side, paths) == {<<side>> \o p : p \in paths}

(* The trees l and r, empty if there is none, under a new root.                  *)
Joined(top, l, r) ==
  [p \in {<<>>} \cup Under(1, DOMAIN l) \cup Under(2, DOMAIN r) |->
     IF p = <<>> THEN top ELSE IF p[1] = 1 THEN l[Tail(p)] ELSE r[Tail(p)]]

(* The tree below a node, empty if there is no such node.                        *)
SubtreeAt(tree, path) ==
  LET below == {p \in DOMAIN tree : IsPrefix(path, p)}
  IN  [q \in {SubSeq(p, Len(path) + 1, Len(p)) : p \in below} |-> tree[path \o q]]

(* The tree with u in place of what is below a node.                             *)
Grafted(tree, path, u) ==
  [p \in {q \in DOMAIN tree : ~IsPrefix(path, q)} \cup {path \o q : q \in DOMAIN u} |->
     IF IsPrefix(path, p) THEN u[SubSeq(p, Len(path) + 1, Len(p))] ELSE tree[p]]

LinkTo(tree, path, side) ==
  IF Append(path, side) \in DOMAIN tree THEN Append(path, side) ELSE NULL

=============================================================================
