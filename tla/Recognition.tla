---------------------------- MODULE Recognition ----------------------------
(***************************************************************************)
(* What Parser accepts and the tree it makes of it, compared with the          *)
(* declarative grammar.                                                       *)
(***************************************************************************)
EXTENDS Parser

G == INSTANCE Grammar

(* The tree below each node, in the form Grammar uses (its words count from 1).  *)
TreeOf ==
  LET tree[n \in Nodes] ==
        <<n + 1, IF left[n]  = NULL THEN <<>> ELSE tree[left[n]],
                 IF right[n] = NULL THEN <<>> ELSE tree[right[n]]>>
  IN  tree

TreeAt(n) == IF n = NULL THEN <<>> ELSE TreeOf[n]

(* The tokens that neither ended in the tree nor were destroyed.               *)
Dropped == {n \in Nodes : tokens[n] # NULL /\ n \notin Below[root]}

(* Every sentence of the grammar is accepted, with the tree the priorities and *)
(* the left associativity of the grammar prescribe: the recovery in            *)
(* GetUnaryOperation never costs a valid input anything.                       *)
AcceptsSentences ==
  /\ Done
  /\ Terminated
  /\ G!Sentences(lexed.words) # {}
  => Accepted /\ G!Sentences(lexed.words) = {TreeAt(root)}

(* What is accepted without being a sentence has lost tokens on the way: an    *)
(* accepted input all of whose tokens are in the tree (or were brackets) is a  *)
(* sentence, the tree is its tree, and it passes the verification.  A number   *)
(* gets a child, which is a TREE_ERROR, only where tokens were lost.           *)
MisparseDropsTokens ==
  Accepted /\ Dropped = {} =>
    /\ G!Sentences(lexed.words) = {TreeAt(root)}
    /\ \A n \in Below[root] : VerifyDifferentiatorInternal(n)

=============================================================================
