--------------------------- MODULE DerivativeProofs ---------------------------
(***************************************************************************)
(* What Differentiate leaves for the optimizer and the report, for every        *)
(* expression of any size.                                                    *)
(*                                                                         *)
(* The first half goes with the construction: every function that makes a tree   *)
(* keeps it in order if its operands are.  In order means, for the buffer, that   *)
(* a registered node has depth 1: so the next traversal stops there, registers    *)
(* what is above it and never the node again.                                 *)
(*                                                                         *)
(* The second half is about numbers: the value of a tree follows from those of   *)
(* its operands, a copy has the value of what it is a copy of, and each rule,    *)
(* read as a formula, is the one of the textbook wherever both have a value.     *)
(***************************************************************************)
EXTENDS Slopes, PathsProofs

(* The traversal, and recursion and induction over trees.                        *)
RP == INSTANCE ReassignmentsProofs

Has(tree, p, side) == Append(p, side) \in DOMAIN tree.label

(* A node has the operands its label needs.  `proper' says that there is no "="     *)
(* inside the expression and that operands have no children.                    *)
Arity(tree, p, proper) ==
  /\ tree.label[p] \notin Brackets
  /\ tree.label[p] \in BinaryOps => Has(tree, p, 1) /\ Has(tree, p, 2)
  /\ tree.label[p] \in FunctionOps => Has(tree, p, 1) /\ ~Has(tree, p, 2)
  /\ tree.label[p] = "EQUALS" => Has(tree, p, 1)
  /\ proper => tree.label[p] # "EQUALS"
  /\ proper /\ ~IsOperation(tree.label[p]) => ~Has(tree, p, 1) /\ ~Has(tree, p, 2)

(* No node is before itself or a node below it.                                  *)
Ordered(s) == \A i, j \in DOMAIN s : i < j => ~IsPrefix(s[i], s[j])

(* The registered nodes are nodes of the tree where traversals stop, in order.       *)
Buffered(tree) ==
  /\ tree.registered \in Seq(Path)
  /\ \A i \in DOMAIN tree.registered :
       tree.registered[i] \in DOMAIN tree.label /\ tree.depth[tree.registered[i]] = 1
  /\ Ordered(tree.registered)

Shaped(tree) ==
  LET nodes == DOMAIN tree.label
  IN  /\ Closed(nodes) /\ IsFiniteSet(nodes) /\ <<>> \in nodes
      /\ tree.depth \in [nodes -> Nat]
      /\ Buffered(tree)

Records(labels) ==
  [label : UNION {[S -> labels] : S \in SUBSET Path},
   depth : UNION {[S -> Nat] : S \in SUBSET Path},
   registered : Seq(Path)]

(* The trees in order.                                                          *)
Trees(labels, proper) ==
  {tree \in Records(labels) :
     Shaped(tree) /\ \A p \in DOMAIN tree.label : Arity(tree, p, proper)}

-----------------------------------------------------------------------------
(* Sequences of paths.                                                         *)

(* The nodes that begin with a path.                                            *)
BelowIn(nodes) == [p \in nodes |-> {q \in nodes : IsPrefix(p, q)}]

LEMMA OrderedIs ==
  ASSUME NEW nodes, nodes \subseteq Path, NEW s \in Seq(Path),
         \A i \in DOMAIN s : s[i] \in nodes
  PROVE  Ordered(s) <=> RP!InOrder(BelowIn(nodes), s)
  BY DEF Ordered, RP!InOrder, BelowIn

LEMMA ConcatOrdered ==
  ASSUME NEW s \in Seq(Path), NEW t \in Seq(Path), Ordered(s), Ordered(t),
         \A i \in DOMAIN s, j \in DOMAIN t : ~IsPrefix(s[i], t[j])
  PROVE  /\ s \o t \in Seq(Path) /\ Ordered(s \o t)
         /\ \A x : (\E i \in DOMAIN (s \o t) : (s \o t)[i] = x)
                     <=> (\E i \in DOMAIN s : s[i] = x) \/ (\E i \in DOMAIN t : t[i] = x)
<1> DEFINE below == BelowIn(Path)
<1>1. \A u \in Seq(Path) : \A i \in DOMAIN u : u[i] \in Path
  BY ElementOfSeq, LenProperties
<1>2. \A u \in Seq(Path) : Ordered(u) <=> RP!InOrder(below, u)
  BY <1>1, OrderedIs
<1>3. \A x \in RP!Elements(s), y \in RP!Elements(t) : y \notin below[x]
  BY <1>1 DEF RP!Elements, BelowIn
<1> HIDE DEF below
<1>4. RP!InOrder(below, s \o t)
  BY <1>2, <1>3, RP!ConcatInOrder
<1>5. s \o t \in Seq(Path)
  BY ConcatProperties
<1>6. RP!Elements(s \o t) = RP!Elements(s) \cup RP!Elements(t)
  BY RP!ConcatElements
<1>7. QED
  BY <1>2, <1>4, <1>5, <1>6 DEF RP!Elements

LEMMA MovedIs ==
  ASSUME NEW side \in {1, 2}, NEW s \in Seq(Path)
  PROVE  /\ Moved(side, s) \in Seq(Path)
         /\ DOMAIN Moved(side, s) = DOMAIN s
         /\ \A i \in DOMAIN s : s[i] \in Path /\ Moved(side, s)[i] = <<side>> \o s[i]
         /\ Ordered(s) => Ordered(Moved(side, s))
<1>1. DOMAIN s = 1..Len(s) /\ Len(s) \in Nat /\ \A i \in DOMAIN s : s[i] \in Path
  BY ElementOfSeq, LenProperties
<1>2. DOMAIN Moved(side, s) = DOMAIN s /\ \A i \in DOMAIN s : Moved(side, s)[i] = <<side>> \o s[i]
  BY DEF Moved
<1>3. Moved(side, s) \in Seq(Path)
  <2>1. \A i \in 1..Len(s) : <<side>> \o s[i] \in Path
    BY <1>1, PushIs
  <2>2. Moved(side, s) = [i \in 1..Len(s) |-> <<side>> \o s[i]]
    BY <1>1 DEF Moved
  <2>3. QED
    BY <1>1, <2>1, <2>2
<1>4. ASSUME Ordered(s)
      PROVE  Ordered(Moved(side, s))
  <2>1. ASSUME NEW i \in DOMAIN s, NEW j \in DOMAIN s, i < j
        PROVE  ~IsPrefix(Moved(side, s)[i], Moved(side, s)[j])
    <3>1. ~IsPrefix(s[i], s[j])
      BY <1>4, <2>1 DEF Ordered
    <3>2. ~IsPrefix(<<side>> \o s[i], <<side>> \o s[j])
      BY <1>1, <3>1, PushPrefix
    <3>3. QED
      BY <1>2, <3>2
  <2>2. QED
    BY <1>2, <2>1 DEF Ordered
<1>5. QED
  BY <1>1, <1>2, <1>3, <1>4

-----------------------------------------------------------------------------
(* New nodes.                                                                  *)

LEMMA NoneIs ==
  /\ DOMAIN None.label = {} /\ DOMAIN None.depth = {}
  /\ None.registered = <<>> /\ DOMAIN None.registered = {} /\ Depth(None) = 0
  /\ \A labels, proper : None \notin Trees(labels, proper)
<1>1. /\ None.label = <<>> /\ None.depth = <<>> /\ None.registered = <<>>
      /\ DOMAIN <<>> = {} /\ Depth(None) = 0
  BY DEF None, Depth
<1>2. \A labels, proper : \A tree \in Trees(labels, proper) : <<>> \in DOMAIN tree.label
  BY DEF Trees, Shaped
<1>3. QED
  BY <1>1, <1>2

(* What an operand of a new node brings with it.                                 *)
Operand(t, labels, proper) ==
  /\ Closed(DOMAIN t.label) /\ Rooted(DOMAIN t.label) /\ IsFiniteSet(DOMAIN t.label)
  /\ t.label \in [DOMAIN t.label -> labels] /\ t.depth \in [DOMAIN t.label -> Nat]
  /\ Buffered(t)
  /\ \A p \in DOMAIN t.label : Arity(t, p, proper)
  /\ Depth(t) \in Nat
  /\ DOMAIN t.label # {} <=> t # None

LEMMA OperandIs ==
  ASSUME NEW labels, NEW proper, NEW t \in Trees(labels, proper) \cup {None}
  PROVE  Operand(t, labels, proper)
<1>1. CASE t = None
  <2>1. /\ DOMAIN t.label = {} /\ t.label \in [{} -> labels] /\ t.depth \in [{} -> Nat]
        /\ t.registered = <<>> /\ DOMAIN t.registered = {} /\ Depth(t) = 0
    BY <1>1, NoneIs DEF None
  <2>2. QED
    BY <1>1, <2>1, FS_EmptySet, EmptySeq DEF Operand, Buffered, Closed, Rooted, Ordered
<1>2. CASE t \in Trees(labels, proper) /\ t # None
  <2>1. /\ t \in Records(labels) /\ Shaped(t)
        /\ \A p \in DOMAIN t.label : Arity(t, p, proper)
    BY <1>2 DEF Trees
  <2>2. t.label \in [DOMAIN t.label -> labels]
    BY <2>1 DEF Records
  <2>3. <<>> \in DOMAIN t.label /\ t.depth \in [DOMAIN t.label -> Nat]
    BY <2>1 DEF Shaped
  <2>4. Depth(t) \in Nat
    BY <1>2, <2>3 DEF Depth
  <2>5. QED
    BY <1>2, <2>1, <2>2, <2>3, <2>4 DEF Operand, Shaped, Rooted
<1>3. QED
  BY <1>1, <1>2

(* The trees that may be operands of a new node.                                  *)
OperandTrees(labels, proper) == Trees(labels, proper) \cup {None}

LEMMA CreateNodeIs ==
  ASSUME NEW labels, NEW proper, NEW label \in labels,
         NEW l \in OperandTrees(labels, proper), NEW r \in OperandTrees(labels, proper)
  PROVE  LET t == CreateNode(label, l, r)
         IN  /\ t \in Records(labels) /\ Shaped(t) /\ t.label[<<>>] = label
             /\ Has(t, <<>>, 1) <=> l # None
             /\ Has(t, <<>>, 2) <=> r # None
             /\ \A p \in DOMAIN t.label : p # <<>> => Arity(t, p, proper)
<1> DEFINE t == CreateNode(label, l, r)
           nodes == DOMAIN t.label
           top == 1 + Depth(l) + Depth(r)
<1>1. /\ t.label = Joined(label, l.label, r.label)
      /\ t.depth = Joined(top, l.depth, r.depth)
      /\ t.registered = Moved(1, l.registered) \o Moved(2, r.registered)
      /\ t = [label |-> t.label, depth |-> t.depth, registered |-> t.registered]
  BY DEF CreateNode
<1> HIDE DEF t
<1>2. Operand(l, labels, proper) /\ Operand(r, labels, proper)
  BY OperandIs DEF OperandTrees
<1>3. /\ Closed(DOMAIN l.label) /\ Rooted(DOMAIN l.label) /\ IsFiniteSet(DOMAIN l.label)
      /\ Closed(DOMAIN r.label) /\ Rooted(DOMAIN r.label) /\ IsFiniteSet(DOMAIN r.label)
      /\ (DOMAIN l.label # {} <=> l # None) /\ (DOMAIN r.label # {} <=> r # None)
      /\ top \in Nat
      /\ \A p \in DOMAIN l.label : l.label[p] \in labels /\ l.depth[p] \in Nat
      /\ \A p \in DOMAIN r.label : r.label[p] \in labels /\ r.depth[p] \in Nat
      /\ DOMAIN l.depth = DOMAIN l.label /\ DOMAIN r.depth = DOMAIN r.label
  BY <1>2 DEF Operand
<1>4. DOMAIN l.label \subseteq Path /\ DOMAIN r.label \subseteq Path /\ <<>> \in Path
  BY <1>3, EmptySeq DEF Closed, Path
<1>5. Closed(nodes) /\ IsFiniteSet(nodes)
      /\ (Has(t, <<>>, 1) <=> l # None) /\ (Has(t, <<>>, 2) <=> r # None)
  BY <1>1, <1>3, JoinedClosed DEF Has
<1>6. /\ nodes \subseteq Path /\ <<>> \in nodes
      /\ \A p \in Path : /\ <<1>> \o p \in nodes <=> p \in DOMAIN l.label
                         /\ <<2>> \o p \in nodes <=> p \in DOMAIN r.label
      /\ \A q \in nodes : \/ q = <<>>
                          \/ \E p \in DOMAIN l.label : q = <<1>> \o p
                          \/ \E p \in DOMAIN r.label : q = <<2>> \o p
  <2> DEFINE a == l.label
             b == r.label
  <2>1. DOMAIN a \subseteq Path /\ DOMAIN b \subseteq Path /\ t.label = Joined(label, a, b)
    BY <1>1, <1>4
  <2> HIDE DEF a, b
  <2>2. /\ nodes \subseteq Path /\ <<>> \in nodes
        /\ \A p \in Path : /\ <<1>> \o p \in nodes <=> p \in DOMAIN a
                           /\ <<2>> \o p \in nodes <=> p \in DOMAIN b
    BY <2>1, JoinedIs
  <2>3. ASSUME NEW q \in nodes
        PROVE  \/ q = <<>>
               \/ \E p \in DOMAIN a : q = <<1>> \o p
               \/ \E p \in DOMAIN b : q = <<2>> \o p
    <3>1. nodes = {<<>>} \cup Under(1, DOMAIN a) \cup Under(2, DOMAIN b)
      BY <2>1 DEF Joined
    <3>2. QED
      BY <3>1 DEF Under
  <2>4. QED
    BY <2>2, <2>3 DEF a, b
<1>7. /\ t.label[<<>>] = label /\ t.depth[<<>>] = top /\ DOMAIN t.depth = nodes
      /\ \A p \in DOMAIN l.label :
           t.label[<<1>> \o p] = l.label[p] /\ t.depth[<<1>> \o p] = l.depth[p]
      /\ \A p \in DOMAIN r.label :
           t.label[<<2>> \o p] = r.label[p] /\ t.depth[<<2>> \o p] = r.depth[p]
  <2>1. /\ t.label[<<>>] = label
        /\ \A p \in DOMAIN l.label : t.label[<<1>> \o p] = l.label[p]
        /\ \A p \in DOMAIN r.label : t.label[<<2>> \o p] = r.label[p]
    BY <1>1, <1>4, JoinedIs
  <2>2. /\ t.depth[<<>>] = top
        /\ \A p \in DOMAIN l.depth : t.depth[<<1>> \o p] = l.depth[p]
        /\ \A p \in DOMAIN r.depth : t.depth[<<2>> \o p] = r.depth[p]
    BY <1>1, <1>3, <1>4, JoinedIs
  <2>3. DOMAIN t.depth = nodes
    BY <1>1, <1>3 DEF Joined
  <2>4. QED
    BY <1>3, <2>1, <2>2, <2>3
<1> HIDE DEF top
<1>8. ASSUME NEW q \in nodes
      PROVE  t.label[q] \in labels /\ t.depth[q] \in Nat
  <2>1. CASE q = <<>>
    BY <1>3, <1>7, <2>1
  <2>2. ASSUME NEW p \in DOMAIN l.label, q = << 1 >> \o p
        PROVE  t.label[q] \in labels /\ t.depth[q] \in Nat
    BY <1>3, <1>7, <2>2
  <2>3. ASSUME NEW p \in DOMAIN r.label, q = << 2 >> \o p
        PROVE  t.label[q] \in labels /\ t.depth[q] \in Nat
    BY <1>3, <1>7, <2>3
  <2>4. QED
    BY <1>6, <2>1, <2>2, <2>3
<1>9. t.label \in [nodes -> labels] /\ t.depth \in [nodes -> Nat]
  <2>1. /\ t.label = [q \in DOMAIN t.label |-> t.label[q]]
        /\ t.depth = [q \in DOMAIN t.depth |-> t.depth[q]]
    BY <1>1 DEF Joined
  <2>2. QED
    BY <1>7, <1>8, <2>1
<1>10. Buffered(t)
  <2> DEFINE s == Moved(1, l.registered)
             u == Moved(2, r.registered)
  <2>1. /\ s \in Seq(Path) /\ DOMAIN s = DOMAIN l.registered /\ Ordered(s)
        /\ \A i \in DOMAIN s : l.registered[i] \in Path /\ s[i] = <<1>> \o l.registered[i]
    BY SMTT(20), <1>2, MovedIs DEF Operand, Buffered
  <2>2. /\ u \in Seq(Path) /\ DOMAIN u = DOMAIN r.registered /\ Ordered(u)
        /\ \A i \in DOMAIN u : r.registered[i] \in Path /\ u[i] = <<2>> \o r.registered[i]
    BY <1>2, MovedIs DEF Operand, Buffered
  <2> HIDE DEF s, u
  <2>3. ASSUME NEW i \in DOMAIN s, NEW j \in DOMAIN u
        PROVE  ~IsPrefix(s[i], u[j])
    <3>1. /\ s[i] = <<1>> \o l.registered[i] /\ l.registered[i] \in Path
          /\ u[j] = <<2>> \o r.registered[j] /\ r.registered[j] \in Path
      BY <2>1, <2>2
    <3>2. ~IsPrefix(<<1>> \o l.registered[i], <<2>> \o r.registered[j])
      BY <3>1, PushPrefix
    <3>3. QED
      BY <3>1, <3>2
  <2>4. /\ s \o u \in Seq(Path) /\ Ordered(s \o u)
        /\ \A x : (\E i \in DOMAIN (s \o u) : (s \o u)[i] = x)
                    <=> (\E i \in DOMAIN s : s[i] = x) \/ (\E i \in DOMAIN u : u[i] = x)
    BY <2>1, <2>2, <2>3, ConcatOrdered
  <2>5. t.registered = s \o u
    BY <1>1 DEF s, u
  <2>6. ASSUME NEW i \in DOMAIN s
        PROVE  s[i] \in nodes /\ t.depth[s[i]] = 1
    <3>1. l.registered[i] \in DOMAIN l.label /\ l.depth[l.registered[i]] = 1
      BY <1>2, <2>1 DEF Operand, Buffered
    <3>2. s[i] = <<1>> \o l.registered[i] /\ l.registered[i] \in Path
      BY <2>1
    <3>3. QED
      BY <1>6, <1>7, <3>1, <3>2
  <2>7. ASSUME NEW i \in DOMAIN u
        PROVE  u[i] \in nodes /\ t.depth[u[i]] = 1
    <3>1. r.registered[i] \in DOMAIN r.label /\ r.depth[r.registered[i]] = 1
      BY <1>2, <2>2 DEF Operand, Buffered
    <3>2. u[i] = <<2>> \o r.registered[i] /\ r.registered[i] \in Path
      BY <2>2
    <3>3. QED
      BY <1>6, <1>7, <3>1, <3>2
  <2>8. ASSUME NEW i \in DOMAIN t.registered
        PROVE  t.registered[i] \in nodes /\ t.depth[t.registered[i]] = 1
    BY <2>4, <2>5, <2>6, <2>7
  <2>9. QED
    BY <2>4, <2>5, <2>8 DEF Buffered
<1>11. ASSUME NEW q \in nodes, q # <<>>
       PROVE  Arity(t, q, proper)
  <2>1. ASSUME NEW side \in {1, 2}, NEW tree,
               DOMAIN tree.label \subseteq Path,
               \A p \in Path : <<side>> \o p \in nodes <=> p \in DOMAIN tree.label,
               NEW p \in DOMAIN tree.label, q = <<side>> \o p,
               t.label[<<side>> \o p] = tree.label[p], Arity(tree, p, proper)
        PROVE  Arity(t, q, proper)
    <3>1. ASSUME NEW way \in {1, 2}
          PROVE  Has(t, q, way) <=> Has(tree, p, way)
      <4>1. Append(q, way) = <<side>> \o Append(p, way) /\ Append(p, way) \in Path
        BY ZenonT(40), <2>1, PushChild, ChildPath
      <4>2. QED
        BY <2>1, <4>1 DEF Has
    <3>2. t.label[q] = tree.label[p]
      BY <2>1
    <3>3. QED
      BY <2>1, <3>1, <3>2 DEF Arity
  <2>2. ASSUME NEW p \in DOMAIN l.label, q = << 1 >> \o p
        PROVE  Arity(t, q, proper)
    BY <1>2, <1>4, <1>6, <1>7, <2>1, <2>2 DEF Operand
  <2>3. ASSUME NEW p \in DOMAIN r.label, q = << 2 >> \o p
        PROVE  Arity(t, q, proper)
    BY <1>2, <1>4, <1>6, <1>7, <2>1, <2>3 DEF Operand
  <2>4. QED
    BY <1>6, <1>11, <2>2, <2>3
<1>12. t \in Records(labels)
  BY <1>1, <1>6, <1>9, <1>10 DEF Records, Buffered
<1>13. Shaped(t)
  BY <1>5, <1>6, <1>9, <1>10 DEF Shaped
<1>14. QED
  BY <1>5, <1>7, <1>11, <1>12, <1>13 DEF t

(* A new node is in order if it has the operands of its label.                    *)
LEMMA NodeInOrder ==
  ASSUME NEW labels, NEW proper, NEW label \in labels,
         NEW l \in Trees(labels, proper) \cup {None},
         NEW r \in Trees(labels, proper) \cup {None},
         label \notin Brackets,
         label \in BinaryOps => l # None /\ r # None,
         label \in FunctionOps => l # None /\ r = None,
         label = "EQUALS" => l # None /\ ~proper,
         label \notin OperationNames => l = None /\ r = None
  PROVE  CreateNode(label, l, r) \in Trees(labels, proper)
<1> DEFINE t == CreateNode(label, l, r)
<1>1. /\ t \in Records(labels) /\ Shaped(t) /\ t.label[<<>>] = label
      /\ Has(t, <<>>, 1) <=> l # None
      /\ Has(t, <<>>, 2) <=> r # None
      /\ \A p \in DOMAIN t.label : p # <<>> => Arity(t, p, proper)
  BY CreateNodeIs DEF OperandTrees
<1> HIDE DEF t
<1>2. Arity(t, <<>>, proper)
  BY <1>1 DEF Arity, IsOperation
<1>3. QED
  BY <1>1, <1>2 DEF Trees, t

-----------------------------------------------------------------------------
(* The rules.                                                                  *)

(* The labels in the derivative of an expression.                               *)
Labels(e) == {e.label[p] : p \in DOMAIN e.label} \cup OperationNames \cup {"0", "1", "2", "-1"}

(* A rule puts the derivatives and the copies of the operands in order.           *)
LEMMA RuleInOrder ==
  ASSUME NEW e, NEW proper, NEW op \in {"EQUALS"} \cup BinaryOps \cup FunctionOps,
         proper => op # "EQUALS",
         NEW dl \in Trees(Labels(e), proper), NEW l \in Trees(Labels(e), proper),
         NEW dr, NEW r,
         op \in BinaryOps => dr \in Trees(Labels(e), proper) /\ r \in Trees(Labels(e), proper)
  PROVE  Rule(op, dl, dr, l, r) \in Trees(Labels(e), proper)
<1> DEFINE T == Trees(Labels(e), proper)
<1>1. /\ OperationNames \subseteq Labels(e) /\ {"0", "1", "2", "-1"} \subseteq Labels(e)
      /\ None \notin T
  BY NoneIs DEF Labels
<1>2. ASSUME NEW a \in T, NEW b \in T
      PROVE  /\ Add(a, b) \in T /\ Sub(a, b) \in T /\ Mul(a, b) \in T
             /\ Div(a, b) \in T /\ Pow(a, b) \in T
  <2>1. ASSUME NEW name \in BinaryOps
        PROVE  CreateNode(name, a, b) \in T
    <3>1. /\ name \in Labels(e) /\ name \notin Brackets /\ name \notin FunctionOps
          /\ name # "EQUALS" /\ name \in OperationNames /\ a # None /\ b # None
      BY <1>1 DEF BinaryOps, Brackets, FunctionOps, OperationNames
    <3>2. QED
      BY <3>1, NodeInOrder
  <2>2. QED
    BY <2>1 DEF BinaryOps, Add, Sub, Mul, Div, Pow
<1>3. ASSUME NEW a \in T, NEW name \in FunctionOps
      PROVE  Function(name, a) \in T
  <2>1. /\ name \in Labels(e) /\ name \notin Brackets /\ name \notin BinaryOps
        /\ name # "EQUALS" /\ name \in OperationNames /\ a # None
    BY <1>1 DEF BinaryOps, Brackets, FunctionOps, OperationNames
  <2>2. QED
    BY <2>1, NodeInOrder DEF Function
<1>4. ASSUME NEW number \in {"0", "1", "2", "-1"}
      PROVE  Const(number) \in T
  <2>1. number \in Labels(e) /\ number \notin OperationNames
    BY <1>1 DEF BinaryOps, Brackets, FunctionOps, OperationNames
  <2>2. number \notin Brackets \cup BinaryOps \cup FunctionOps \cup {"EQUALS"}
    BY <2>1 DEF OperationNames
  <2>3. QED
    BY <2>1, <2>2, NodeInOrder DEF Const
<1> HIDE DEF T
<1>5. dl \in T /\ l \in T /\ (op \in BinaryOps => dr \in T /\ r \in T)
  BY DEF T
<1>6. CASE op = "EQUALS"
  <2>1. /\ op \in Labels(e) /\ op \notin Brackets /\ op \notin BinaryOps
        /\ op \notin FunctionOps /\ op \in OperationNames
    BY <1>1, <1>6 DEF BinaryOps, Brackets, FunctionOps, OperationNames
  <2>2. CreateNode(op, dl, None) \in T
    BY <1>1, <1>5, <1>6, <2>1, NodeInOrder DEF T
  <2>3. QED
    BY <1>6, <2>2 DEF Rule, FunctionOps, T
<1>7. CASE op \in BinaryOps
  <2>1. dr \in T /\ r \in T
    BY <1>5, <1>7
  <2>2. Const("2") \in T /\ Function("LN", l) \in T
    BY <1>3, <1>4, <1>5 DEF FunctionOps
  <2>3. CASE op = "ADD"
    BY <1>2, <1>5, <2>1, <2>3 DEF Rule, FunctionOps, T
  <2>4. CASE op = "SUB"
    BY <1>2, <1>5, <2>1, <2>4 DEF Rule, FunctionOps, T
  <2>5. CASE op = "MUL"
    BY <1>2, <1>5, <2>1, <2>5 DEF Rule, FunctionOps, T, DiffMul
  <2>6. CASE op = "DIV"
    BY <1>2, <1>5, <2>1, <2>2, <2>6 DEF Rule, FunctionOps, T, DiffDiv
  <2>7. CASE op = "POW"
    BY <1>2, <1>5, <2>1, <2>2, <2>7 DEF Rule, FunctionOps, T, DiffPow
  <2>8. QED
    BY <1>7, <2>3, <2>4, <2>5, <2>6, <2>7 DEF BinaryOps
<1>8. CASE op \in FunctionOps
  <2>1. Rule(op, dl, dr, l, r) = DiffFunction(op, dl, l)
    BY <1>8 DEF Rule, FunctionOps
  <2>2. Const("2") \in T /\ Const("-1") \in T /\ \A name \in FunctionOps : Function(name, l) \in T
    BY <1>3, <1>4, <1>5
  <2>3. /\ Function("SIN", l) \in T /\ Function("COS", l) \in T /\ Function("SQRT", l) \in T
        /\ Function("LN", l) \in T /\ Function("EXP", l) \in T
    BY <2>2 DEF FunctionOps
  <2>4. CASE op = "SIN"
    BY <1>2, <1>5, <2>1, <2>3, <2>4 DEF DiffFunction, T
  <2>5. CASE op = "COS"
    BY <1>2, <1>5, <2>1, <2>2, <2>3, <2>5 DEF DiffFunction, T
  <2>6. CASE op = "SQRT"
    BY <1>2, <1>5, <2>1, <2>2, <2>3, <2>6 DEF DiffFunction, T
  <2>7. CASE op = "LN"
    BY <1>2, <1>5, <2>1, <2>7 DEF DiffFunction, T
  <2>8. CASE op = "EXP"
    BY <1>2, <1>5, <2>1, <2>3, <2>8 DEF DiffFunction, T
  <2>9. QED
    BY <1>8, <2>4, <2>5, <2>6, <2>7, <2>8 DEF FunctionOps
<1>9. QED
  BY <1>6, <1>7, <1>8

-----------------------------------------------------------------------------
(* The traversal of a tree.                                                    *)

(* The links of a tree have no cycle, each node has one owner, and what is below a   *)
(* node begins with its path.                                                  *)
LEMMA LinksAre ==
  ASSUME NEW tree, Closed(DOMAIN tree.label), IsFiniteSet(DOMAIN tree.label)
  PROVE  /\ DOMAIN Links(tree).left = DOMAIN tree.label
         /\ \A p \in DOMAIN tree.label : Links(tree).operand[p] <=> ~IsOperation(tree.label[p])
         /\ Links(tree).depth = tree.depth
         /\ \A p \in DOMAIN tree.label :
              /\ Links(tree).left[p] = LinkTo(tree.label, p, 1)
              /\ Links(tree).right[p] = LinkTo(tree.label, p, 2)
         /\ \E top \in Nat : \E rank \in [DOMAIN tree.label -> 0..top] :
              RP!Ranked(Links(tree), rank, top)
         /\ RP!OneOwner(Links(tree))
         /\ RP!IsBelow(Links(tree), BelowIn(DOMAIN tree.label))
<1> DEFINE nodes == DOMAIN tree.label
           heap == Links(tree)
           below == BelowIn(nodes)
<1>1. /\ heap.left = [p \in nodes |-> LinkTo(tree.label, p, 1)]
      /\ heap.right = [p \in nodes |-> LinkTo(tree.label, p, 2)]
      /\ heap.depth = tree.depth
      /\ heap.operand = [p \in nodes |-> ~IsOperation(tree.label[p])]
  BY DEF Links
<1>2. \A p \in nodes : p \in Path /\ p \in Seq(0..2) /\ p # NULL
  <2>1. Path \subseteq Seq(0..2)
    BY SeqMonotonic DEF Path
  <2>2. QED
    BY <2>1, NullAssumption DEF Closed
<1>3. ASSUME NEW p \in nodes, NEW side \in {1, 2}
      PROVE  /\ LinkTo(tree.label, p, side) \in nodes \cup {NULL}
             /\ LinkTo(tree.label, p, side) # NULL <=> Append(p, side) \in nodes
             /\ LinkTo(tree.label, p, side) # NULL => LinkTo(tree.label, p, side) = Append(p, side)
  BY <1>2 DEF LinkTo
<1> HIDE DEF heap
<1>4. /\ DOMAIN heap.left = nodes
      /\ \A p \in nodes : /\ heap.left[p] = LinkTo(tree.label, p, 1)
                          /\ heap.right[p] = LinkTo(tree.label, p, 2)
                          /\ heap.operand[p] <=> ~IsOperation(tree.label[p])
  BY <1>1
<1>5. ASSUME NEW p \in nodes, NEW child \in RP!Children(heap, p)
      PROVE  \E side \in {1, 2} : child = Append(p, side)
  BY <1>3, <1>4 DEF RP!Children
<1>6. PICK b \in Nat : \A p \in nodes : Len(p) <= b
  <2>1. nodes \subseteq Seq(0..2)
    BY <1>2
  <2>2. QED
    BY <2>1, LengthsBounded
<1> DEFINE rank == [p \in nodes |-> b - Len(p)]
<1>7. RP!Ranked(heap, rank, b) /\ rank \in [nodes -> 0..b]
  <2>1. \A p \in nodes : Len(p) \in Nat /\ Len(p) <= b
    BY <1>2, <1>6 DEF Path
  <2>2. rank \in [nodes -> 0..b]
    BY <2>1
  <2>3. ASSUME NEW p \in nodes, NEW child \in RP!Children(heap, p)
        PROVE  rank[child] < rank[p]
    <3>1. PICK side \in {1, 2} : child = Append(p, side)
      BY <1>5
    <3>2. Len(child) = Len(p) + 1
      BY <1>2, <3>1, ChildPath
    <3>3. child \in nodes
      BY <1>3, <1>4 DEF RP!Children
    <3>4. QED
      BY <2>1, <3>2, <3>3
  <2> HIDE DEF rank
  <2>4. /\ heap.left \in [nodes -> nodes \cup {NULL}] /\ heap.right \in [nodes -> nodes \cup {NULL}]
        /\ NULL \notin nodes
    BY <1>1, <1>2, <1>3
  <2>5. QED
    BY <1>4, <2>2, <2>3, <2>4 DEF RP!Ranked
<1>8. RP!OneOwner(heap)
  <2>1. ASSUME NEW m \in nodes, NEW n \in nodes, NEW c \in RP!Children(heap, m), c \in RP!Children(heap, n)
        PROVE  m = n
    <3>1. PICK s \in {1, 2} : c = Append(m, s)
      BY <1>5
    <3>2. PICK t \in {1, 2} : c = Append(n, t)
      BY <1>5, <2>1
    <3>3. QED
      BY <1>2, <3>1, <3>2, ChildrenApart
  <2>2. ASSUME NEW n \in nodes, heap.left[n] # NULL, heap.left[n] = heap.right[n]
        PROVE  FALSE
    <3>1. heap.left[n] = Append(n, 1) /\ heap.right[n] = Append(n, 2)
      BY <1>3, <1>4, <2>2
    <3>2. n \in Path /\ Append(n, 1) = Append(n, 2)
      BY <1>2, <2>2, <3>1
    <3>3. 1 = 2
      BY <3>2, ChildrenApart
    <3>4. QED
      BY <3>3
  <2>3. QED
    BY <1>4, <2>1, <2>2 DEF RP!OneOwner
<1>9. RP!IsBelow(heap, below)
  <2>1. below = [p \in nodes |-> {q \in nodes : IsPrefix(p, q)}]
    BY DEF BelowIn
  <2> HIDE DEF below
  <2>2. below \in [nodes -> SUBSET nodes]
    BY <2>1
  <2>3. ASSUME NEW p \in nodes
        PROVE  below[p] = {p} \cup RP!Of(below, {}, heap.left[p]) \cup RP!Of(below, {}, heap.right[p])
    <3>1. ASSUME NEW side \in {1, 2}
          PROVE  RP!Of(below, {}, LinkTo(tree.label, p, side))
                   = {q \in nodes : IsPrefix(Append(p, side), q)}
      <4>1. CASE Append(p, side) \in nodes
        BY <1>3, <2>1, <4>1 DEF RP!Of
      <4>2. CASE Append(p, side) \notin nodes
        <5>1. Append(p, side) \in Path
          BY <1>2, ChildPath
        <5>2. \A q \in nodes : ~IsPrefix(Append(p, side), q)
          BY <4>2, <5>1, ClosedPrefix
        <5>3. LinkTo(tree.label, p, side) = NULL
          BY <1>3, <4>2
        <5>4. QED
          BY <5>2, <5>3 DEF RP!Of
      <4>3. QED
        BY <4>1, <4>2
    <3>2. \A q \in nodes : IsPrefix(p, q) <=> q = p \/ IsPrefix(Append(p, 1), q) \/ IsPrefix(Append(p, 2), q)
      BY <1>2, PrefixSplits
    <3>3. /\ RP!Of(below, {}, heap.left[p]) = {q \in nodes : IsPrefix(Append(p, 1), q)}
          /\ RP!Of(below, {}, heap.right[p]) = {q \in nodes : IsPrefix(Append(p, 2), q)}
      BY <1>4, <3>1
    <3>4. QED
      BY <2>1, <3>2, <3>3
  <2>4. QED
    BY <1>4, <2>2, <2>3 DEF RP!IsBelow
<1>10. QED
  BY <1>1, <1>4, <1>7, <1>8, <1>9 DEF heap

(* The traversal of Derivative is that of the lemmas.                              *)
LEMMA SameTraversal ==
  /\ \A heap, n : R!AppendedBy(heap, n) = RP!AppendedBy(heap, n)
  /\ \A heap, n : R!DepthAfter(heap, n) = RP!DepthAfter(heap, n)
  /\ \A nodes, some : R!Written(nodes, some) = RP!Written(nodes, some)
<1>1. \A heap : R!Weight(heap) = RP!Weight(heap)
  BY DEF R!Weight, RP!Weight, R!Gather, RP!Gather, R!Shallow, RP!Shallow,
         R!MAX_DEPTH, RP!MAX_DEPTH
<1>2. \A heap : R!Registered(heap) = RP!Registered(heap)
  BY <1>1 DEF R!Registered, RP!Registered, R!Gather, RP!Gather, R!Shallow, RP!Shallow,
         R!MAX_DEPTH, RP!MAX_DEPTH, R!Weight, RP!Weight
<1>3. \A heap : R!Visited(heap) = RP!Visited(heap)
  BY DEF R!Visited, RP!Visited, R!Shallow, RP!Shallow
<1>4. QED
  BY <1>1, <1>2, <1>3 DEF R!AppendedBy, RP!AppendedBy, R!DepthAfter, RP!DepthAfter,
                          R!Written, RP!Written

(* GetReassignments keeps a tree in order: it stops at what is registered, so what    *)
(* it registers is above that or beside it, and gets depth 1.                     *)
LEMMA ReassignedInOrder ==
  ASSUME NEW labels, NEW proper, NEW t \in Trees(labels, proper)
  PROVE  GetReassignments(t) \in Trees(labels, proper)
<1> DEFINE nodes == DOMAIN t.label
           heap == Links(t)
           below == BelowIn(nodes)
           old == t.registered
           new == RP!AppendedBy(heap, <<>>)
           u == GetReassignments(t)
<1>1. /\ t \in Records(labels) /\ Closed(nodes) /\ IsFiniteSet(nodes) /\ <<>> \in nodes
      /\ t.depth \in [nodes -> Nat]
      /\ old \in Seq(Path)
      /\ \A i \in DOMAIN old : old[i] \in nodes /\ t.depth[old[i]] = 1
      /\ Ordered(old)
      /\ \A p \in nodes : Arity(t, p, proper)
  BY DEF Trees, Shaped, Buffered
<1>2. /\ DOMAIN heap.left = nodes /\ heap.depth = t.depth
      /\ \A p \in nodes : heap.operand[p] <=> ~IsOperation(t.label[p])
      /\ RP!OneOwner(heap) /\ RP!IsBelow(heap, below)
  BY <1>1, LinksAre
<1>3. PICK top \in Nat : \E rank \in [nodes -> 0..top] : RP!Ranked(heap, rank, top)
  BY <1>1, LinksAre
<1>4. PICK rank \in [nodes -> 0..top] : RP!Ranked(heap, rank, top)
  BY <1>3
<1>5. nodes \subseteq Path /\ <<>> # NULL
  BY <1>1, <1>2, <1>4 DEF Closed, RP!Ranked
<1>6. /\ u = [label |-> t.label, depth |-> u.depth, registered |-> old \o new]
      /\ u.depth = RP!DepthAfter(heap, <<>>) /\ u.label = t.label /\ u.registered = old \o new
  BY SameTraversal DEF GetReassignments
<1> HIDE DEF heap, below, u
<1>7. /\ new = RP!Registered(heap)[<<>>]
      /\ u.depth = [p \in nodes |-> IF p \in RP!Visited(heap)[<<>>] /\ ~heap.operand[p]
                                    THEN RP!Weight(heap)[p] ELSE t.depth[p]]
  BY <1>1, <1>2, <1>5, <1>6 DEF RP!AppendedBy, RP!DepthAfter
<1> HIDE DEF new
<1>8. /\ RP!Weight(heap) \in [nodes -> 1..3]
      /\ \A p \in nodes :
           RP!Shallow(heap, p) \/ RP!Gather(heap, RP!Weight(heap), p) > RP!MAX_DEPTH
             => RP!Weight(heap)[p] = 1
  BY <1>2, <1>4, RP!WeightIs DEF RP!MAX_DEPTH
<1>9. u.depth \in [nodes -> Nat]
  <2> DEFINE weight == RP!Weight(heap)
  <2>1. weight \in [nodes -> 1..3]
    BY <1>8
  <2> HIDE DEF weight
  <2>2. ASSUME NEW p \in nodes
        PROVE  weight[p] \in Nat /\ t.depth[p] \in Nat
    <3>1. weight[p] \in 1..3
      BY <2>1
    <3>2. t.depth[p] \in Nat
      BY <1>1
    <3>3. QED
      BY <3>1, <3>2
  <2>3. QED
    BY <1>7, <2>2 DEF weight
<1>10. new \in Seq(Path) /\ RP!InOrder(below, new)
  <2>1. new \in Seq(nodes) /\ RP!InOrder(below, new)
    BY <1>1, <1>2, <1>4, <1>7, RP!RegisteredIs, RP!RegisteredInOrder
  <2>2. QED
    BY <1>5, <2>1, SeqMonotonic
<1>11. \A i \in DOMAIN new :
         /\ new[i] \in nodes /\ new[i] \in RP!Visited(heap)[<<>>]
         /\ ~RP!Shallow(heap, new[i])
         /\ RP!Gather(heap, RP!Weight(heap), new[i]) > RP!MAX_DEPTH
  <2> SUFFICES ASSUME NEW i \in DOMAIN new
               PROVE  /\ new[i] \in nodes /\ new[i] \in RP!Visited(heap)[<<>>]
                      /\ ~RP!Shallow(heap, new[i])
                      /\ RP!Gather(heap, RP!Weight(heap), new[i]) > RP!MAX_DEPTH
    OBVIOUS
  <2>1. new[i] \in RP!Elements(RP!Registered(heap)[<<>>])
    BY <1>7 DEF RP!Elements
  <2>2. /\ new[i] \in RP!Visited(heap)[<<>>] /\ ~RP!Shallow(heap, new[i])
        /\ RP!Gather(heap, RP!Weight(heap), new[i]) > RP!MAX_DEPTH
    BY <1>1, <1>2, <1>4, <2>1, RP!RegisteredAre
  <2>3. RP!Visited(heap)[<<>>] \subseteq nodes
    BY <1>1, <1>2, <1>4, RP!VisitedIs
  <2>4. QED
    BY <2>2, <2>3
<1>12. \A i \in DOMAIN old : RP!Shallow(heap, old[i])
  BY <1>1, <1>2 DEF RP!Shallow
<1>13. Ordered(new)
  BY <1>5, <1>10, <1>11, OrderedIs DEF below
<1>14. ASSUME NEW i \in DOMAIN old, NEW j \in DOMAIN new
       PROVE  ~IsPrefix(old[i], new[j])
  <2> SUFFICES ASSUME IsPrefix(old[i], new[j])
               PROVE  FALSE
    OBVIOUS
  <2>1. old[i] \in nodes /\ new[j] \in nodes /\ new[j] \in below[old[i]]
    BY <1>1, <1>11 DEF below, BelowIn
  <2>2. old[i] \in below[<<>>]
    BY <1>1, <1>5, <2>1, PrefixOrder DEF below, BelowIn
  <2>3. new[j] = old[i]
    BY <1>1, <1>2, <1>4, <1>11, <1>12, <2>1, <2>2, RP!VisitedAbove
  <2>4. QED
    BY <1>11, <1>12, <2>3
<1>15. /\ old \o new \in Seq(Path) /\ Ordered(old \o new)
       /\ \A x : (\E i \in DOMAIN (old \o new) : (old \o new)[i] = x)
                   <=> (\E i \in DOMAIN old : old[i] = x) \/ (\E i \in DOMAIN new : new[i] = x)
  BY <1>1, <1>10, <1>13, <1>14, ConcatOrdered
<1>16. \A i \in DOMAIN old : old[i] \in nodes /\ u.depth[old[i]] = 1
  BY <1>1, <1>7, <1>8, <1>12
<1>17. \A i \in DOMAIN new : new[i] \in nodes /\ u.depth[new[i]] = 1
  <2>1. \A p \in nodes : heap.operand[p] => RP!Shallow(heap, p)
    BY DEF RP!Shallow
  <2>2. QED
    BY <1>7, <1>8, <1>11, <2>1
<1>18. Buffered(u)
  <2>1. \A i \in DOMAIN (old \o new) :
          (old \o new)[i] \in nodes /\ u.depth[(old \o new)[i]] = 1
    BY <1>15, <1>16, <1>17
  <2>2. QED
    BY <1>6, <1>15, <2>1 DEF Buffered
<1>19. \A p \in nodes : Arity(u, p, proper)
  BY <1>1, <1>6 DEF Arity, Has
<1>20. u \in Records(labels)
  BY <1>1, <1>5, <1>6, <1>9, <1>15 DEF Records
<1>21. Shaped(u)
  BY <1>1, <1>6, <1>9, <1>18 DEF Shaped
<1>22. QED
  BY <1>6, <1>19, <1>20, <1>21 DEF Trees, u

-----------------------------------------------------------------------------
(* The expression: its nodes have their operands, whatever is below an operand.     *)

LEMMA CopyInOrder ==
  ASSUME NEW e, Parsed(e), NEW proper, proper => Formula(e), NEW path \in DOMAIN e.label
  PROVE  CopySubtree(e, path) \in Trees(Labels(e), proper)
<1> DEFINE nodes == DOMAIN e.label
           copy == CopySubtree(e, path)
           below == DOMAIN copy.label
<1>1. /\ Closed(nodes) /\ IsFiniteSet(nodes) /\ nodes \subseteq Path /\ path \in Path
      /\ e.depth \in [nodes -> Nat]
  BY DEF Parsed, Closed, Path
<1>2. /\ copy.label = SubtreeAt(e.label, path) /\ copy.depth = SubtreeAt(e.depth, path)
      /\ copy.registered = <<>>
      /\ copy = [label |-> copy.label, depth |-> copy.depth, registered |-> copy.registered]
  BY DEF CopySubtree
<1> HIDE DEF copy
<1>3. /\ Closed(below) /\ IsFiniteSet(below) /\ <<>> \in below /\ below \subseteq Path
      /\ below = {q \in Path : path \o q \in nodes}
      /\ \A q \in below : copy.label[q] = e.label[path \o q]
  <2> DEFINE label == e.label
  <2>1. /\ Closed(DOMAIN label) /\ IsFiniteSet(DOMAIN label) /\ DOMAIN label \subseteq Path
        /\ path \in DOMAIN label /\ path \in Path /\ copy.label = SubtreeAt(label, path)
    BY <1>1, <1>2
  <2> HIDE DEF label
  <2>2. Closed(below) /\ IsFiniteSet(below) /\ <<>> \in below
    BY <2>1, SubtreeClosed
  <2>3. /\ below = {q \in Path : path \o q \in DOMAIN label}
        /\ \A q \in below : copy.label[q] = label[path \o q]
    BY <2>1, SubtreeAtIs
  <2>4. QED
    BY <2>2, <2>3 DEF Closed, label
<1>4. DOMAIN copy.depth = below /\ \A q \in below : copy.depth[q] = e.depth[path \o q]
  <2> DEFINE depth == e.depth
  <2>1. DOMAIN depth = nodes /\ copy.depth = SubtreeAt(depth, path)
    BY <1>1, <1>2
  <2> HIDE DEF depth
  <2>2. /\ DOMAIN copy.depth = {q \in Path : path \o q \in DOMAIN depth}
        /\ \A q \in DOMAIN copy.depth : copy.depth[q] = depth[path \o q]
    BY ZenonT(40), <1>1, <2>1, SubtreeAtIs
  <2>3. QED
    BY <1>3, <2>1, <2>2 DEF depth
<1>5. copy.label \in [below -> Labels(e)] /\ copy.depth \in [below -> Nat]
  <2>1. \A q \in below : copy.label[q] \in Labels(e) /\ copy.depth[q] \in Nat
    BY <1>1, <1>3, <1>4 DEF Labels
  <2>2. /\ copy.label = [q \in DOMAIN copy.label |-> copy.label[q]]
        /\ copy.depth = [q \in DOMAIN copy.depth |-> copy.depth[q]]
    BY <1>2 DEF SubtreeAt
  <2>3. QED
    BY <1>4, <2>1, <2>2
<1>6. Buffered(copy) /\ copy.registered \in Seq(Path)
  <2>1. copy.registered \in Seq(Path) /\ DOMAIN copy.registered = {}
    BY <1>2, EmptySeq
  <2>2. QED
    BY <2>1 DEF Buffered, Ordered
<1>7. ASSUME NEW q \in below
      PROVE  Arity(copy, q, proper)
  <2>1. q \in Path /\ path \o q \in nodes /\ copy.label[q] = e.label[path \o q]
    BY <1>3
  <2>2. ASSUME NEW side \in {1, 2}
        PROVE  Has(copy, q, side) <=> Has(e, path \o q, side)
    <3>1. Append(path \o q, side) = path \o Append(q, side)
      <4>1. path \in Path /\ q \in Path
        BY <1>1, <2>1
      <4>2. \A way \in {1, 2} : Append(path \o q, way) = path \o Append(q, way)
        BY ZenonT(40), <4>1, ConcatPath
      <4>3. QED
        BY <4>2
    <3>2. Append(q, side) \in Path
      BY <2>1, ChildPath
    <3>3. QED
      BY <1>3, <3>1, <3>2 DEF Has
  <2>3. Arity(e, path \o q, proper)
    <3> DEFINE p == path \o q
    <3>1. p \in nodes
      BY <2>1
    <3> HIDE DEF p
    <3>2. /\ e.label[p] \notin Brackets
          /\ e.label[p] \in BinaryOps \cup {"EQUALS"} => Has(e, p, 1) /\ Has(e, p, 2)
          /\ e.label[p] \in FunctionOps => Has(e, p, 1) /\ ~Has(e, p, 2)
      BY <3>1 DEF Parsed, Has
    <3>3. proper => /\ e.label[p] # "EQUALS"
                    /\ ~IsOperation(e.label[p]) => ~Has(e, p, 1) /\ ~Has(e, p, 2)
      BY <3>1 DEF Formula, Has
    <3>4. Arity(e, p, proper)
      BY <3>2, <3>3 DEF Arity
    <3>5. QED
      BY <3>4 DEF p
  <2>4. QED
    BY <2>1, <2>2, <2>3 DEF Arity
<1>8. copy \in Records(Labels(e)) /\ Shaped(copy)
  BY <1>2, <1>3, <1>5, <1>6 DEF Records, Shaped
<1>9. QED
  BY <1>7, <1>8 DEF Trees, copy

-----------------------------------------------------------------------------
(* The derivative.                                                             *)

(* The derivative of a node from those of its operands.                          *)
StepAt(e, path, dl, dr) ==
  LET op      == e.label[path]
      Copy(side) == CopySubtree(e, Append(path, side))
      result  == Rule(op, dl, dr, Copy(1), Copy(2))
  IN  IF ~IsOperation(op) THEN Const(IF op = variableIndex THEN "1" ELSE "0")
      ELSE IF path # <<>> THEN GetReassignments(result) ELSE result

LEMMA StepInOrder ==
  ASSUME NEW e, Parsed(e), NEW proper, proper => Formula(e), NEW path \in DOMAIN e.label,
         NEW dl, Has(e, path, 1) => dl \in Trees(Labels(e), proper),
         NEW dr, Has(e, path, 2) => dr \in Trees(Labels(e), proper)
  PROVE  StepAt(e, path, dl, dr) \in Trees(Labels(e), proper)
<1> DEFINE op == e.label[path]
           T == Trees(Labels(e), proper)
<1>1. CASE ~IsOperation(op)
  <2>1. ASSUME NEW number \in {"0", "1"}
        PROVE  Const(number) \in T
    <3>1. number \in Labels(e)
      BY DEF Labels
    <3>2. number \notin Brackets \cup BinaryOps \cup FunctionOps \cup {"EQUALS"}
      BY DEF BinaryOps, Brackets, FunctionOps
    <3>3. QED
      BY <3>1, <3>2, NodeInOrder DEF Const
  <2>2. StepAt(e, path, dl, dr) = Const(IF op = variableIndex THEN "1" ELSE "0")
    BY <1>1 DEF StepAt
  <2>3. (IF op = variableIndex THEN "1" ELSE "0") \in {"0", "1"}
    OBVIOUS
  <2>4. QED
    BY <2>1, <2>2, <2>3
<1>2. CASE IsOperation(op)
  <2> DEFINE l == CopySubtree(e, Append(path, 1))
             r == CopySubtree(e, Append(path, 2))
  <2>1. /\ op \notin Brackets
        /\ op \in BinaryOps \cup {"EQUALS"} => Has(e, path, 1) /\ Has(e, path, 2)
        /\ op \in FunctionOps => Has(e, path, 1)
    BY DEF Parsed, Has
  <2>2. op \in {"EQUALS"} \cup BinaryOps \cup FunctionOps
    BY <1>2, <2>1 DEF IsOperation, OperationNames
  <2>3. Has(e, path, 1) => l \in T
    BY CopyInOrder DEF Has
  <2>4. Has(e, path, 2) => r \in T
    BY CopyInOrder DEF Has
  <2>5. proper => op # "EQUALS"
    BY DEF Formula
  <2> HIDE DEF l, r
  <2>6. Rule(op, dl, dr, l, r) \in T
    <3>1. dl \in T /\ l \in T /\ (op \in BinaryOps => dr \in T /\ r \in T)
      BY <2>1, <2>2, <2>3, <2>4
    <3> HIDE DEF op
    <3>2. QED
      BY <2>2, <2>5, <3>1, RuleInOrder
  <2>7. GetReassignments(Rule(op, dl, dr, l, r)) \in T
    BY <2>6, ReassignedInOrder
  <2>8. \/ StepAt(e, path, dl, dr) = Rule(op, dl, dr, l, r)
        \/ StepAt(e, path, dl, dr) = GetReassignments(Rule(op, dl, dr, l, r))
    BY <1>2 DEF StepAt, l, r
  <2>9. QED
    BY <2>6, <2>7, <2>8
<1>3. QED
  BY <1>1, <1>2

(* The recursive definition has a solution, and whatever solves it puts the          *)
(* derivative of every node in order.                                          *)
LEMMA DifferentiatedInOrder ==
  ASSUME NEW e, Parsed(e), NEW proper, proper => Formula(e)
  PROVE  \A path \in DOMAIN e.label :
           /\ DifferentiateInternal(e)[path] \in Trees(Labels(e), proper)
           /\ DifferentiateInternal(e)[path] =
                StepAt(e, path, RP!Of(DifferentiateInternal(e), None, LinkTo(e.label, path, 1)),
                                RP!Of(DifferentiateInternal(e), None, LinkTo(e.label, path, 2)))
<1> DEFINE nodes == DOMAIN e.label
           T == Trees(Labels(e), proper)
           values == T \cup {None}
           heap == Links(e)
           Value(f, path) == StepAt(e, path, RP!Of(f, None, LinkTo(e.label, path, 1)),
                                    RP!Of(f, None, LinkTo(e.label, path, 2)))
           F(f) == f = [path \in nodes |-> Value(f, path)]
           step == [t \in nodes \X values \X values |->
                      IF StepAt(e, t[1], t[2], t[3]) \in T THEN StepAt(e, t[1], t[2], t[3]) ELSE None]
           diff == CHOOSE f : F(f)
<1>1. Closed(nodes) /\ IsFiniteSet(nodes)
  BY DEF Parsed, Closed, Path
<1>2. /\ DOMAIN heap.left = nodes
      /\ \A p \in nodes : /\ heap.left[p] = LinkTo(e.label, p, 1)
                          /\ heap.right[p] = LinkTo(e.label, p, 2)
  BY <1>1, LinksAre
<1>3. PICK top \in Nat : \E rank \in [nodes -> 0..top] : RP!Ranked(heap, rank, top)
  BY <1>1, LinksAre
<1>4. PICK rank \in [nodes -> 0..top] : RP!Ranked(heap, rank, top)
  BY <1>3
<1> HIDE DEF heap
<1>5. ASSUME NEW p \in nodes, NEW side \in {1, 2}, Has(e, p, side)
      PROVE  /\ LinkTo(e.label, p, side) \in RP!Children(heap, p)
             /\ LinkTo(e.label, p, side) # NULL
  <2>1. LinkTo(e.label, p, side) \in nodes /\ NULL \notin nodes
    BY <1>2, <1>4, <1>5 DEF LinkTo, Has, RP!Ranked
  <2>2. QED
    BY <1>2, <2>1 DEF RP!Children
<1>6. ASSUME NEW f, NEW p \in nodes, \A child \in RP!Children(heap, p) : f[child] \in T
      PROVE  Value(f, p) \in T
  <2>1. ASSUME NEW side \in {1, 2}, Has(e, p, side)
        PROVE  RP!Of(f, None, LinkTo(e.label, p, side)) \in T
    BY <1>5, <1>6, <2>1 DEF RP!Of
  <2>2. QED
    BY <2>1, StepInOrder
<1>7. DifferentiateInternal(e) = diff
  BY DEF DifferentiateInternal, StepAt, RP!Of
<1>8. \E f : F(f)
  <2>1. step \in [(DOMAIN heap.left) \X values \X values -> values]
    BY <1>2
  <2>2. \A p \in nodes, a, b \in values :
          step[<<p, a, b>>] = IF StepAt(e, p, a, b) \in T THEN StepAt(e, p, a, b) ELSE None
    OBVIOUS
  <2>3. PICK f : RP!Computes(heap, values, step, None, f)
    <3> HIDE DEF step
    <3>1. None \in values
      OBVIOUS
    <3>2. QED
      BY <1>4, <2>1, <3>1, RP!TreeRecursion
  <2>4. /\ f \in [nodes -> values]
        /\ \A p \in nodes : f[p] = step[<<p, RP!Of(f, None, LinkTo(e.label, p, 1)),
                                             RP!Of(f, None, LinkTo(e.label, p, 2))>>]
    BY <1>2, <2>3 DEF RP!Computes
  <2> HIDE DEF step
  <2>5. ASSUME NEW p \in nodes
        PROVE  f[p] = IF Value(f, p) \in T THEN Value(f, p) ELSE None
    <3> DEFINE a == RP!Of(f, None, LinkTo(e.label, p, 1))
               b == RP!Of(f, None, LinkTo(e.label, p, 2))
    <3>1. a \in values /\ b \in values
      BY <2>4 DEF RP!Of, LinkTo
    <3>2. f[p] = step[<<p, a, b>>] /\ Value(f, p) = StepAt(e, p, a, b)
      BY <2>4
    <3> HIDE DEF a, b, Value
    <3>3. QED
      BY <2>2, <3>1, <3>2
  <2> DEFINE S == {p \in nodes : f[p] \in T}
  <2>6. ASSUME NEW p \in nodes, RP!Children(heap, p) \subseteq S
        PROVE  p \in S
    <3>1. \A child \in RP!Children(heap, p) : f[child] \in T
      BY <2>6
    <3>2. Value(f, p) \in T
      BY <1>6, <3>1
    <3>3. QED
      BY <2>5, <3>2
  <2>7. nodes \subseteq S
    <3> HIDE DEF S
    <3>1. QED
      BY <1>2, <1>4, <2>6, RP!TreeInduction
  <2>8. \A p \in nodes : f[p] = Value(f, p)
    <3>1. \A p \in nodes : f[p] \in T /\ None \notin T
      BY <2>7, NoneIs
    <3> HIDE DEF Value
    <3>2. QED
      BY <2>5, <3>1
  <2>9. F(f)
    BY <2>4, <2>8
  <2>10. QED
    BY <2>9
<1>9. F(diff)
  BY <1>8
<1> HIDE DEF diff
<1> DEFINE S == {p \in nodes : diff[p] \in T}
<1>10. ASSUME NEW p \in nodes, RP!Children(heap, p) \subseteq S
       PROVE  p \in S
  <2>1. Value(diff, p) \in T
    BY <1>6, <1>10
  <2>2. diff[p] = Value(diff, p)
    BY <1>9
  <2>3. QED
    BY <2>1, <2>2
<1>11. nodes \subseteq S
  <2> HIDE DEF S
  <2>1. QED
    BY <1>2, <1>4, <1>10, RP!TreeInduction
<1>12. \A p \in nodes : diff[p] = Value(diff, p)
  BY <1>9
<1>13. QED
  BY <1>7, <1>11, <1>12

(* Differentiate puts the derivative of the expression, if there is one, under "=".  *)
LEMMA DifferentiateIs ==
  ASSUME NEW e, e = None \/ Parsed(e), NEW proper, proper => e = None \/ Formula(e)
  PROVE  LET d == Differentiate(e)
         IN  /\ d \in Records(Labels(e)) /\ Shaped(d)
             /\ d.label[<<>>] = "EQUALS" /\ ~Has(d, <<>>, 2)
             /\ \A p \in DOMAIN d.label : p # <<>> => Arity(d, p, proper)
<1> DEFINE T == Trees(Labels(e), proper)
           l == IF e = None THEN None ELSE DifferentiateInternal(e)[<<>>]
<1>1. l \in T \cup {None}
  <2>1. ASSUME e # None
        PROVE  DifferentiateInternal(e)[<<>>] \in T
    BY <2>1, DifferentiatedInOrder DEF Parsed
  <2>2. QED
    BY <2>1
<1>2. Differentiate(e) = CreateNode("EQUALS", l, None)
  BY DEF Differentiate
<1>3. "EQUALS" \in Labels(e) /\ None \in T \cup {None}
  BY DEF Labels, OperationNames
<1> HIDE DEF l
<1> DEFINE d == CreateNode("EQUALS", l, None)
<1>4. /\ d \in Records(Labels(e)) /\ Shaped(d)
      /\ d.label[<<>>] = "EQUALS" /\ ~Has(d, <<>>, 2)
      /\ \A p \in DOMAIN d.label : p # <<>> => Arity(d, p, proper)
  BY <1>1, <1>3, CreateNodeIs DEF OperandTrees
<1> HIDE DEF d
<1>5. QED
  BY <1>2, <1>4 DEF d

(* Writes that fail leave gaps in the buffer, in which the rest stays in order.       *)
LEMMA RefusingIs ==
  ASSUME NEW labels, NEW t \in Records(labels), Shaped(t), NEW refused
  PROVE  LET u == Refusing(t, refused)
         IN  u \in Records(labels) /\ Shaped(u) /\ u.label = t.label
<1> DEFINE old == t.registered
           new == RP!Written(old, refused)
           u == Refusing(t, refused)
<1>1. u = [label |-> t.label, depth |-> t.depth, registered |-> new]
  BY SameTraversal DEF Refusing, Records
<1>2. /\ old \in Seq(Path) /\ Ordered(old)
      /\ \A i \in DOMAIN old : old[i] \in DOMAIN t.label /\ t.depth[old[i]] = 1
  BY DEF Shaped, Buffered
<1>3. new \in Seq(Path) /\ RP!Keeps(old, refused, new, Len(old)) /\ DOMAIN old = 1..Len(old)
  BY <1>2, RP!WrittenIs, LenProperties
<1> HIDE DEF old, new
<1>4. \A i \in DOMAIN new : new[i] \in DOMAIN t.label /\ t.depth[new[i]] = 1
  <2> SUFFICES ASSUME NEW i \in DOMAIN new
               PROVE  new[i] \in DOMAIN t.label /\ t.depth[new[i]] = 1
    OBVIOUS
  <2>1. PICK k \in 1..Len(old) : new[i] = old[k]
    BY <1>3 DEF RP!Keeps
  <2>2. QED
    BY <1>2, <1>3, <2>1
<1>5. Ordered(new)
  <2> SUFFICES ASSUME NEW i \in DOMAIN new, NEW j \in DOMAIN new, i < j
               PROVE  ~IsPrefix(new[i], new[j])
    BY DEF Ordered
  <2>1. PICK k \in 1..Len(old), l \in 1..Len(old) :
          k < l /\ new[i] = old[k] /\ new[j] = old[l]
    BY <1>3 DEF RP!Keeps
  <2>2. QED
    BY <1>2, <1>3, <2>1 DEF Ordered
<1>6. u.label = t.label /\ u.depth = t.depth /\ u.registered = new
  BY <1>1
<1>7. u \in Records(labels)
  BY <1>1, <1>3 DEF Records
<1> HIDE DEF u
<1>8. Shaped(u)
  BY <1>3, <1>4, <1>5, <1>6 DEF Shaped, Buffered
<1>9. QED
  BY <1>6, <1>7, <1>8 DEF u

(* What Differentiate built stays as it is.                                      *)
Differentiated ==
  /\ expression = None \/ Parsed(expression)
  /\ derivative = None
     \/ \E refused : derivative = Refusing(Differentiate(expression), refused)

LEMMA DifferentiatedInvariant == Spec => []Differentiated
<1>1. Init => Differentiated
  BY ExpressionAssumption DEF Init, Differentiated
<1>2. Differentiated /\ [Next]_vars => Differentiated'
  BY DEF Differentiated, Next, DifferentiateExpression, vars
<1>3. QED
  BY <1>1, <1>2, PTL DEF Spec

(* The rules register results at every level and the traversal goes over lower      *)
(* levels again, yet for an expression of any size no node is registered twice      *)
(* and none before a node below it.                                           *)
THEOREM BufferInOrder == Spec => []RegisteredOnce
<1>1. Differentiated => RegisteredOnce
  <2> SUFFICES ASSUME Differentiated, derivative # None
               PROVE  Ordered(derivative.registered)
    BY DEF RegisteredOnce, Ordered
  <2>1. expression = None \/ Parsed(expression)
    BY DEF Differentiated
  <2>2. PICK refused : derivative = Refusing(Differentiate(expression), refused)
    BY DEF Differentiated
  <2>3. /\ Differentiate(expression) \in Records(Labels(expression))
        /\ Shaped(Differentiate(expression))
    BY <2>1, DifferentiateIs
  <2>4. Shaped(derivative)
    BY <2>2, <2>3, RefusingIs
  <2>5. QED
    BY <2>4 DEF Shaped, Buffered
<1>2. QED
  BY <1>1, DifferentiatedInvariant, PTL

-----------------------------------------------------------------------------
(* The derivative in memory.                                                   *)

LEMMA FreshIs ==
  ASSUME NEW p \in Path
  PROVE  p \in Seq(0..2) /\ Fresh(p) \in Seq(0..2)
<1>1. Path \subseteq Seq(0..2)
  BY SeqMonotonic DEF Path
<1>2. p \in Seq(0..2) /\ <<0>> \in Seq(0..2)
  BY <1>1
<1>3. QED
  BY <1>2, ConcatProperties DEF Fresh

LEMMA InMemoryLaidOut ==
  ASSUME NEW labels, NEW proper, NEW t \in Records(labels), Shaped(t),
         t.label[<<>>] = "EQUALS", ~Has(t, <<>>, 2),
         \A p \in DOMAIN t.label : p # <<>> => Arity(t, p, proper)
  PROVE  /\ LaidOut(InMemory(t, Literal))
         /\ proper => Proper(InMemory(t, Literal))
<1> DEFINE nodes == DOMAIN t.label
           d == InMemory(t, Literal)
<1>1. /\ nodes \subseteq Path /\ Closed(nodes) /\ IsFiniteSet(nodes) /\ <<>> \in nodes
      /\ t.registered \in Seq(Path)
      /\ \A i \in DOMAIN t.registered : t.registered[i] \in nodes
      /\ Ordered(t.registered)
  BY DEF Shaped, Buffered, Closed
<1>2. \A p \in nodes : p # NULL /\ Fresh(p) # NULL
  BY <1>1, FreshIs, NullAssumption
<1>3. ASSUME NEW p \in nodes, NEW side \in {1, 2}
      PROVE  /\ LinkTo(t.label, p, side) \in nodes \cup {NULL}
             /\ LinkTo(t.label, p, side) # NULL <=> Has(t, p, side)
             /\ Has(t, p, side) => LinkTo(t.label, p, side) = Append(p, side)
  BY <1>2 DEF LinkTo, Has
<1>4. /\ d.root = <<>> /\ Nodes(d) = nodes /\ d.registered = t.registered
      /\ d.kind = [p \in nodes |->
                     IF t.label[p] \in OperationNames THEN t.label[p]
                     ELSE IF t.label[p] \in Variables THEN "VARIABLE_NODE" ELSE "NUMERIC_NODE"]
      /\ d.value = [p \in nodes |->
                      IF t.label[p] \in DOMAIN Literal THEN Literal[t.label[p]]
                      ELSE IF t.label[p] \in Variables THEN t.label[p] ELSE NaN]
      /\ d.left = [p \in nodes |-> LinkTo(t.label, p, 1)]
      /\ d.right = [p \in nodes |-> LinkTo(t.label, p, 2)]
      /\ d.parent = [p \in nodes |-> IF p = <<>> THEN NULL ELSE Front(p)]
  BY DEF InMemory, Nodes
<1> HIDE DEF d
<1>5. IsFiniteSet(Nodes(d)) /\ Nodes(d) \subseteq Seq({1, 2}) /\ NULL \notin AllAddresses(d)
  BY <1>1, <1>2, <1>4 DEF AllAddresses, Path
<1>6. /\ d.kind \in [nodes -> Kinds]
      /\ d.value \in [nodes -> Number \cup Variables]
  BY <1>4, LiteralAssumption DEF Kinds, Operands
<1>7. /\ d.left \in [nodes -> nodes \cup {NULL}]
      /\ d.right \in [nodes -> nodes \cup {NULL}]
      /\ d.parent \in [nodes -> nodes \cup {NULL}]
  <2>1. \A p \in nodes : p # <<>> => Front(p) \in nodes
    BY <1>1 DEF Closed
  <2>2. QED
    BY <1>3, <1>4, <2>1
<1>8. ASSUME NEW n \in nodes
      PROVE  /\ d.left[n]  # NULL => d.left[n]  = Append(n, 1) /\ d.parent[d.left[n]]  = n
             /\ d.right[n] # NULL => d.right[n] = Append(n, 2) /\ d.parent[d.right[n]] = n
  <2>1. ASSUME NEW side \in {1, 2}, Has(t, n, side)
        PROVE  d.parent[Append(n, side)] = n
    <3>1. n \in Path /\ Append(n, side) \in nodes
      BY <1>1, <2>1 DEF Has
    <3>2. Append(n, side) # <<>> /\ Front(Append(n, side)) = n
      BY <3>1, ChildPath
    <3>3. QED
      BY <1>4, <3>1, <3>2
  <2>2. d.left[n] = LinkTo(t.label, n, 1) /\ d.right[n] = LinkTo(t.label, n, 2)
    BY <1>4
  <2>3. ASSUME d.left[n] # NULL
        PROVE  d.left[n] = Append(n, 1) /\ d.parent[d.left[n]] = n
    <3>1. Has(t, n, 1) /\ d.left[n] = Append(n, 1)
      BY <1>3, <2>2, <2>3
    <3>2. QED
      BY <2>1, <3>1
  <2>4. ASSUME d.right[n] # NULL
        PROVE  d.right[n] = Append(n, 2) /\ d.parent[d.right[n]] = n
    <3>1. Has(t, n, 2) /\ d.right[n] = Append(n, 2)
      BY <1>3, <2>2, <2>4
    <3>2. QED
      BY <2>1, <3>1
  <2>5. QED
    BY <2>3, <2>4
<1>9. ASSUME NEW n \in nodes, n # <<>>
      PROVE  d.parent[n] # NULL /\ n \in {d.left[d.parent[n]], d.right[d.parent[n]]}
  <2>1. n \in Path /\ Front(n) \in nodes /\ d.parent[n] = Front(n)
    BY <1>1, <1>4, <1>9 DEF Closed
  <2>2. PICK side \in {1, 2} : Append(Front(n), side) = n
    BY <1>9, <2>1, ParentPath
  <2>3. Has(t, Front(n), side) /\ LinkTo(t.label, Front(n), side) = n
    BY <1>3, <2>1, <2>2 DEF Has
  <2>4. QED
    BY <1>2, <1>4, <2>1, <2>3
<1>10. ASSUME NEW n \in nodes
       PROVE  /\ d.kind[n] = "NUMERIC_NODE" => d.value[n] \in Number
              /\ d.kind[n] \in BinaryOps => d.left[n] # NULL /\ d.right[n] # NULL
              /\ d.kind[n] \in FunctionOps => d.left[n] # NULL
              /\ d.kind[n] = "EQUALS" => d.left[n] # NULL \/ n = <<>>
              /\ d.kind[n] \notin Brackets
              /\ proper => /\ d.kind[n] \notin OperationNames => d.left[n] = NULL /\ d.right[n] = NULL
                           /\ d.kind[n] \in FunctionOps \cup {"EQUALS"} => d.right[n] = NULL
  <2> DEFINE label == t.label[n]
  <2>1. /\ d.left[n] # NULL <=> Has(t, n, 1)
        /\ d.right[n] # NULL <=> Has(t, n, 2)
    BY <1>3, <1>4
  <2>2. \/ label \in OperationNames /\ d.kind[n] = label
        \/ label \notin OperationNames /\ d.kind[n] = "VARIABLE_NODE"
        \/ label \notin OperationNames /\ d.kind[n] = "NUMERIC_NODE" /\ d.value[n] \in Number
    BY <1>4, LiteralAssumption
  <2>3. \A kind \in {"VARIABLE_NODE", "NUMERIC_NODE"} :
          kind \notin {"EQUALS"} \cup Brackets \cup BinaryOps \cup FunctionOps \cup OperationNames
    BY DEF Brackets, BinaryOps, FunctionOps, OperationNames
  <2>4. label \in OperationNames => label # "NUMERIC_NODE"
    BY <2>3
  <2>5. CASE n = <<>>
    <3>1. label = "EQUALS" /\ label \in OperationNames /\ ~Has(t, n, 2)
          /\ label \notin Brackets \cup BinaryOps \cup FunctionOps
      BY <2>5 DEF Brackets, BinaryOps, FunctionOps, OperationNames
    <3> HIDE DEF label
    <3>2. QED
      BY <2>1, <2>2, <2>3, <2>4, <2>5, <3>1
  <2>6. CASE n # <<>>
    <3>1. /\ label \notin Brackets
          /\ label \in BinaryOps => Has(t, n, 1) /\ Has(t, n, 2)
          /\ label \in FunctionOps => Has(t, n, 1) /\ ~Has(t, n, 2)
          /\ label = "EQUALS" => Has(t, n, 1)
          /\ proper => label # "EQUALS"
          /\ proper /\ label \notin OperationNames => ~Has(t, n, 1) /\ ~Has(t, n, 2)
      BY <2>6 DEF Arity, IsOperation
    <3> HIDE DEF label
    <3>2. QED
      BY <2>1, <2>2, <2>3, <2>4, <3>1
  <2>7. QED
    BY <2>5, <2>6
<1>11. d.registered \in Seq(nodes)
  <2> DEFINE s == t.registered
  <2>1. s \in Seq(Path) /\ \A i \in DOMAIN s : s[i] \in nodes
    BY <1>1
  <2> HIDE DEF s
  <2>2. Len(s) \in Nat /\ DOMAIN s = 1..Len(s) /\ s \in [1..Len(s) -> Path]
    BY <2>1, LenProperties
  <2>3. s = [i \in 1..Len(s) |-> s[i]]
    BY <2>2
  <2>4. [i \in 1..Len(s) |-> s[i]] \in Seq(nodes)
    BY <2>1, <2>2
  <2>5. QED
    BY <1>4, <2>3, <2>4 DEF s
<1>12. LaidOut(d)
  BY <1>1, <1>4, <1>5, <1>6, <1>7, <1>8, <1>9, <1>10, <1>11 DEF LaidOut, Ordered
<1>13. ASSUME proper
       PROVE  Proper(d)
  <2>1. d.kind[d.root] = "EQUALS"
    BY <1>1, <1>4 DEF OperationNames
  <2>2. QED
    BY <1>4, <1>10, <1>13, <2>1 DEF Proper
<1>14. QED
  BY <1>12, <1>13 DEF d

(* The optimizer relies on its links, on both operands of an operation and on the    *)
(* order of the buffer: Differentiate leaves all that for every expression.        *)
THEOREM DerivativeFits == Spec => []FitsOptimizer
<1>1. Differentiated => FitsOptimizer
  <2> SUFFICES ASSUME Differentiated, derivative # None
               PROVE  LET d == InMemory(derivative, Literal)
                      IN  LaidOut(d) /\ (Formula(expression) => Proper(d))
    BY DEF FitsOptimizer
  <2>1. expression = None \/ Parsed(expression)
    BY DEF Differentiated
  <2> DEFINE whole == Differentiate(expression)
  <2>2. PICK refused : derivative = Refusing(whole, refused)
    BY DEF Differentiated
  <2> DEFINE d == Refusing(whole, refused)
  <2>3. /\ whole \in Records(Labels(expression)) /\ Shaped(whole)
        /\ whole.label[<<>>] = "EQUALS" /\ ~Has(whole, <<>>, 2)
        /\ \A p \in DOMAIN whole.label : p # <<>> => Arity(whole, p, Formula(expression))
    BY <2>1, DifferentiateIs
  <2> HIDE DEF whole
  <2>4. d \in Records(Labels(expression)) /\ Shaped(d) /\ d.label = whole.label
    BY <2>3, RefusingIs
  <2> HIDE DEF d
  <2>5. /\ d.label[<<>>] = "EQUALS" /\ ~Has(d, <<>>, 2)
        /\ \A p \in DOMAIN d.label : p # <<>> => Arity(d, p, Formula(expression))
    BY <2>3, <2>4 DEF Has, Arity
  <2>6. LaidOut(InMemory(d, Literal)) /\ (Formula(expression) => Proper(InMemory(d, Literal)))
    BY <2>5, <2>4, InMemoryLaidOut
  <2>7. QED
    BY <2>6, <2>2 DEF d
<1>2. QED
  BY <1>1, DifferentiatedInvariant, PTL

-----------------------------------------------------------------------------
(* Functions defined by recursion on a tree.                                    *)

Tidy(tree) ==
  /\ Closed(DOMAIN tree.label) /\ IsFiniteSet(DOMAIN tree.label)
  /\ \A p \in DOMAIN tree.label : tree.label[p] \notin Brackets

LEMMA PathInduction ==
  ASSUME NEW tree, Tidy(tree),
         NEW S, \A p \in DOMAIN tree.label :
                  (\A side \in {1, 2} : Has(tree, p, side) => Append(p, side) \in S) => p \in S
  PROVE  DOMAIN tree.label \subseteq S
<1> DEFINE nodes == DOMAIN tree.label
           heap == Links(tree)
<1>1. /\ DOMAIN heap.left = nodes
      /\ \A p \in nodes : /\ heap.left[p] = LinkTo(tree.label, p, 1)
                          /\ heap.right[p] = LinkTo(tree.label, p, 2)
  BY LinksAre DEF Tidy
<1>2. PICK top \in Nat : \E rank \in [nodes -> 0..top] : RP!Ranked(heap, rank, top)
  BY LinksAre DEF Tidy
<1>3. PICK rank \in [nodes -> 0..top] : RP!Ranked(heap, rank, top)
  BY <1>2
<1> HIDE DEF heap
<1>4. ASSUME NEW p \in nodes, RP!Children(heap, p) \subseteq S
      PROVE  p \in S
  <2>1. ASSUME NEW side \in {1, 2}, Has(tree, p, side)
        PROVE  Append(p, side) \in S
    <3>1. LinkTo(tree.label, p, side) = Append(p, side) /\ Append(p, side) \in nodes /\ NULL \notin nodes
      BY <1>1, <1>3, <2>1 DEF LinkTo, Has, RP!Ranked
    <3>2. Append(p, side) \in RP!Children(heap, p)
      BY <1>1, <3>1 DEF RP!Children
    <3>3. QED
      BY <1>4, <3>2
  <2>2. QED
    BY <2>1
<1>5. QED
  BY <1>1, <1>3, <1>4, RP!TreeInduction

(* f is the function the recursion defines that goes from what a node and the results *)
(* of its children are to its own result.                                      *)
Recurs(tree, values, step, none, f) ==
  /\ f \in [DOMAIN tree.label -> values]
  /\ \A p \in DOMAIN tree.label :
       f[p] = step[<<p, RP!Of(f, none, LinkTo(tree.label, p, 1)),
                        RP!Of(f, none, LinkTo(tree.label, p, 2))>>]

LEMMA PathRecursion ==
  ASSUME NEW tree, Tidy(tree), NEW values, NEW none \in values,
         NEW step \in [(DOMAIN tree.label) \X values \X values -> values]
  PROVE  \E f : Recurs(tree, values, step, none, f)
<1> DEFINE nodes == DOMAIN tree.label
           heap == Links(tree)
<1>1. /\ DOMAIN heap.left = nodes
      /\ \A p \in nodes : /\ heap.left[p] = LinkTo(tree.label, p, 1)
                          /\ heap.right[p] = LinkTo(tree.label, p, 2)
  BY LinksAre DEF Tidy
<1>2. PICK top \in Nat : \E rank \in [nodes -> 0..top] : RP!Ranked(heap, rank, top)
  BY LinksAre DEF Tidy
<1>3. PICK rank \in [nodes -> 0..top] : RP!Ranked(heap, rank, top)
  BY <1>2
<1> HIDE DEF heap
<1>4. PICK f : RP!Computes(heap, values, step, none, f)
  BY <1>1, <1>3, RP!TreeRecursion
<1>5. QED
  BY <1>1, <1>4 DEF RP!Computes, Recurs

(* Where a link leads.                                                          *)
LEMMA LinkIs ==
  ASSUME NEW tree, Tidy(tree), NEW p \in DOMAIN tree.label, NEW side \in {1, 2}, NEW f, NEW none
  PROVE  /\ RP!Of(f, none, LinkTo(tree.label, p, side))
              = IF Has(tree, p, side) THEN f[Append(p, side)] ELSE none
         /\ NULL \notin DOMAIN tree.label
<1>1. PICK top \in Nat : \E rank \in [DOMAIN tree.label -> 0..top] : RP!Ranked(Links(tree), rank, top)
  BY LinksAre DEF Tidy
<1>2. NULL \notin DOMAIN tree.label
  BY <1>1, LinksAre DEF Tidy, RP!Ranked
<1>3. QED
  BY <1>2 DEF RP!Of, LinkTo, Has

-----------------------------------------------------------------------------
(* The value of a tree.                                                        *)

Applicable == {"EQUALS"} \cup BinaryOps \cup FunctionOps

LEMMA LeafIs ==
  ASSUME NEW point \in Points, NEW label
  PROVE  LeafValue(label, point) \in Number /\ NaN \in Number
<1>1. point \in [Variables -> Number]
  BY PointsAssumption
<1>2. QED
  BY <1>1, LiteralAssumption DEF LeafValue

(* The value of a node from those of its operands.                               *)
ValueStep(label, path, l, r, point) ==
  IF IsOperation(label[path]) THEN Result(label[path], l, r) ELSE LeafValue(label[path], point)

LEMMA StepIsNumber ==
  ASSUME NEW tree, Tidy(tree), NEW point \in Points, NEW p \in DOMAIN tree.label,
         NEW a \in Number, NEW b \in Number
  PROVE  ValueStep(tree.label, p, a, b, point) \in Number
<1>1. CASE IsOperation(tree.label[p])
  <2>1. tree.label[p] \in Applicable
    BY <1>1 DEF Tidy, IsOperation, OperationNames, Applicable
  <2>2. QED
    BY <1>1, <2>1, NumberAssumption DEF ValueStep, Applicable
<1>2. CASE ~IsOperation(tree.label[p])
  BY <1>2, LeafIs DEF ValueStep
<1>3. QED
  BY <1>1, <1>2

LEMMA ValuesAre ==
  ASSUME NEW tree, Tidy(tree), NEW point \in Points
  PROVE  LET v == Values(tree.label, point)
         IN  \A p \in DOMAIN tree.label :
               /\ v[p] \in Number
               /\ v[p] = ValueStep(tree.label, p,
                           IF Has(tree, p, 1) THEN v[Append(p, 1)] ELSE NaN,
                           IF Has(tree, p, 2) THEN v[Append(p, 2)] ELSE NaN, point)
<1> DEFINE nodes == DOMAIN tree.label
           Value(f, p) == ValueStep(tree.label, p, RP!Of(f, NaN, LinkTo(tree.label, p, 1)),
                                    RP!Of(f, NaN, LinkTo(tree.label, p, 2)), point)
           F(f) == f = [p \in nodes |-> Value(f, p)]
           step == [t \in nodes \X Number \X Number |-> ValueStep(tree.label, t[1], t[2], t[3], point)]
           v == CHOOSE f : F(f)
<1>1. step \in [nodes \X Number \X Number -> Number]
  <2>1. \A p \in nodes : \A a, b \in Number : ValueStep(tree.label, p, a, b, point) \in Number
    BY StepIsNumber
  <2>2. QED
    BY <2>1
<1>2. \A p \in nodes : \A a, b \in Number : step[<<p, a, b>>] = ValueStep(tree.label, p, a, b, point)
  OBVIOUS
<1> HIDE DEF step
<1>3. PICK f : /\ f \in [nodes -> Number]
               /\ \A p \in nodes : f[p] = step[<<p, RP!Of(f, NaN, LinkTo(tree.label, p, 1)),
                                                  RP!Of(f, NaN, LinkTo(tree.label, p, 2))>>]
  <2>1. \E f : Recurs(tree, Number, step, NaN, f)
    BY <1>1, LiteralAssumption, PathRecursion
  <2>2. QED
    BY <2>1 DEF Recurs
<1>4. ASSUME NEW p \in nodes
      PROVE  f[p] = Value(f, p)
  <2> DEFINE a == RP!Of(f, NaN, LinkTo(tree.label, p, 1))
             b == RP!Of(f, NaN, LinkTo(tree.label, p, 2))
  <2>1. a \in Number /\ b \in Number
    BY <1>3, LeafIs DEF RP!Of, LinkTo
  <2>2. f[p] = step[<<p, a, b>>] /\ Value(f, p) = ValueStep(tree.label, p, a, b, point)
    BY <1>3
  <2> HIDE DEF a, b, Value
  <2>3. QED
    BY <1>2, <2>1, <2>2
<1>5. F(v)
  <2>1. F(f)
    BY <1>3, <1>4
  <2>2. QED
    BY <2>1
<1>6. Values(tree.label, point) = v
  BY DEF Values, ValueStep, RP!Of
<1> HIDE DEF v
<1>7. \A p \in nodes :
        v[p] = ValueStep(tree.label, p, IF Has(tree, p, 1) THEN v[Append(p, 1)] ELSE NaN,
                         IF Has(tree, p, 2) THEN v[Append(p, 2)] ELSE NaN, point)
  <2> SUFFICES ASSUME NEW p \in nodes
               PROVE  v[p] = ValueStep(tree.label, p, IF Has(tree, p, 1) THEN v[Append(p, 1)] ELSE NaN,
                                       IF Has(tree, p, 2) THEN v[Append(p, 2)] ELSE NaN, point)
    OBVIOUS
  <2>1. /\ RP!Of(v, NaN, LinkTo(tree.label, p, 1)) = IF Has(tree, p, 1) THEN v[Append(p, 1)] ELSE NaN
        /\ RP!Of(v, NaN, LinkTo(tree.label, p, 2)) = IF Has(tree, p, 2) THEN v[Append(p, 2)] ELSE NaN
    BY LinkIs
  <2>2. v[p] = Value(v, p)
    BY <1>5
  <2>3. QED
    BY <2>1, <2>2
<1> DEFINE S == {p \in nodes : v[p] \in Number}
<1>8. ASSUME NEW p \in nodes, \A side \in {1, 2} : Has(tree, p, side) => Append(p, side) \in S
      PROVE  p \in S
  <2> DEFINE a == IF Has(tree, p, 1) THEN v[Append(p, 1)] ELSE NaN
             b == IF Has(tree, p, 2) THEN v[Append(p, 2)] ELSE NaN
  <2>1. a \in Number /\ b \in Number
    BY <1>8, LeafIs
  <2>2. v[p] = ValueStep(tree.label, p, a, b, point)
    BY <1>7
  <2> HIDE DEF a, b
  <2>3. ValueStep(tree.label, p, a, b, point) \in Number
    BY <2>1, StepIsNumber
  <2>4. QED
    BY <2>2, <2>3
<1>9. nodes \subseteq S
  <2> HIDE DEF S
  <2>1. QED
    BY <1>8, PathInduction
<1>10. QED
  BY <1>6, <1>7, <1>9

(* A part of a tree, or a tree with a part like it, has the same values.             *)
PartOf(u, t, path) ==
  \A q \in Path : /\ q \in DOMAIN u.label <=> path \o q \in DOMAIN t.label
                  /\ q \in DOMAIN u.label => u.label[q] = t.label[path \o q]

LEMMA SameValues ==
  ASSUME NEW t, Tidy(t), NEW u, Tidy(u), NEW path \in Path, NEW point \in Points, PartOf(u, t, path)
  PROVE  \A q \in DOMAIN u.label : Values(u.label, point)[q] = Values(t.label, point)[path \o q]
<1> DEFINE v == Values(t.label, point)
           w == Values(u.label, point)
           S == {q \in DOMAIN u.label : w[q] = v[path \o q]}
<1>1. /\ \A q \in DOMAIN u.label :
           w[q] = ValueStep(u.label, q, IF Has(u, q, 1) THEN w[Append(q, 1)] ELSE NaN,
                            IF Has(u, q, 2) THEN w[Append(q, 2)] ELSE NaN, point)
      /\ \A p \in DOMAIN t.label :
           v[p] = ValueStep(t.label, p, IF Has(t, p, 1) THEN v[Append(p, 1)] ELSE NaN,
                            IF Has(t, p, 2) THEN v[Append(p, 2)] ELSE NaN, point)
  BY ValuesAre
<1> HIDE DEF v, w
<1>2. ASSUME NEW q \in DOMAIN u.label,
             \A side \in {1, 2} : Has(u, q, side) => Append(q, side) \in S
      PROVE  q \in S
  <2>1. q \in Path /\ path \o q \in DOMAIN t.label /\ u.label[q] = t.label[path \o q]
    BY DEF Tidy, Closed, PartOf
  <2>2. ASSUME NEW side \in {1, 2}
        PROVE  /\ Has(u, q, side) <=> Has(t, path \o q, side)
               /\ Has(u, q, side) => w[Append(q, side)] = v[Append(path \o q, side)]
    <3>1. Append(q, side) \in Path
      BY <2>1, ChildPath
    <3>2. Append(path \o q, side) = path \o Append(q, side)
      <4>1. \A way \in {1, 2} : Append(path \o q, way) = path \o Append(q, way)
        BY ZenonT(40), <2>1, ConcatPath
      <4>2. QED
        BY <4>1
    <3>3. QED
      BY <1>2, <3>1, <3>2 DEF Has, PartOf
  <2>3. ValueStep(u.label, q, IF Has(u, q, 1) THEN w[Append(q, 1)] ELSE NaN,
                  IF Has(u, q, 2) THEN w[Append(q, 2)] ELSE NaN, point)
        = ValueStep(t.label, path \o q, IF Has(t, path \o q, 1) THEN v[Append(path \o q, 1)] ELSE NaN,
                    IF Has(t, path \o q, 2) THEN v[Append(path \o q, 2)] ELSE NaN, point)
    BY <2>1, <2>2 DEF ValueStep
  <2>4. QED
    BY <1>1, <2>1, <2>3
<1>3. DOMAIN u.label \subseteq S
  <2> HIDE DEF S
  <2>1. QED
    BY <1>2, PathInduction
<1>4. QED
  BY <1>3 DEF v, w

LEMMA TreesTidy ==
  ASSUME NEW labels, NEW proper, NEW t \in Trees(labels, proper)
  PROVE  Tidy(t) /\ <<>> \in DOMAIN t.label
  BY DEF Trees, Shaped, Tidy, Arity

(* An operand of a new node may be missing.                                     *)
ValueOr(t, point) == IF t = None THEN NaN ELSE ValueAt(t, point)

LEMMA NodeTidy ==
  ASSUME NEW labels, NEW proper, NEW label \in labels,
         NEW l \in OperandTrees(labels, proper),
         NEW r \in OperandTrees(labels, proper),
         label \notin Brackets
  PROVE  LET t == CreateNode(label, l, r)
         IN  /\ Tidy(t) /\ <<>> \in DOMAIN t.label /\ t.label[<<>>] = label
             /\ Has(t, <<>>, 1) <=> l # None
             /\ Has(t, <<>>, 2) <=> r # None
<1> DEFINE t == CreateNode(label, l, r)
<1>1. /\ t \in Records(labels) /\ Shaped(t) /\ t.label[<<>>] = label
      /\ Has(t, <<>>, 1) <=> l # None
      /\ Has(t, <<>>, 2) <=> r # None
      /\ \A p \in DOMAIN t.label : p # <<>> => Arity(t, p, proper)
  BY CreateNodeIs
<1> HIDE DEF t
<1>2. \A p \in DOMAIN t.label : t.label[p] \notin Brackets
  BY <1>1 DEF Arity
<1>3. QED
  BY <1>1, <1>2 DEF Shaped, Tidy, t

LEMMA NodeValueIs ==
  ASSUME NEW labels, NEW proper, NEW label \in labels, label \notin Brackets,
         NEW l \in OperandTrees(labels, proper),
         NEW r \in OperandTrees(labels, proper), NEW point \in Points
  PROVE  /\ IsOperation(label) =>
              ValueAt(CreateNode(label, l, r), point)
                = Result(label, ValueOr(l, point), ValueOr(r, point))
         /\ ~IsOperation(label) => ValueAt(CreateNode(label, l, r), point) = LeafValue(label, point)
<1> DEFINE t == CreateNode(label, l, r)
<1>1. /\ Tidy(t) /\ <<>> \in DOMAIN t.label /\ t.label[<<>>] = label
      /\ Has(t, <<>>, 1) <=> l # None
      /\ Has(t, <<>>, 2) <=> r # None
  BY NodeTidy
<1>2. t.label = Joined(label, l.label, r.label)
  BY DEF CreateNode
<1> HIDE DEF t
<1>3. Tidy(t) /\ <<>> \in DOMAIN t.label
  BY <1>1
<1>4. /\ DOMAIN l.label \subseteq Path /\ DOMAIN r.label \subseteq Path
  <2>1. Operand(l, labels, proper) /\ Operand(r, labels, proper)
    BY OperandIs DEF OperandTrees
  <2>2. QED
    BY <2>1 DEF Operand, Closed
<1> DEFINE a == l.label
           b == r.label
<1>5. /\ \A p \in Path : /\ <<1>> \o p \in DOMAIN t.label <=> p \in DOMAIN a
                         /\ <<2>> \o p \in DOMAIN t.label <=> p \in DOMAIN b
      /\ \A p \in DOMAIN a : t.label[<<1>> \o p] = a[p]
      /\ \A p \in DOMAIN b : t.label[<<2>> \o p] = b[p]
  <2>1. DOMAIN a \subseteq Path /\ DOMAIN b \subseteq Path /\ t.label = Joined(label, a, b)
    BY <1>2, <1>4
  <2> HIDE DEF a, b
  <2>2. QED
    BY <2>1, JoinedIs
<1> DEFINE v == Values(t.label, point)
<1>6. ASSUME NEW side \in {1, 2}, NEW o \in Trees(labels, proper),
             \A p \in Path : <<side>> \o p \in DOMAIN t.label <=> p \in DOMAIN o.label,
             \A p \in DOMAIN o.label : t.label[<<side>> \o p] = o.label[p]
      PROVE  v[Append(<<>>, side)] = ValueAt(o, point)
  <2>1. Tidy(o) /\ <<>> \in DOMAIN o.label
    BY TreesTidy
  <2>2. <<side>> \in Path /\ <<side>> \o <<>> = Append(<<>>, side)
    <3>1. <<>> \in Path
      BY EmptySeq DEF Path
    <3>2. Append(<<>>, side) = <<side>> \o <<>> /\ Append(<<>>, side) \in Path
      BY <3>1, PushChild, ChildPath
    <3>3. Append(<<>>, side) = <<side>>
      OBVIOUS
    <3>4. QED
      BY <3>2, <3>3
  <2> DEFINE at == <<side>>
  <2>3. at \in Path /\ PartOf(o, t, at)
    BY <1>6, <2>2 DEF PartOf
  <2> HIDE DEF at
  <2>4. \A q \in DOMAIN o.label : Values(o.label, point)[q] = Values(t.label, point)[at \o q]
    BY <1>3, <2>1, <2>3, SameValues
  <2>5. Values(o.label, point)[<<>>] = v[at \o <<>>]
    BY <2>1, <2>4
  <2>6. QED
    BY <2>2, <2>5 DEF ValueAt, at
<1>7. /\ l # None => v[Append(<<>>, 1)] = ValueOr(l, point)
      /\ r # None => v[Append(<<>>, 2)] = ValueOr(r, point)
  BY <1>5, <1>6 DEF ValueOr, OperandTrees
<1>8. v[<<>>] = ValueStep(t.label, <<>>, IF Has(t, <<>>, 1) THEN v[Append(<<>>, 1)] ELSE NaN,
                          IF Has(t, <<>>, 2) THEN v[Append(<<>>, 2)] ELSE NaN, point)
  BY <1>3, ValuesAre
<1> HIDE DEF v
<1>9. /\ (IF Has(t, <<>>, 1) THEN v[Append(<<>>, 1)] ELSE NaN) = ValueOr(l, point)
      /\ (IF Has(t, <<>>, 2) THEN v[Append(<<>>, 2)] ELSE NaN) = ValueOr(r, point)
  BY <1>1, <1>7 DEF ValueOr
<1>10. v[<<>>] = ValueStep(t.label, <<>>, ValueOr(l, point), ValueOr(r, point), point)
  BY <1>8, <1>9
<1>11. ValueAt(t, point) = v[<<>>]
  BY DEF ValueAt, v
<1>12. QED
  BY <1>1, <1>10, <1>11 DEF ValueStep, t

LEMMA ExpressionTidy ==
  ASSUME NEW e, Parsed(e)
  PROVE  Tidy(e) /\ <<>> \in DOMAIN e.label
  BY DEF Parsed, Tidy, Closed, Path

(* A copy has the value of what was copied.                                     *)
LEMMA CopyValueIs ==
  ASSUME NEW e, Parsed(e), Formula(e), NEW path \in DOMAIN e.label, NEW point \in Points
  PROVE  ValueAt(CopySubtree(e, path), point) = Values(e.label, point)[path]
<1> DEFINE copy == CopySubtree(e, path)
           label == e.label
<1>1. copy \in Trees(Labels(e), TRUE)
  BY CopyInOrder
<1>2. Tidy(copy) /\ <<>> \in DOMAIN copy.label /\ Tidy(e)
  BY <1>1, TreesTidy, ExpressionTidy
<1>3. DOMAIN label \subseteq Path /\ path \in Path
  BY <1>2 DEF Tidy, Closed
<1>4. copy.label = SubtreeAt(label, path)
  BY DEF CopySubtree
<1> HIDE DEF copy
<1>5. /\ DOMAIN copy.label = {q \in Path : path \o q \in DOMAIN label}
      /\ \A q \in DOMAIN copy.label : copy.label[q] = label[path \o q]
  <2> HIDE DEF label
  <2>1. QED
    BY <1>3, <1>4, SubtreeAtIs
<1>6. Values(copy.label, point)[<<>>] = Values(e.label, point)[path \o <<>>]
  <2>1. PartOf(copy, e, path)
    BY <1>5 DEF PartOf
  <2> HIDE DEF label
  <2>2. \A q \in DOMAIN copy.label : Values(copy.label, point)[q] = Values(e.label, point)[path \o q]
    BY <1>2, <1>3, <2>1, SameValues
  <2>3. QED
    BY <1>2, <2>2
<1>7. path \o <<>> = path
  BY <1>3, ConcatPath
<1>8. QED
  BY <1>6, <1>7 DEF ValueAt, copy

-----------------------------------------------------------------------------
(* The value and the slope of an expression.                                     *)

JetSet == [value : Number, slope : Number]

LEMMA NodeJetIs ==
  ASSUME NEW tree, Tidy(tree), NEW point \in Points, NEW p \in DOMAIN tree.label,
         NEW u \in JetSet, NEW v \in JetSet
  PROVE  /\ NodeJet(tree.label, p, u, v, point) \in JetSet
         /\ NodeJet(tree.label, p, u, v, point).value = ValueStep(tree.label, p, u.value, v.value, point)
<1> DEFINE op == tree.label[p]
           above == Append(p, 2) \in DOMAIN tree.label /\ tree.label[Append(p, 2)] \in DOMAIN Literal
           jet == NodeJet(tree.label, p, u, v, point)
<1>1. NaN \in Number /\ Zero \in Number /\ One \in Number /\ Two \in Number
  BY LiteralAssumption, ConstantsAssumption DEF Finite
<1>2. CASE ~IsOperation(op)
  <2>1. jet = [value |-> LeafValue(op, point), slope |-> IF op = variableIndex THEN One ELSE Zero]
    BY <1>2 DEF NodeJet
  <2>2. LeafValue(op, point) \in Number
    BY LeafIs
  <2>3. QED
    BY <1>1, <1>2, <2>1, <2>2 DEF JetSet, ValueStep
<1>3. CASE IsOperation(op)
  <2>1. jet = [value |-> Result(op, u.value, v.value), slope |-> OperationSlope(op, u, v, above)]
    BY <1>3 DEF NodeJet
  <2>2. op \in Applicable
    BY <1>3 DEF Tidy, IsOperation, OperationNames, Applicable
  <2>3. u.value \in Number /\ v.value \in Number /\ u.slope \in Number /\ v.slope \in Number
    BY DEF JetSet
  <2> HIDE DEF op, above, jet
  <2>4. \A name \in Applicable : \A x, y \in Number : Result(name, x, y) \in Number
    BY NumberAssumption DEF Applicable
  <2>5. /\ {"ADD", "SUB", "MUL", "DIV", "POW", "SIN", "COS", "SQRT", "LN", "EXP"} \subseteq Applicable
    BY DEF Applicable, BinaryOps, FunctionOps
  <2>6. OperationSlope(op, u, v, above) \in Number
    <3>1. \A x, y \in Number : /\ Plus(x, y) \in Number /\ Minus(x, y) \in Number /\ Times(x, y) \in Number
                               /\ Over(x, y) \in Number /\ Power(x, y) \in Number
      BY <2>4, <2>5 DEF Plus, Minus, Times, Over, Power
    <3>2. \A x \in Number : \A name \in FunctionOps : Result(name, x, NaN) \in Number
      BY <1>1, <2>4 DEF Applicable
    <3>3. PowerSlope(u.value, u.slope, v.value) \in Number
      BY <1>1, <2>3, <3>1 DEF PowerSlope
    <3>4. ASSUME op \in FunctionOps
          PROVE  FunctionSlope(op, u.value) \in Number
      <4>1. /\ Result("SIN", u.value, NaN) \in Number /\ Result("COS", u.value, NaN) \in Number
            /\ Result("SQRT", u.value, NaN) \in Number /\ Result("EXP", u.value, NaN) \in Number
        BY <2>3, <3>2 DEF FunctionOps
      <4>2. QED
        BY <1>1, <2>3, <3>1, <3>4, <4>1 DEF FunctionSlope, FunctionOps
    <3>5. CASE op \in FunctionOps
      <4>1. OperationSlope(op, u, v, above) = Times(FunctionSlope(op, u.value), u.slope)
        BY <3>5 DEF OperationSlope, FunctionOps
      <4>2. QED
        BY <2>3, <3>1, <3>4, <3>5, <4>1
    <3>6. CASE op \in {"ADD", "SUB"}
      BY <2>2, <2>3, <2>4, <3>6 DEF OperationSlope, FunctionOps
    <3>7. CASE op = "MUL"
      BY <2>3, <3>1, <3>7 DEF OperationSlope, FunctionOps
    <3>8. CASE op = "DIV"
      BY <2>3, <3>1, <3>8 DEF OperationSlope, FunctionOps
    <3>9. CASE op = "POW"
      <4>1. Result("LN", u.value, NaN) \in Number
        BY <2>3, <3>2 DEF FunctionOps
      <4>2. QED
        BY <2>3, <3>1, <3>3, <3>9, <4>1 DEF OperationSlope, FunctionOps
    <3>10. CASE op = "EQUALS"
      BY <1>1, <3>10 DEF OperationSlope, FunctionOps
    <3>11. QED
      BY <2>2, <3>5, <3>6, <3>7, <3>8, <3>9, <3>10 DEF Applicable, BinaryOps
  <2>7. Result(op, u.value, v.value) \in Number
    BY <2>2, <2>3, <2>4
  <2>8. jet \in JetSet /\ jet.value = Result(op, u.value, v.value)
    BY <2>1, <2>6, <2>7 DEF JetSet
  <2>9. QED
    BY <1>3, <2>8 DEF ValueStep, jet, op
<1>4. QED
  BY <1>2, <1>3

LEMMA JetsAre ==
  ASSUME NEW tree, Tidy(tree), NEW point \in Points
  PROVE  LET j == Jets(tree.label, point)
         IN  \A p \in DOMAIN tree.label :
               /\ j[p] \in JetSet
               /\ j[p] = NodeJet(tree.label, p,
                           IF Has(tree, p, 1) THEN j[Append(p, 1)] ELSE NoJet,
                           IF Has(tree, p, 2) THEN j[Append(p, 2)] ELSE NoJet, point)
<1> DEFINE nodes == DOMAIN tree.label
           Value(f, p) == NodeJet(tree.label, p, RP!Of(f, NoJet, LinkTo(tree.label, p, 1)),
                                  RP!Of(f, NoJet, LinkTo(tree.label, p, 2)), point)
           F(f) == f = [p \in nodes |-> Value(f, p)]
           step == [t \in nodes \X JetSet \X JetSet |-> NodeJet(tree.label, t[1], t[2], t[3], point)]
           j == CHOOSE f : F(f)
<1>1. NoJet \in JetSet
  BY LiteralAssumption DEF NoJet, JetSet
<1>2. step \in [nodes \X JetSet \X JetSet -> JetSet]
  <2>1. \A p \in nodes : \A a, b \in JetSet : NodeJet(tree.label, p, a, b, point) \in JetSet
    BY NodeJetIs
  <2>2. QED
    BY <2>1
<1>3. \A p \in nodes : \A a, b \in JetSet : step[<<p, a, b>>] = NodeJet(tree.label, p, a, b, point)
  OBVIOUS
<1> HIDE DEF step
<1>4. PICK f : /\ f \in [nodes -> JetSet]
               /\ \A p \in nodes : f[p] = step[<<p, RP!Of(f, NoJet, LinkTo(tree.label, p, 1)),
                                                  RP!Of(f, NoJet, LinkTo(tree.label, p, 2))>>]
  <2>1. \E f : Recurs(tree, JetSet, step, NoJet, f)
    BY <1>1, <1>2, PathRecursion
  <2>2. QED
    BY <2>1 DEF Recurs
<1>5. ASSUME NEW p \in nodes
      PROVE  f[p] = Value(f, p)
  <2> DEFINE a == RP!Of(f, NoJet, LinkTo(tree.label, p, 1))
             b == RP!Of(f, NoJet, LinkTo(tree.label, p, 2))
  <2>1. a \in JetSet /\ b \in JetSet
    BY <1>1, <1>4 DEF RP!Of, LinkTo
  <2>2. f[p] = step[<<p, a, b>>] /\ Value(f, p) = NodeJet(tree.label, p, a, b, point)
    BY <1>4
  <2> HIDE DEF a, b, Value
  <2>3. QED
    BY <1>3, <2>1, <2>2
<1>6. F(j)
  <2>1. F(f)
    BY <1>4, <1>5
  <2>2. QED
    BY <2>1
<1>7. Jets(tree.label, point) = j
  BY DEF Jets, RP!Of
<1> HIDE DEF j
<1>8. \A p \in nodes :
        j[p] = NodeJet(tree.label, p, IF Has(tree, p, 1) THEN j[Append(p, 1)] ELSE NoJet,
                       IF Has(tree, p, 2) THEN j[Append(p, 2)] ELSE NoJet, point)
  <2> SUFFICES ASSUME NEW p \in nodes
               PROVE  j[p] = NodeJet(tree.label, p, IF Has(tree, p, 1) THEN j[Append(p, 1)] ELSE NoJet,
                                     IF Has(tree, p, 2) THEN j[Append(p, 2)] ELSE NoJet, point)
    OBVIOUS
  <2>1. /\ RP!Of(j, NoJet, LinkTo(tree.label, p, 1)) = IF Has(tree, p, 1) THEN j[Append(p, 1)] ELSE NoJet
        /\ RP!Of(j, NoJet, LinkTo(tree.label, p, 2)) = IF Has(tree, p, 2) THEN j[Append(p, 2)] ELSE NoJet
    BY LinkIs
  <2>2. j[p] = Value(j, p)
    BY <1>6
  <2>3. QED
    BY <2>1, <2>2
<1> DEFINE S == {p \in nodes : j[p] \in JetSet}
<1>9. ASSUME NEW p \in nodes, \A side \in {1, 2} : Has(tree, p, side) => Append(p, side) \in S
      PROVE  p \in S
  <2> DEFINE a == IF Has(tree, p, 1) THEN j[Append(p, 1)] ELSE NoJet
             b == IF Has(tree, p, 2) THEN j[Append(p, 2)] ELSE NoJet
  <2>1. a \in JetSet /\ b \in JetSet
    BY <1>1, <1>9
  <2>2. j[p] = NodeJet(tree.label, p, a, b, point)
    BY <1>8
  <2> HIDE DEF a, b
  <2>3. NodeJet(tree.label, p, a, b, point) \in JetSet
    BY <2>1, NodeJetIs
  <2>4. QED
    BY <2>2, <2>3
<1>10. nodes \subseteq S
  <2> HIDE DEF S
  <2>1. QED
    BY <1>9, PathInduction
<1>11. QED
  BY <1>7, <1>8, <1>10

LEMMA JetValueIs ==
  ASSUME NEW tree, Tidy(tree), NEW point \in Points
  PROVE  \A p \in DOMAIN tree.label : Jets(tree.label, point)[p].value = Values(tree.label, point)[p]
<1> DEFINE j == Jets(tree.label, point)
           w == Values(tree.label, point)
           S == {p \in DOMAIN tree.label : j[p].value = w[p]}
<1>1. \A p \in DOMAIN tree.label :
        /\ j[p] \in JetSet
        /\ j[p] = NodeJet(tree.label, p, IF Has(tree, p, 1) THEN j[Append(p, 1)] ELSE NoJet,
                          IF Has(tree, p, 2) THEN j[Append(p, 2)] ELSE NoJet, point)
  BY JetsAre
<1>2. \A p \in DOMAIN tree.label :
        w[p] = ValueStep(tree.label, p, IF Has(tree, p, 1) THEN w[Append(p, 1)] ELSE NaN,
                         IF Has(tree, p, 2) THEN w[Append(p, 2)] ELSE NaN, point)
  BY ValuesAre
<1> HIDE DEF j, w
<1>3. NoJet \in JetSet /\ NoJet.value = NaN
  BY LiteralAssumption DEF NoJet, JetSet
<1>4. ASSUME NEW p \in DOMAIN tree.label,
             \A side \in {1, 2} : Has(tree, p, side) => Append(p, side) \in S
      PROVE  p \in S
  <2> DEFINE a == IF Has(tree, p, 1) THEN j[Append(p, 1)] ELSE NoJet
             b == IF Has(tree, p, 2) THEN j[Append(p, 2)] ELSE NoJet
             x == IF Has(tree, p, 1) THEN w[Append(p, 1)] ELSE NaN
             y == IF Has(tree, p, 2) THEN w[Append(p, 2)] ELSE NaN
  <2>1. a \in JetSet /\ b \in JetSet
    BY <1>1, <1>3 DEF Has
  <2>2. a.value = x /\ b.value = y
    BY <1>3, <1>4
  <2>3. j[p] = NodeJet(tree.label, p, a, b, point) /\ w[p] = ValueStep(tree.label, p, x, y, point)
    BY <1>1, <1>2
  <2> HIDE DEF a, b, x, y
  <2>4. NodeJet(tree.label, p, a, b, point).value = ValueStep(tree.label, p, a.value, b.value, point)
    BY <2>1, NodeJetIs
  <2>5. j[p].value = w[p]
    BY <2>2, <2>3, <2>4
  <2>6. QED
    BY <2>5
<1>5. DOMAIN tree.label \subseteq S
  <2> HIDE DEF S
  <2>1. QED
    BY <1>4, PathInduction
<1>6. QED
  BY <1>5 DEF j, w

-----------------------------------------------------------------------------
(* The rules in the arithmetic.                                                 *)

Agree(a, b) == a = NaN \/ b = NaN \/ a = b

LEMMA ConstantsAre ==
  /\ NaN \in Number /\ NaN \notin Finite /\ Finite \subseteq Number
  /\ \A x \in Number : x # NaN => x \in Finite
  /\ Zero \in Finite /\ One \in Finite /\ Two \in Finite /\ MinusOne \in Finite
  BY LiteralAssumption, ConstantsAssumption DEF Finite

LEMMA ResultsAre ==
  ASSUME NEW x \in Number, NEW y \in Number
  PROVE  /\ Plus(x, y) \in Number /\ Minus(x, y) \in Number /\ Times(x, y) \in Number
         /\ Over(x, y) \in Number /\ Power(x, y) \in Number
         /\ Plus(x, y) # NaN => x \in Finite /\ y \in Finite
         /\ Minus(x, y) # NaN => x \in Finite /\ y \in Finite
         /\ Times(x, y) # NaN => x \in Finite /\ y \in Finite
         /\ Over(x, y) # NaN => x \in Finite /\ y \in Finite /\ y # Zero
<1>1. /\ {"ADD", "SUB", "MUL", "DIV", "POW"} \subseteq {"EQUALS"} \cup BinaryOps \cup FunctionOps
      /\ {"ADD", "SUB", "MUL", "DIV"} \subseteq (BinaryOps \ {"POW"}) \cup FunctionOps
      /\ {"ADD", "SUB", "MUL", "DIV"} \subseteq BinaryOps \ {"POW"}
  BY DEF BinaryOps
<1>2. \A op \in {"ADD", "SUB", "MUL", "DIV", "POW"} : Result(op, x, y) \in Number
  BY <1>1, NumberAssumption
<1>3. \A op \in {"ADD", "SUB", "MUL", "DIV"} : Result(op, x, y) # NaN => x # NaN /\ y # NaN
  <2> SUFFICES ASSUME NEW op \in {"ADD", "SUB", "MUL", "DIV"}
               PROVE  Result(op, x, y) # NaN => x # NaN /\ y # NaN
    OBVIOUS
  <2>1. op \in (BinaryOps \ {"POW"}) \cup FunctionOps /\ op \in BinaryOps \ {"POW"}
    BY <1>1
  <2>2. Result(op, NaN, y) = NaN /\ Result(op, x, NaN) = NaN
    BY <2>1, NumberAssumption
  <2>3. QED
    BY <2>2
<1>4. \A op \in {"ADD", "SUB", "MUL", "DIV"} : Result(op, x, y) # NaN => x \in Finite /\ y \in Finite
  BY <1>3, ConstantsAre
<1>5. Over(x, y) # NaN => y # Zero
  BY <1>4, FieldAssumption DEF Over
<1>6. QED
  BY <1>2, <1>4, <1>5 DEF Plus, Minus, Times, Over, Power

LEMMA FunctionsAre ==
  ASSUME NEW x \in Number, NEW op \in FunctionOps
  PROVE  /\ Result(op, x, NaN) \in Number
         /\ Result(op, x, NaN) # NaN => x \in Finite
<1>1. op \in {"EQUALS"} \cup BinaryOps \cup FunctionOps /\ op \in (BinaryOps \ {"POW"}) \cup FunctionOps
  OBVIOUS
<1>2. Result(op, x, NaN) \in Number /\ (x = NaN => Result(op, x, NaN) = NaN)
  BY <1>1, NumberAssumption, ConstantsAre
<1>3. QED
  BY <1>2, ConstantsAre

(* The laws of the field that are used below.                                     *)
LEMMA FieldIs ==
  /\ \A a, b \in Finite :
       /\ Plus(a, b) \in Finite /\ Minus(a, b) \in Finite /\ Times(a, b) \in Finite
       /\ Times(a, b) = Times(b, a) /\ Plus(Zero, a) = a /\ Times(Zero, a) = Zero /\ Times(One, a) = a
       /\ Minus(Zero, a) = Times(MinusOne, a)
       /\ b # Zero => /\ Over(a, b) \in Finite /\ Times(Over(a, b), b) = a
                      /\ Over(Times(a, b), b) = a
       /\ Power(a, Zero) = One /\ Power(a, Two) = Times(a, a)
       /\ a # Zero /\ b # Zero => Power(a, b) = Times(a, Power(a, Minus(b, One)))
  /\ \A a, b, c \in Finite :
       /\ Times(Times(a, b), c) = Times(a, Times(b, c))
       /\ Times(Minus(a, b), c) = Minus(Times(a, c), Times(b, c))
<1>1. Zero \in Finite
  BY ConstantsAre
<1>2. ASSUME NEW a \in Finite, NEW b \in Finite, NEW c \in Finite
      PROVE  /\ Plus(a, b) \in Finite /\ Minus(a, b) \in Finite /\ Times(a, b) \in Finite
             /\ Times(a, b) = Times(b, a) /\ Plus(Zero, a) = a /\ Times(Zero, a) = Zero /\ Times(One, a) = a
             /\ Minus(Zero, a) = Times(MinusOne, a)
             /\ b # Zero => /\ Over(a, b) \in Finite /\ Times(Over(a, b), b) = a
                            /\ Over(Times(a, b), b) = a
             /\ Power(a, Zero) = One /\ Power(a, Two) = Times(a, a)
             /\ a # Zero /\ b # Zero => Power(a, b) = Times(a, Power(a, Minus(b, One)))
             /\ Times(Times(a, b), c) = Times(a, Times(b, c))
             /\ Times(Minus(a, b), c) = Minus(Times(a, c), Times(b, c))
  BY FieldAssumption
<1>3. QED
  BY <1>1, <1>2

LEMMA QuotientIs ==
  ASSUME NEW x \in Finite, NEW y \in Finite, y # Zero
  PROVE  /\ Over(One, y) \in Finite
         /\ Over(x, y) = Times(x, Over(One, y)) /\ Over(x, y) = Times(Over(One, y), x)
<1> DEFINE k == Over(One, y)
<1>1. One \in Finite /\ k \in Finite /\ Times(k, y) = One
  BY ConstantsAre, FieldIs
<1> HIDE DEF k
<1>2. Times(x, k) \in Finite
  BY <1>1, FieldIs
<1>3. Times(Times(x, k), y) = x
  <2>1. Times(Times(x, k), y) = Times(x, Times(k, y))
    BY <1>1, FieldIs
  <2>2. Times(x, One) = Times(One, x) /\ Times(One, x) = x
    BY <1>1, FieldIs
  <2>3. QED
    BY <1>1, <2>1, <2>2
<1>4. Over(Times(Times(x, k), y), y) = Times(x, k)
  BY <1>2, FieldIs
<1>5. Times(x, k) = Times(k, x)
  BY <1>1, FieldIs
<1>6. QED
  BY <1>1, <1>3, <1>4, <1>5 DEF k

LEMMA SquareIs ==
  ASSUME NEW y \in Finite, y # Zero
  PROVE  Times(y, y) \in Finite /\ Times(y, y) # Zero
<1>1. Zero \in Finite /\ Times(y, y) \in Finite
  BY ConstantsAre, FieldIs
<1>2. ASSUME Times(y, y) = Zero PROVE FALSE
  <2>1. Over(Times(y, y), y) = y
    BY FieldIs
  <2>2. Over(Times(Zero, y), y) = Zero /\ Times(Zero, y) = Zero
    BY <1>1, FieldIs
  <2>3. QED
    BY <1>2, <2>1, <2>2
<1>3. QED
  BY <1>1, <1>2

(* (u/v)' = (u' - (u/v) v') / v, and the rule has (u' v - v' u) / v^2.              *)
LEMMA QuotientRule ==
  ASSUME NEW du \in Number, NEW dv \in Number, NEW us \in Number, NEW vs \in Number,
         NEW u \in Number, NEW v \in Number, Agree(du, us), Agree(dv, vs)
  PROVE  Agree(Over(Minus(Times(du, v), Times(dv, u)), Power(v, Two)),
               Over(Minus(us, Times(Over(u, v), vs)), v))
<1> DEFINE top == Minus(Times(du, v), Times(dv, u))
           square == Power(v, Two)
           q == Over(u, v)
           slope == Minus(us, Times(q, vs))
<1> SUFFICES ASSUME Over(top, square) # NaN, Over(slope, v) # NaN
             PROVE  Over(top, square) = Over(slope, v)
  BY DEF Agree
<1>1. Two \in Number /\ Finite \subseteq Number /\ NaN \notin Finite
  BY ConstantsAre
<1>2. /\ Times(du, v) \in Number /\ Times(dv, u) \in Number /\ top \in Number /\ square \in Number
      /\ q \in Number /\ Times(q, vs) \in Number /\ slope \in Number
  BY <1>1, ResultsAre
<1>3. top \in Finite /\ slope \in Finite /\ v \in Finite /\ v # Zero
  BY <1>2, ResultsAre
<1>4. us \in Finite /\ Times(q, vs) \in Finite
  BY <1>1, <1>2, <1>3, ResultsAre
<1>5. q \in Finite /\ vs \in Finite
  BY <1>1, <1>2, <1>4, ResultsAre
<1>6. u \in Finite
  BY <1>1, <1>5, ResultsAre
<1>7. Times(du, v) \in Finite /\ Times(dv, u) \in Finite
  BY <1>1, <1>2, <1>3, ResultsAre
<1>8. du \in Finite /\ dv \in Finite
  BY ZenonT(40), <1>1, <1>7, ResultsAre
<1>9. du = us /\ dv = vs
  BY <1>1, <1>4, <1>5, <1>8 DEF Agree
<1>10. Times(q, v) = u
  BY <1>3, <1>6, FieldIs
<1>11. square = Times(v, v) /\ Times(v, v) \in Finite /\ Times(v, v) # Zero
  BY <1>3, FieldIs, SquareIs
<1> HIDE DEF q
<1>12. Times(dv, u) = Times(Times(q, dv), v)
  <2>1. Times(q, dv) = Times(dv, q) /\ Times(Times(dv, q), v) = Times(dv, Times(q, v))
    BY <1>3, <1>5, <1>8, FieldIs
  <2>2. QED
    BY <1>10, <2>1
<1>13. top = Times(slope, v)
  <2>1. Times(Minus(du, Times(q, dv)), v) = Minus(Times(du, v), Times(Times(q, dv), v))
    BY <1>3, <1>4, <1>8, <1>9, FieldIs
  <2>2. QED
    BY <1>9, <1>12, <2>1
<1> HIDE DEF top, square, slope
<1> DEFINE k == Over(slope, v)
<1>14. k \in Finite /\ Times(k, v) = slope
  BY <1>3, FieldIs
<1> HIDE DEF k
<1>15. top = Times(k, Times(v, v))
  BY <1>3, <1>13, <1>14, FieldIs
<1>16. Over(Times(k, Times(v, v)), Times(v, v)) = k
  BY <1>11, <1>14, FieldIs
<1>17. Over(top, square) = k
  BY <1>11, <1>15, <1>16
<1>18. QED
  BY <1>17 DEF k

(* A number as exponent: x^n (0 ln x + n/x) is n x^(n-1).                          *)
LEMMA NumberPowerRule ==
  ASSUME NEW dv \in Number, NEW x \in Number, NEW n \in Number, Agree(dv, Zero)
  PROVE  Agree(Times(Power(x, n), Plus(Times(dv, Result("LN", x, NaN)), Over(n, x))),
               PowerSlope(x, One, n))
<1> DEFINE ln == Result("LN", x, NaN)
           w == Over(n, x)
           sum == Plus(Times(dv, ln), w)
           p == Power(x, n)
           m == Power(x, Minus(n, One))
<1> SUFFICES ASSUME Times(p, sum) # NaN, PowerSlope(x, One, n) # NaN
             PROVE  Times(p, sum) = PowerSlope(x, One, n)
  BY DEF Agree
<1>1. /\ One \in Number /\ Zero \in Finite /\ One \in Finite
      /\ Finite \subseteq Number /\ NaN \notin Finite
  BY ConstantsAre
<1>2. ln \in Number
  BY FunctionsAre DEF FunctionOps
<1>3. /\ Times(dv, ln) \in Number /\ w \in Number /\ sum \in Number /\ p \in Number
      /\ Minus(n, One) \in Number /\ m \in Number /\ Times(n, m) \in Number
  BY <1>1, <1>2, ResultsAre
<1> HIDE DEF ln
<1>4. p \in Finite /\ sum \in Finite
  BY <1>3, ResultsAre
<1>5. Times(dv, ln) \in Finite /\ w \in Finite
  BY <1>1, <1>3, <1>4, ResultsAre
<1>6. dv \in Finite /\ ln \in Finite /\ n \in Finite /\ x \in Finite /\ x # Zero
  BY ZenonT(40), <1>1, <1>2, <1>5, ResultsAre
<1>7. dv = Zero
  BY <1>1, <1>6 DEF Agree
<1>8. sum = w
  <2>1. Times(Zero, ln) = Zero /\ Plus(Zero, w) = w
    BY <1>5, <1>6, FieldIs
  <2>2. QED
    BY <1>7, <2>1
<1>9. Times(w, x) = n
  BY <1>6, FieldIs
<1>10. CASE n = Zero
  <2>1. w = Zero
    <3>1. Over(Times(Zero, x), x) = Zero /\ Times(Zero, x) = Zero
      BY <1>1, <1>6, FieldIs
    <3>2. QED
      BY <1>10, <3>1
  <2>2. p = One
    BY <1>6, <1>10, FieldIs
  <2>3. Times(One, Zero) = Zero
    BY <1>1, FieldIs
  <2>4. QED
    BY <1>8, <1>10, <2>1, <2>2, <2>3 DEF PowerSlope
<1>11. CASE n # Zero
  <2>1. PowerSlope(x, One, n) = Times(Times(n, m), One)
    BY <1>11 DEF PowerSlope
  <2>2. Times(n, m) \in Finite
    BY <1>1, <1>3, <2>1, ResultsAre
  <2>3. m \in Finite
    BY <1>1, <1>3, <2>2, ResultsAre
  <2>4. p = Times(x, m)
    BY <1>6, <1>11, FieldIs
  <2> HIDE DEF p, m, w
  <2>5. Times(Times(n, m), One) = Times(n, m)
    BY <1>1, <2>2, FieldIs
  <2>6. Times(Times(x, m), w) = Times(w, Times(x, m))
    <3>1. Times(x, m) \in Finite
      BY <1>6, <2>3, FieldIs
    <3>2. QED
      BY <1>5, <3>1, FieldIs
  <2>7. Times(w, Times(x, m)) = Times(Times(w, x), m)
    BY <1>5, <1>6, <2>3, FieldIs
  <2>8. QED
    BY <1>8, <1>9, <2>1, <2>4, <2>5, <2>6, <2>7
<1>12. QED
  BY <1>10, <1>11

(* Any other exponent: v u'/u is v/u if u is the variable.                         *)
LEMMA PowerRule ==
  ASSUME NEW dv \in Number, NEW vs \in Number, NEW x \in Number, NEW n \in Number, Agree(dv, vs)
  PROVE  Agree(Times(Power(x, n), Plus(Times(dv, Result("LN", x, NaN)), Over(n, x))),
               Times(Power(x, n), Plus(Times(vs, Result("LN", x, NaN)), Times(n, Over(One, x)))))
<1> DEFINE ln == Result("LN", x, NaN)
           w == Over(n, x)
           z == Times(n, Over(One, x))
           p == Power(x, n)
           sum == Plus(Times(dv, ln), w)
           slope == Plus(Times(vs, ln), z)
<1> SUFFICES ASSUME Times(p, sum) # NaN, Times(p, slope) # NaN
             PROVE  Times(p, sum) = Times(p, slope)
  BY DEF Agree
<1>1. One \in Number /\ Finite \subseteq Number /\ NaN \notin Finite
  BY ConstantsAre
<1>2. ln \in Number
  BY FunctionsAre DEF FunctionOps
<1>3. /\ Times(dv, ln) \in Number /\ Times(vs, ln) \in Number /\ w \in Number /\ p \in Number
      /\ Over(One, x) \in Number /\ z \in Number /\ sum \in Number /\ slope \in Number
  BY <1>1, <1>2, ResultsAre
<1> HIDE DEF ln
<1>4. sum \in Finite /\ slope \in Finite
  BY <1>3, ResultsAre
<1>5. Times(dv, ln) \in Finite /\ w \in Finite /\ Times(vs, ln) \in Finite
  <2>1. sum # NaN /\ slope # NaN
    BY <1>1, <1>4
  <2> HIDE DEF w, z
  <2>2. Times(dv, ln) \in Finite /\ w \in Finite
    BY <1>3, <2>1, ResultsAre
  <2>3. Times(vs, ln) \in Finite
    BY <1>3, <2>1, ResultsAre
  <2>4. QED
    BY <2>2, <2>3
<1>6. dv \in Finite /\ vs \in Finite /\ n \in Finite /\ x \in Finite /\ x # Zero
  BY ZenonT(40), <1>1, <1>2, <1>5, ResultsAre
<1>7. dv = vs
  BY <1>1, <1>6 DEF Agree
<1>8. w = z
  BY <1>6, QuotientIs
<1>9. QED
  BY <1>7, <1>8

(* What the rules make of the values of their operands.                           *)
RuleValue(op, du, dv, u, v) ==
  CASE op = "ADD"  -> Plus(du, dv)
    [] op = "SUB"  -> Minus(du, dv)
    [] op = "MUL"  -> Plus(Times(du, v), Times(u, dv))
    [] op = "DIV"  -> Over(Minus(Times(du, v), Times(dv, u)), Power(v, Two))
    [] op = "POW"  -> Times(Power(u, v), Plus(Times(dv, Result("LN", u, NaN)), Over(v, u)))
    [] op = "SIN"  -> Times(du, Result("COS", u, NaN))
    [] op = "COS"  -> Times(du, Times(MinusOne, Result("SIN", u, NaN)))
    [] op = "SQRT" -> Over(du, Times(Two, Result("SQRT", u, NaN)))
    [] op = "LN"   -> Over(du, u)
    [] op = "EXP"  -> Times(du, Result("EXP", u, NaN))

(* A product of two numbers, each known up to NaN, the other way round.             *)
LEMMA ProductAgrees ==
  ASSUME NEW d \in Number, NEW s \in Number, NEW f \in Number, Agree(d, s)
  PROVE  Agree(Times(d, f), Times(f, s))
<1> SUFFICES ASSUME Times(d, f) # NaN, Times(f, s) # NaN
             PROVE  Times(d, f) = Times(f, s)
  BY DEF Agree
<1>1. d \in Finite /\ f \in Finite /\ s \in Finite /\ NaN \notin Finite
  BY ResultsAre, ConstantsAre
<1>2. d = s
  BY <1>1 DEF Agree
<1>3. QED
  BY <1>1, <1>2, FieldIs

LEMMA QuotientAgrees ==
  ASSUME NEW d \in Number, NEW s \in Number, NEW f \in Number, Agree(d, s)
  PROVE  Agree(Over(d, f), Times(Over(One, f), s))
<1> SUFFICES ASSUME Over(d, f) # NaN, Times(Over(One, f), s) # NaN
             PROVE  Over(d, f) = Times(Over(One, f), s)
  BY DEF Agree
<1>1. One \in Number /\ NaN \notin Finite
  BY ConstantsAre
<1>2. d \in Finite /\ f \in Finite /\ f # Zero
  BY ResultsAre
<1>3. s \in Finite
  <2>1. Over(One, f) \in Number
    BY <1>1, ResultsAre
  <2>2. QED
    BY <2>1, ResultsAre
<1>4. d = s
  BY <1>1, <1>2, <1>3 DEF Agree
<1>5. QED
  BY <1>2, <1>4, QuotientIs

(* Each rule is right, the one of POW where the base is the variable.               *)
LEMMA RuleIsRight ==
  ASSUME NEW op \in BinaryOps \cup FunctionOps, NEW u \in JetSet, NEW v \in JetSet,
         NEW du \in Number, Agree(du, u.slope),
         NEW dv \in Number, op \in BinaryOps => Agree(dv, v.slope),
         NEW numberAbove,
         op = "POW" => u.slope = One /\ (numberAbove => v.slope = Zero)
  PROVE  Agree(RuleValue(op, du, dv, u.value, v.value), OperationSlope(op, u, v, numberAbove))
<1> DEFINE x == u.value
           y == v.value
           us == u.slope
           vs == v.slope
<1>1. x \in Number /\ y \in Number /\ us \in Number /\ vs \in Number
  BY DEF JetSet
<1>2. One \in Number /\ Two \in Number /\ MinusOne \in Number /\ Zero \in Finite
      /\ MinusOne \in Finite /\ Finite \subseteq Number /\ NaN \notin Finite
  BY ConstantsAre
<1>3. CASE op = "ADD"
  <2>1. /\ RuleValue(op, du, dv, x, y) = Plus(du, dv)
        /\ OperationSlope(op, u, v, numberAbove) = Plus(us, vs)
    BY <1>3 DEF RuleValue, OperationSlope, FunctionOps, Plus
  <2>2. ASSUME Plus(du, dv) # NaN, Plus(us, vs) # NaN
        PROVE  du = us /\ dv = vs
    <3>1. du \in Finite /\ dv \in Finite
      BY <2>2, ResultsAre
    <3>2. us \in Finite /\ vs \in Finite
      BY <1>1, <2>2, ResultsAre
    <3>3. Agree(du, us) /\ Agree(dv, vs)
      BY <1>3 DEF BinaryOps
    <3>4. QED
      BY <1>2, <3>1, <3>2, <3>3 DEF Agree
  <2>3. QED
    BY <2>1, <2>2 DEF Agree
<1>4. CASE op = "SUB"
  <2>1. /\ RuleValue(op, du, dv, x, y) = Minus(du, dv)
        /\ OperationSlope(op, u, v, numberAbove) = Minus(us, vs)
    BY <1>4 DEF RuleValue, OperationSlope, FunctionOps, Minus
  <2>2. ASSUME Minus(du, dv) # NaN, Minus(us, vs) # NaN
        PROVE  du = us /\ dv = vs
    <3>1. du \in Finite /\ dv \in Finite
      BY <2>2, ResultsAre
    <3>2. us \in Finite /\ vs \in Finite
      BY <1>1, <2>2, ResultsAre
    <3>3. Agree(du, us) /\ Agree(dv, vs)
      BY <1>4 DEF BinaryOps
    <3>4. QED
      BY <1>2, <3>1, <3>2, <3>3 DEF Agree
  <2>3. QED
    BY <2>1, <2>2 DEF Agree
<1>5. CASE op = "MUL"
  <2> DEFINE a == Plus(Times(du, y), Times(x, dv))
             b == Plus(Times(us, y), Times(x, vs))
  <2>1. /\ RuleValue(op, du, dv, x, y) = a
        /\ OperationSlope(op, u, v, numberAbove) = b
    BY <1>5 DEF RuleValue, OperationSlope, FunctionOps
  <2>2. ASSUME a # NaN, b # NaN
        PROVE  du = us /\ dv = vs
    <3>1. /\ Times(du, y) \in Number /\ Times(x, dv) \in Number
          /\ Times(us, y) \in Number /\ Times(x, vs) \in Number
      BY <1>1, ResultsAre
    <3>2. /\ Times(du, y) \in Finite /\ Times(x, dv) \in Finite
          /\ Times(us, y) \in Finite /\ Times(x, vs) \in Finite
      BY <2>2, <3>1, ResultsAre
    <3>3. Times(du, y) # NaN /\ Times(x, dv) # NaN /\ Times(us, y) # NaN /\ Times(x, vs) # NaN
      BY <1>2, <3>2
    <3>4. du \in Finite /\ dv \in Finite
      BY <1>1, <3>3, ResultsAre
    <3>5. us \in Finite /\ vs \in Finite
      BY <1>1, <3>3, ResultsAre
    <3>6. QED
      BY <1>2, <1>5, <3>4, <3>5 DEF Agree, BinaryOps
  <2>3. QED
    BY <2>1, <2>2 DEF Agree
<1>6. CASE op = "DIV"
  <2>1. /\ RuleValue(op, du, dv, x, y) = Over(Minus(Times(du, y), Times(dv, x)), Power(y, Two))
        /\ OperationSlope(op, u, v, numberAbove) = Over(Minus(us, Times(Over(x, y), vs)), y)
    BY <1>6 DEF RuleValue, OperationSlope, FunctionOps
  <2>2. Agree(dv, vs)
    BY <1>6 DEF BinaryOps
  <2> HIDE DEF x, y, us, vs
  <2>3. Agree(Over(Minus(Times(du, y), Times(dv, x)), Power(y, Two)),
              Over(Minus(us, Times(Over(x, y), vs)), y))
    <3>1. Agree(du, us)
      BY DEF us
    <3>2. QED
      BY <1>1, <2>2, <3>1, QuotientRule
  <2>4. QED
    BY <2>1, <2>3 DEF x, y
<1>7. CASE op = "POW"
  <2> DEFINE d == Times(Power(x, y), Plus(Times(dv, Result("LN", x, NaN)), Over(y, x)))
  <2>1. RuleValue(op, du, dv, x, y) = d
    BY <1>7 DEF RuleValue
  <2>2. us = One /\ Agree(dv, vs)
    BY <1>7 DEF BinaryOps
  <2>3. CASE numberAbove
    <3>1. OperationSlope(op, u, v, numberAbove) = PowerSlope(x, us, y)
      BY <1>7, <2>3 DEF OperationSlope, FunctionOps
    <3>2. vs = Zero
      BY <1>7, <2>3
    <3> HIDE DEF x, y, us, vs
    <3>3. Agree(d, PowerSlope(x, One, y))
      BY <1>1, <2>2, <3>2, NumberPowerRule
    <3>4. QED
      BY <2>1, <2>2, <3>1, <3>3 DEF x, y
  <2>4. CASE ~numberAbove
    <3>1. OperationSlope(op, u, v, numberAbove)
            = Times(Power(x, y), Plus(Times(vs, Result("LN", x, NaN)), Times(y, Over(us, x))))
      BY <1>7, <2>4 DEF OperationSlope, FunctionOps
    <3> HIDE DEF x, y, us, vs
    <3>2. Agree(d, Times(Power(x, y), Plus(Times(vs, Result("LN", x, NaN)), Times(y, Over(One, x)))))
      BY <1>1, <2>2, PowerRule
    <3>3. QED
      BY <2>1, <2>2, <3>1, <3>2 DEF x, y
  <2>5. QED
    BY <2>3, <2>4
<1>8. CASE op \in FunctionOps
  <2>1. OperationSlope(op, u, v, numberAbove) = Times(FunctionSlope(op, x), us)
    BY <1>8 DEF OperationSlope, FunctionOps
  <2>2. Agree(du, us)
    OBVIOUS
  <2>3. \A name \in {"SIN", "COS", "SQRT", "EXP"} : Result(name, x, NaN) \in Number
    BY <1>1, FunctionsAre DEF FunctionOps
  <2> HIDE DEF x, y, us, vs
  <2>4. CASE op = "SIN"
    <3>1. /\ RuleValue(op, du, dv, x, y) = Times(du, Result("COS", x, NaN))
          /\ FunctionSlope(op, x) = Result("COS", x, NaN)
      BY <2>4 DEF RuleValue, FunctionSlope
    <3>2. Result("COS", x, NaN) \in Number
      BY <2>3
    <3>3. QED
      BY <1>1, <2>1, <2>2, <3>1, <3>2, ProductAgrees DEF x, y
  <2>5. CASE op = "EXP"
    <3>1. /\ RuleValue(op, du, dv, x, y) = Times(du, Result("EXP", x, NaN))
          /\ FunctionSlope(op, x) = Result("EXP", x, NaN)
      BY <2>5 DEF RuleValue, FunctionSlope
    <3>2. Result("EXP", x, NaN) \in Number
      BY <2>3
    <3>3. QED
      BY <1>1, <2>1, <2>2, <3>1, <3>2, ProductAgrees DEF x, y
  <2>6. CASE op = "COS"
    <3> DEFINE s == Result("SIN", x, NaN)
    <3>1. /\ RuleValue(op, du, dv, x, y) = Times(du, Times(MinusOne, s))
          /\ FunctionSlope(op, x) = Minus(Zero, s)
      BY <2>6 DEF RuleValue, FunctionSlope
    <3>2. s \in Number
      BY <2>3
    <3> HIDE DEF s
    <3>3. Minus(Zero, s) = Times(MinusOne, s) /\ Times(MinusOne, s) \in Number
      <4>1. CASE s \in Finite
        BY <1>2, <4>1, FieldIs
      <4>2. CASE s \notin Finite
        <5>1. Minus(Zero, s) = NaN /\ Times(MinusOne, s) = NaN
          BY <1>2, <3>2, <4>2, ResultsAre
        <5>2. QED
          BY <5>1, ConstantsAre
      <4>3. QED
        BY <4>1, <4>2
    <3>4. Agree(Times(du, Times(MinusOne, s)), Times(Times(MinusOne, s), us))
      BY <1>1, <2>2, <3>3, ProductAgrees
    <3>5. QED
      BY <2>1, <3>1, <3>3, <3>4 DEF x, y
  <2>7. CASE op = "SQRT"
    <3> DEFINE s == Times(Two, Result("SQRT", x, NaN))
    <3>1. /\ RuleValue(op, du, dv, x, y) = Over(du, s)
          /\ FunctionSlope(op, x) = Over(One, s)
      BY <2>7 DEF RuleValue, FunctionSlope
    <3>2. s \in Number
      BY <1>2, <2>3, ResultsAre
    <3> HIDE DEF s
    <3>3. QED
      BY <1>1, <2>1, <2>2, <3>1, <3>2, QuotientAgrees DEF x, y
  <2>8. CASE op = "LN"
    <3>1. /\ RuleValue(op, du, dv, x, y) = Over(du, x)
          /\ FunctionSlope(op, x) = Over(One, x)
      BY <2>8 DEF RuleValue, FunctionSlope
    <3>2. QED
      BY <1>1, <2>1, <2>2, <3>1, QuotientAgrees DEF x, y
  <2>9. QED
    BY <1>8, <2>4, <2>5, <2>6, <2>7, <2>8 DEF FunctionOps
<1>9. QED
  BY <1>3, <1>4, <1>5, <1>6, <1>7, <1>8 DEF BinaryOps

-----------------------------------------------------------------------------
(* The derivative of an expression.                                             *)

(* The trees the rules build, and their values.                                   *)
Built(T, point) ==
  /\ \A a, b \in T :
       /\ {Add(a, b), Sub(a, b), Mul(a, b), Div(a, b), Pow(a, b)} \subseteq T
       /\ ValueAt(Add(a, b), point) = Plus(ValueAt(a, point), ValueAt(b, point))
       /\ ValueAt(Sub(a, b), point) = Minus(ValueAt(a, point), ValueAt(b, point))
       /\ ValueAt(Mul(a, b), point) = Times(ValueAt(a, point), ValueAt(b, point))
       /\ ValueAt(Div(a, b), point) = Over(ValueAt(a, point), ValueAt(b, point))
       /\ ValueAt(Pow(a, b), point) = Power(ValueAt(a, point), ValueAt(b, point))
  /\ \A a \in T, name \in FunctionOps :
       /\ Function(name, a) \in T
       /\ ValueAt(Function(name, a), point) = Result(name, ValueAt(a, point), NaN)
  /\ \A number \in {"0", "1", "2", "-1"} :
       /\ Const(number) \in T
       /\ ValueAt(Const(number), point) = Literal[number]
  /\ \A a \in T : ValueAt(a, point) \in Number

LEMMA BuiltAre ==
  ASSUME NEW e, NEW proper, NEW point \in Points
  PROVE  Built(Trees(Labels(e), proper), point)
<1> DEFINE T == Trees(Labels(e), proper)
<1>1. /\ OperationNames \subseteq Labels(e) /\ {"0", "1", "2", "-1"} \subseteq Labels(e)
      /\ None \notin T
  BY NoneIs DEF Labels
<1>2. \A a \in T : ValueOr(a, point) = ValueAt(a, point) /\ ValueAt(a, point) \in Number
  <2> SUFFICES ASSUME NEW a \in T
               PROVE  ValueOr(a, point) = ValueAt(a, point) /\ ValueAt(a, point) \in Number
    OBVIOUS
  <2>1. Tidy(a) /\ <<>> \in DOMAIN a.label
    BY TreesTidy
  <2>2. ValueAt(a, point) \in Number
    BY <2>1, ValuesAre DEF ValueAt
  <2>3. QED
    BY <1>1, <2>2 DEF ValueOr
<1>3. ASSUME NEW a \in T, NEW b \in T, NEW name \in BinaryOps
      PROVE  /\ CreateNode(name, a, b) \in T
             /\ ValueAt(CreateNode(name, a, b), point) = Result(name, ValueAt(a, point), ValueAt(b, point))
  <2>1. /\ name \in Labels(e) /\ name \notin Brackets /\ name \notin FunctionOps
        /\ name # "EQUALS" /\ name \in OperationNames /\ a # None /\ b # None
    BY <1>1 DEF BinaryOps, Brackets, FunctionOps, OperationNames
  <2>2. CreateNode(name, a, b) \in T
    BY <2>1, NodeInOrder
  <2> a \in OperandTrees(Labels(e), proper) /\ b \in OperandTrees(Labels(e), proper)
    BY DEF OperandTrees
  <2>3. ValueAt(CreateNode(name, a, b), point) = Result(name, ValueOr(a, point), ValueOr(b, point))
    BY <2>1, NodeValueIs DEF IsOperation
  <2>4. QED
    BY <1>2, <2>1, <2>2, <2>3 DEF IsOperation
<1>4. ASSUME NEW a \in T, NEW name \in FunctionOps
      PROVE  /\ Function(name, a) \in T
             /\ ValueAt(Function(name, a), point) = Result(name, ValueAt(a, point), NaN)
  <2>1. /\ name \in Labels(e) /\ name \notin Brackets /\ name \notin BinaryOps
        /\ name # "EQUALS" /\ name \in OperationNames /\ a # None
    BY <1>1 DEF BinaryOps, Brackets, FunctionOps, OperationNames
  <2>2. CreateNode(name, a, None) \in T
    BY <2>1, NodeInOrder
  <2> a \in OperandTrees(Labels(e), proper) /\ None \in OperandTrees(Labels(e), proper)
    BY DEF OperandTrees
  <2>3. ValueAt(CreateNode(name, a, None), point) = Result(name, ValueOr(a, point), ValueOr(None, point))
    BY <2>1, NodeValueIs DEF IsOperation
  <2>4. ValueOr(None, point) = NaN
    BY DEF ValueOr
  <2>5. QED
    BY <1>2, <2>1, <2>2, <2>3, <2>4 DEF IsOperation, Function
<1>5. ASSUME NEW number \in {"0", "1", "2", "-1"}
      PROVE  /\ Const(number) \in T
             /\ ValueAt(Const(number), point) = Literal[number]
  <2>1. number \in Labels(e) /\ number \notin OperationNames /\ number \in DOMAIN Literal
    BY <1>1, ConstantsAssumption, LiteralAssumption
  <2>2. number \notin Brackets \cup BinaryOps \cup FunctionOps \cup {"EQUALS"}
    BY <2>1 DEF OperationNames
  <2>3. CreateNode(number, None, None) \in T
    BY <2>1, <2>2, NodeInOrder
  <2> None \in OperandTrees(Labels(e), proper)
    BY DEF OperandTrees
  <2>4. ValueAt(CreateNode(number, None, None), point) = LeafValue(number, point)
    BY <2>1, <2>2, NodeValueIs DEF IsOperation
  <2>5. QED
    BY <2>1, <2>3, <2>4 DEF IsOperation, LeafValue, Const
<1> HIDE DEF T
<1>6. ASSUME NEW a \in T, NEW b \in T
      PROVE  /\ {Add(a, b), Sub(a, b), Mul(a, b), Div(a, b), Pow(a, b)} \subseteq T
             /\ ValueAt(Add(a, b), point) = Plus(ValueAt(a, point), ValueAt(b, point))
             /\ ValueAt(Sub(a, b), point) = Minus(ValueAt(a, point), ValueAt(b, point))
             /\ ValueAt(Mul(a, b), point) = Times(ValueAt(a, point), ValueAt(b, point))
             /\ ValueAt(Div(a, b), point) = Over(ValueAt(a, point), ValueAt(b, point))
             /\ ValueAt(Pow(a, b), point) = Power(ValueAt(a, point), ValueAt(b, point))
  BY <1>3 DEF BinaryOps, Add, Sub, Mul, Div, Pow, Plus, Minus, Times, Over, Power
<1>7. QED
  BY <1>2, <1>4, <1>5, <1>6 DEF T, Built

LEMMA RuleValueIs ==
  ASSUME NEW point, NEW T, Built(T, point), NEW op \in BinaryOps \cup FunctionOps,
         NEW dl \in T, NEW l \in T, NEW dr, NEW r,
         op \in BinaryOps => dr \in T /\ r \in T
  PROVE  ValueAt(Rule(op, dl, dr, l, r), point)
           = RuleValue(op, ValueAt(dl, point), ValueAt(dr, point), ValueAt(l, point), ValueAt(r, point))
<1> DEFINE V(t) == ValueAt(t, point)
<1>1. /\ \A a, b \in T :
           /\ {Add(a, b), Sub(a, b), Mul(a, b), Div(a, b), Pow(a, b)} \subseteq T
           /\ V(Add(a, b)) = Plus(V(a), V(b)) /\ V(Sub(a, b)) = Minus(V(a), V(b))
           /\ V(Mul(a, b)) = Times(V(a), V(b)) /\ V(Div(a, b)) = Over(V(a), V(b))
           /\ V(Pow(a, b)) = Power(V(a), V(b))
      /\ \A a \in T, name \in FunctionOps :
           /\ Function(name, a) \in T
           /\ V(Function(name, a)) = Result(name, V(a), NaN)
      /\ \A number \in {"0", "1", "2", "-1"} :
           Const(number) \in T /\ V(Const(number)) = Literal[number]
  BY DEF Built
<1>2. dl \in T /\ l \in T /\ (op \in BinaryOps => dr \in T /\ r \in T)
  OBVIOUS
<1> HIDE DEF V
<1>3. CASE op \in BinaryOps
  <2>1. dr \in T /\ r \in T /\ Const("2") \in T /\ V(Const("2")) = Two
    BY <1>1, <1>2, <1>3 DEF Two
  <2>2. CASE op = "ADD"
    BY <1>1, <1>2, <2>1, <2>2 DEF Rule, RuleValue, FunctionOps, V
  <2>3. CASE op = "SUB"
    BY <1>1, <1>2, <2>1, <2>3 DEF Rule, RuleValue, FunctionOps, V
  <2>4. CASE op = "MUL"
    <3>1. V(DiffMul(dl, dr, l, r)) = Plus(Times(V(dl), V(r)), Times(V(l), V(dr)))
      BY <1>1, <1>2, <2>1 DEF DiffMul
    <3>2. QED
      BY <2>4, <3>1 DEF Rule, RuleValue, FunctionOps, V
  <2>5. CASE op = "DIV"
    <3>1. V(DiffDiv(dl, dr, l, r))
            = Over(Minus(Times(V(dl), V(r)), Times(V(dr), V(l))), Power(V(r), Two))
      BY <1>1, <1>2, <2>1 DEF DiffDiv
    <3>2. QED
      BY <2>5, <3>1 DEF Rule, RuleValue, FunctionOps, V
  <2>6. CASE op = "POW"
    <3>1. Function("LN", l) \in T /\ V(Function("LN", l)) = Result("LN", V(l), NaN)
      BY <1>1, <1>2 DEF FunctionOps
    <3>2. V(DiffPow(dr, l, r))
            = Times(Power(V(l), V(r)), Plus(Times(V(dr), Result("LN", V(l), NaN)), Over(V(r), V(l))))
      BY <1>1, <1>2, <2>1, <3>1 DEF DiffPow
    <3>3. QED
      BY <2>6, <3>2 DEF Rule, RuleValue, FunctionOps, V
  <2>7. QED
    BY <1>3, <2>2, <2>3, <2>4, <2>5, <2>6 DEF BinaryOps
<1>4. CASE op \in FunctionOps
  <2>1. Rule(op, dl, dr, l, r) = DiffFunction(op, dl, l)
    BY <1>4 DEF Rule, FunctionOps
  <2>2. \A name \in {"SIN", "COS", "SQRT", "LN", "EXP"} :
          Function(name, l) \in T /\ V(Function(name, l)) = Result(name, V(l), NaN)
    BY <1>1, <1>2 DEF FunctionOps
  <2>3. /\ Const("2") \in T /\ V(Const("2")) = Two
        /\ Const("-1") \in T /\ V(Const("-1")) = MinusOne
    BY <1>1 DEF Two, MinusOne
  <2>4. CASE op = "SIN"
    <3>1. V(Mul(dl, Function("COS", l))) = Times(V(dl), Result("COS", V(l), NaN))
      BY <1>1, <1>2, <2>2
    <3>2. QED
      BY <2>1, <2>4, <3>1 DEF DiffFunction, RuleValue, V
  <2>5. CASE op = "COS"
    <3>1. V(Mul(dl, Mul(Const("-1"), Function("SIN", l))))
            = Times(V(dl), Times(MinusOne, Result("SIN", V(l), NaN)))
      BY <1>1, <1>2, <2>2, <2>3
    <3>2. QED
      BY <2>1, <2>5, <3>1 DEF DiffFunction, RuleValue, V
  <2>6. CASE op = "SQRT"
    <3>1. V(Div(dl, Mul(Const("2"), Function("SQRT", l))))
            = Over(V(dl), Times(Two, Result("SQRT", V(l), NaN)))
      BY <1>1, <1>2, <2>2, <2>3
    <3>2. QED
      BY <2>1, <2>6, <3>1 DEF DiffFunction, RuleValue, V
  <2>7. CASE op = "LN"
    <3>1. V(Div(dl, l)) = Over(V(dl), V(l))
      BY <1>1, <1>2
    <3>2. QED
      BY <2>1, <2>7, <3>1 DEF DiffFunction, RuleValue, V
  <2>8. CASE op = "EXP"
    <3>1. V(Mul(dl, Function("EXP", l))) = Times(V(dl), Result("EXP", V(l), NaN))
      BY <1>1, <1>2, <2>2
    <3>2. QED
      BY <2>1, <2>8, <3>1 DEF DiffFunction, RuleValue, V
  <2>9. QED
    BY <1>4, <2>4, <2>5, <2>6, <2>7, <2>8 DEF FunctionOps
<1>5. QED
  BY <1>3, <1>4

(* GetReassignments changes no label.                                           *)
LEMMA ReassignedValue ==
  ASSUME NEW t, NEW point
  PROVE  ValueAt(GetReassignments(t), point) = ValueAt(t, point)
  BY DEF ValueAt, GetReassignments

(* If the derivatives of the operands agree with their slopes, so does what is made  *)
(* of them.                                                                     *)
LEMMA StepAgrees ==
  ASSUME NEW e, Parsed(e), Formula(e), PowersOfVariable(e), NEW path \in DOMAIN e.label,
         NEW point \in Points, NEW dl, NEW dr,
         Has(e, path, 1) => dl \in Trees(Labels(e), TRUE)
           /\ Agree(ValueAt(dl, point), Jets(e.label, point)[Append(path, 1)].slope),
         Has(e, path, 2) => dr \in Trees(Labels(e), TRUE)
           /\ Agree(ValueAt(dr, point), Jets(e.label, point)[Append(path, 2)].slope)
  PROVE  Agree(ValueAt(StepAt(e, path, dl, dr), point), Jets(e.label, point)[path].slope)
<1> DEFINE op == e.label[path]
           T == Trees(Labels(e), TRUE)
           j == Jets(e.label, point)
           u == IF Has(e, path, 1) THEN j[Append(path, 1)] ELSE NoJet
           v == IF Has(e, path, 2) THEN j[Append(path, 2)] ELSE NoJet
           above == Append(path, 2) \in DOMAIN e.label /\ e.label[Append(path, 2)] \in DOMAIN Literal
<1>0. Built(T, point)
  <2>1. \A proper : Built(Trees(Labels(e), proper), point)
    BY BuiltAre
  <2>2. QED
    BY <2>1
<1>1. Tidy(e)
  BY ExpressionTidy
<1>2. /\ \A p \in DOMAIN e.label :
           /\ j[p] \in JetSet
           /\ j[p] = NodeJet(e.label, p, IF Has(e, p, 1) THEN j[Append(p, 1)] ELSE NoJet,
                             IF Has(e, p, 2) THEN j[Append(p, 2)] ELSE NoJet, point)
           /\ j[p].value = Values(e.label, point)[p]
  BY <1>1, JetsAre, JetValueIs
<1> HIDE DEF j
<1>3. j[path] = NodeJet(e.label, path, u, v, point)
  BY <1>2
<1>4. CASE ~IsOperation(op)
  <2>1. j[path].slope = IF op = variableIndex THEN One ELSE Zero
    BY <1>3, <1>4 DEF NodeJet
  <2>2. StepAt(e, path, dl, dr) = Const(IF op = variableIndex THEN "1" ELSE "0")
    BY <1>4 DEF StepAt
  <2>3. ValueAt(Const("1"), point) = One /\ ValueAt(Const("0"), point) = Zero
    BY <1>0 DEF One, Zero, Built
  <2>4. ValueAt(StepAt(e, path, dl, dr), point) = j[path].slope
    BY <2>1, <2>2, <2>3
  <2>5. QED
    BY <2>4 DEF Agree, j
<1>5. CASE IsOperation(op)
  <2> DEFINE l == CopySubtree(e, Append(path, 1))
             r == CopySubtree(e, Append(path, 2))
  <2>1. /\ op \notin Brackets /\ op # "EQUALS"
        /\ op \in BinaryOps => Has(e, path, 1) /\ Has(e, path, 2)
        /\ op \in FunctionOps => Has(e, path, 1) /\ ~Has(e, path, 2)
    BY DEF Parsed, Formula, Has
  <2>2. op \in BinaryOps \cup FunctionOps
    BY <1>5, <2>1 DEF IsOperation, OperationNames
  <2>3. Has(e, path, 1)
    BY <2>1, <2>2
  <2>4. l \in T /\ ValueAt(l, point) = j[Append(path, 1)].value
    <3>1. Append(path, 1) \in DOMAIN e.label
      BY <2>3 DEF Has
    <3>2. l \in T
      BY <3>1, CopyInOrder
    <3>3. ValueAt(l, point) = Values(e.label, point)[Append(path, 1)]
      BY <3>1, CopyValueIs
    <3>4. QED
      BY <1>2, <3>1, <3>2, <3>3
  <2>5. Has(e, path, 2) => r \in T /\ ValueAt(r, point) = j[Append(path, 2)].value
    <3> SUFFICES ASSUME Has(e, path, 2)
                 PROVE  r \in T /\ ValueAt(r, point) = j[Append(path, 2)].value
      OBVIOUS
    <3>1. Append(path, 2) \in DOMAIN e.label
      BY DEF Has
    <3>2. r \in T
      BY <3>1, CopyInOrder
    <3>3. ValueAt(r, point) = Values(e.label, point)[Append(path, 2)]
      BY <3>1, CopyValueIs
    <3>4. QED
      BY <1>2, <3>1, <3>2, <3>3
  <2> HIDE DEF l, r
  <2>6. u \in JetSet /\ v \in JetSet /\ u = j[Append(path, 1)] /\ (Has(e, path, 2) => v = j[Append(path, 2)])
    <3>1. NoJet \in JetSet
      BY LiteralAssumption DEF NoJet, JetSet
    <3>2. QED
      BY <1>2, <2>3, <3>1 DEF Has
  <2>7. j[path].slope = OperationSlope(op, u, v, above)
    BY <1>3, <1>5 DEF NodeJet
  <2>8. op = "POW" => u.slope = One /\ (above => v.slope = Zero)
    <3> SUFFICES ASSUME op = "POW"
                 PROVE  u.slope = One /\ (above => v.slope = Zero)
      OBVIOUS
    <3>1. e.label[Append(path, 1)] = variableIndex
      BY DEF PowersOfVariable
    <3>2. ~IsOperation(variableIndex) /\ variableIndex \notin DOMAIN Literal
      BY VariableAssumption, LiteralAssumption DEF IsOperation
    <3>3. u.slope = One
      <4>1. Append(path, 1) \in DOMAIN e.label
        BY <2>3 DEF Has
      <4>2. u = NodeJet(e.label, Append(path, 1),
                        IF Has(e, Append(path, 1), 1) THEN j[Append(Append(path, 1), 1)] ELSE NoJet,
                        IF Has(e, Append(path, 1), 2) THEN j[Append(Append(path, 1), 2)] ELSE NoJet, point)
        BY <1>2, <2>6, <4>1
      <4>3. QED
        BY <3>1, <3>2, <4>2 DEF NodeJet
    <3>4. ASSUME above
          PROVE  v.slope = Zero
      <4>1. Append(path, 2) \in DOMAIN e.label /\ Has(e, path, 2)
        BY <3>4 DEF Has
      <4>2. v = NodeJet(e.label, Append(path, 2),
                        IF Has(e, Append(path, 2), 1) THEN j[Append(Append(path, 2), 1)] ELSE NoJet,
                        IF Has(e, Append(path, 2), 2) THEN j[Append(Append(path, 2), 2)] ELSE NoJet, point)
        BY <1>2, <2>6, <4>1
      <4>3. ~IsOperation(e.label[Append(path, 2)]) /\ e.label[Append(path, 2)] # variableIndex
        BY <3>2, <3>4, LiteralAssumption DEF IsOperation
      <4>4. QED
        BY <4>2, <4>3 DEF NodeJet
    <3>5. QED
      BY <3>3, <3>4
  <2>9. dl \in T /\ Agree(ValueAt(dl, point), u.slope)
    BY <2>3, <2>6 DEF j
  <2>10. op \in BinaryOps => dr \in T /\ r \in T /\ Agree(ValueAt(dr, point), v.slope)
                             /\ ValueAt(r, point) = v.value
    BY <2>1, <2>5, <2>6 DEF j
  <2>11. ValueAt(l, point) = u.value
    BY <2>4, <2>6
  <2> HIDE DEF u, v, above, op
  <2> DEFINE du == ValueAt(dl, point)
             dv == IF op \in BinaryOps THEN ValueAt(dr, point) ELSE NaN
  <2>12. du \in Number /\ dv \in Number
    BY <1>0, <2>9, <2>10, LiteralAssumption DEF Built
  <2>13. ValueAt(Rule(op, dl, dr, l, r), point) = RuleValue(op, du, dv, u.value, v.value)
    <3>1. ValueAt(Rule(op, dl, dr, l, r), point)
            = RuleValue(op, du, ValueAt(dr, point), u.value, ValueAt(r, point))
      <4>1. dl \in T /\ l \in T /\ (op \in BinaryOps => dr \in T /\ r \in T)
        BY <2>4, <2>9, <2>10
      <4> HIDE DEF T
      <4>2. ValueAt(Rule(op, dl, dr, l, r), point)
              = RuleValue(op, ValueAt(dl, point), ValueAt(dr, point), ValueAt(l, point), ValueAt(r, point))
        BY <1>0, <2>2, <4>1, RuleValueIs
      <4>3. QED
        BY <2>11, <4>2
    <3>2. CASE op \in BinaryOps
      BY <2>10, <3>1, <3>2
    <3>3. CASE op \in FunctionOps
      BY <3>1, <3>3 DEF RuleValue, FunctionOps
    <3>4. QED
      BY <2>2, <3>2, <3>3
  <2>14. Agree(RuleValue(op, du, dv, u.value, v.value), OperationSlope(op, u, v, above))
    <3>1. op \in BinaryOps => Agree(dv, v.slope)
      BY <2>10
    <3> HIDE DEF dv
    <3>2. QED
      BY <2>2, <2>6, <2>8, <2>9, <2>12, <3>1, RuleIsRight
  <2>15. ValueAt(StepAt(e, path, dl, dr), point) = ValueAt(Rule(op, dl, dr, l, r), point)
    BY <1>5, ReassignedValue DEF StepAt, l, r, op
  <2>16. QED
    BY <2>7, <2>13, <2>14, <2>15 DEF j
<1>6. QED
  BY <1>4, <1>5

LEMMA DerivativeAgrees ==
  ASSUME NEW e, Parsed(e), Formula(e), PowersOfVariable(e), NEW point \in Points
  PROVE  \A path \in DOMAIN e.label :
           Agree(ValueAt(DifferentiateInternal(e)[path], point), Jets(e.label, point)[path].slope)
<1> DEFINE diff == DifferentiateInternal(e)
           j == Jets(e.label, point)
           T == Trees(Labels(e), TRUE)
           S == {p \in DOMAIN e.label : Agree(ValueAt(diff[p], point), j[p].slope)}
<1>1. \A p \in DOMAIN e.label :
        /\ diff[p] \in T
        /\ diff[p] = StepAt(e, p, RP!Of(diff, None, LinkTo(e.label, p, 1)),
                                  RP!Of(diff, None, LinkTo(e.label, p, 2)))
  BY DifferentiatedInOrder
<1>2. Tidy(e)
  BY ExpressionTidy
<1> HIDE DEF diff
<1>3. ASSUME NEW p \in DOMAIN e.label, \A side \in {1, 2} : Has(e, p, side) => Append(p, side) \in S
      PROVE  p \in S
  <2> DEFINE dl == RP!Of(diff, None, LinkTo(e.label, p, 1))
             dr == RP!Of(diff, None, LinkTo(e.label, p, 2))
  <2>1. /\ Has(e, p, 1) => dl = diff[Append(p, 1)]
        /\ Has(e, p, 2) => dr = diff[Append(p, 2)]
    BY <1>2, LinkIs
  <2>2. diff[p] = StepAt(e, p, dl, dr)
    BY <1>1
  <2> HIDE DEF dl, dr
  <2>3. Has(e, p, 1) => dl \in T /\ Agree(ValueAt(dl, point), j[Append(p, 1)].slope)
    BY <1>1, <1>3, <2>1 DEF Has
  <2>4. Has(e, p, 2) => dr \in T /\ Agree(ValueAt(dr, point), j[Append(p, 2)].slope)
    BY <1>1, <1>3, <2>1 DEF Has
  <2>5. Agree(ValueAt(StepAt(e, p, dl, dr), point), j[p].slope)
    BY <2>3, <2>4, StepAgrees
  <2>6. QED
    BY <2>2, <2>5
<1>4. DOMAIN e.label \subseteq S
  <2> HIDE DEF S
  <2>1. QED
    BY <1>2, <1>3, PathInduction
<1>5. QED
  BY <1>4 DEF diff

(* Differentiate yields the derivative of every expression all whose powers are       *)
(* powers of the variable, however large, in every field and for any functions:      *)
(* wherever the rules of the textbook give the expression a slope and the derivative  *)
(* has a value, they are the same.                                              *)
THEOREM DifferentiatesRightly == Spec => []DerivativeCorrectWithoutChain
<1>1. Differentiated => DerivativeCorrectWithoutChain
  <2> SUFFICES ASSUME Differentiated, derivative # None, IsFormula, PowersOfVariable(expression),
                      NEW point \in Points
               PROVE  Agree(ValueAt(derivative, point), Jets(expression.label, point)[<<>>].slope)
    BY DEF DerivativeCorrectWithoutChain, IsDerivativeOf, Agree
  <2> DEFINE e == expression
             d == DifferentiateInternal(e)[<<>>]
             T == Trees(Labels(e), TRUE)
  <2>1. e # None /\ Parsed(e) /\ Formula(e)
    BY DEF Differentiated, IsFormula
  <2>2. ValueAt(derivative, point) = ValueAt(CreateNode("EQUALS", d, None), point)
    <3>1. PICK refused : derivative = Refusing(Differentiate(e), refused)
      BY DEF Differentiated
    <3>2. Differentiate(e) \in Records(Labels(e)) /\ Shaped(Differentiate(e))
      BY <2>1, DifferentiateIs
    <3>3. derivative.label = Differentiate(e).label
      BY <3>1, <3>2, RefusingIs
    <3>4. Differentiate(e) = CreateNode("EQUALS", d, None)
      BY <2>1 DEF Differentiate
    <3>5. QED
      BY <3>3, <3>4 DEF ValueAt
  <2> HIDE DEF e
  <2>3. <<>> \in DOMAIN e.label
    BY <2>1, ExpressionTidy
  <2>4. d \in T
    BY <2>1, <2>3, DifferentiatedInOrder
  <2>5. Agree(ValueAt(d, point), Jets(e.label, point)[<<>>].slope)
    BY <2>1, <2>3, DerivativeAgrees DEF e
  <2> HIDE DEF d
  <2>6. ValueAt(derivative, point) = Result("EQUALS", ValueOr(d, point), ValueOr(None, point))
    <3>1. "EQUALS" \in Labels(e) /\ "EQUALS" \notin Brackets /\ IsOperation("EQUALS")
      BY DEF Labels, Brackets, OperationNames, IsOperation
    <3>2. PICK proper : proper = TRUE
      OBVIOUS
    <3>3. d \in OperandTrees(Labels(e), proper) /\ None \in OperandTrees(Labels(e), proper)
      BY <2>4, <3>2 DEF OperandTrees
    <3>4. QED
      BY <2>2, <3>1, <3>3, NodeValueIs
  <2>7. ValueOr(d, point) = ValueAt(d, point) /\ ValueAt(d, point) \in Number /\ ValueOr(None, point) \in Number
    <3>1. ValueAt(d, point) \in Number
      BY <2>4, TreesTidy, ValuesAre DEF ValueAt
    <3>2. QED
      BY <2>4, <3>1, NoneIs, LiteralAssumption DEF ValueOr
  <2>8. ValueAt(derivative, point) = ValueAt(d, point)
    BY <2>6, <2>7, NumberAssumption
  <2>9. QED
    BY <2>5, <2>8 DEF e
<1>2. QED
  BY <1>1, DifferentiatedInvariant, PTL

=============================================================================
