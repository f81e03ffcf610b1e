--------------------------- MODULE OptimizerProofs ---------------------------
(***************************************************************************)
(* What holds of the optimizer and of what the report frees, for every          *)
(* derivative, arithmetic and order of evaluation.                             *)
(*                                                                         *)
(* The allocated nodes are a forest: the tree below the root, and one tree for   *)
(* each registered node that was detached and still waits to be freed.  A step    *)
(* that links, detaches or frees keeps that.  So the passes use allocated nodes   *)
(* only, no node is freed twice, and only constants are left in the end.  (The    *)
(* loops of the report may still read a node that was freed: the runs           *)
(* MCOptimizerRegistered and MCOptimizerDelete show how.)                       *)
(*                                                                         *)
(* On the forest, a replacement of pointers is a graft on the term they stand     *)
(* for; with that, every step is a rewriting by the rules of Simplifier, and one   *)
(* that keeps the value but for two rules.  Only the last theorem, on the value,   *)
(* uses the assumptions of Values.                                            *)
(***************************************************************************)
EXTENDS Values, PathsProofs

(* The traversals of a heap, and induction over them.                           *)
R == INSTANCE ReassignmentsProofs

(* The addresses of the constants the optimizer makes.                         *)
IsConstant(a) == a # <<>> /\ a[1] = 0

(* A path that goes on where another ends.                                    *)
Extends(c, n) == Len(n) < Len(c) /\ \A i \in 1..Len(n) : c[i] = n[i]

Kids(n) == {left[n], right[n]} \ {NULL}

(* The children that belong to a node: a detached node has given some away.      *)
Mine(n) == IF n \in manualDelete THEN Owned(n) ELSE Kids(n)

(* What a type invariant says, and that the calls work on numbers while they compute. *)
TypeInv ==
  /\ TypeOK
  /\ stack \in Seq([node : Addresses, got : Seq(IF phase = "compute" THEN Number ELSE {NULL})])
  /\ \A n \in Addresses : kind[n] = "NUMERIC_NODE" => value[n] \in Number

(* The nodes of the derivative, a place for the constant of each, and where they   *)
(* lead: downwards.                                                          *)
AddressInv ==
  /\ IsFiniteSet(Addresses) /\ NULL \notin Addresses /\ Addresses \subseteq Seq(0..2)
  /\ \A n \in Addresses :
       IF IsConstant(n)
       THEN /\ kind[n] = "NUMERIC_NODE" /\ left[n] = NULL /\ right[n] = NULL
            /\ \E m \in Addresses : n = Fresh(m)
       ELSE n \in Seq({1, 2}) /\ Fresh(n) \in Addresses
  /\ root \in Addresses /\ ~IsConstant(root)

ShapeInv ==
  \A n \in Addresses :
    /\ \A c \in Kids(n) : IsConstant(c) \/ Extends(c, n)
    /\ left[n] # NULL => left[n] # right[n]
    /\ kind[n] \in BinaryOps => left[n] # NULL /\ right[n] # NULL
    /\ kind[n] \in FunctionOps => left[n] # NULL
    /\ kind[n] = "EQUALS" => left[n] # NULL \/ n = root
    /\ kind[n] \notin Brackets

(* The registered nodes, an upper one after all below it.                        *)
BufferInv ==
  /\ \A i \in DOMAIN registered : ~IsConstant(registered[i])
  /\ \A i, j \in DOMAIN registered :
       i < j => registered[i] # registered[j] /\ ~Extends(registered[j], registered[i])

(* The forest: who owns an allocated node.                                      *)
OwnedLive == \A a \in live : Mine(a) \subseteq live

OneOwner == \A a, b \in live : Mine(a) \cap Mine(b) # {} => a = b

TopsFree == \A a \in live : Mine(a) \cap (manualDelete \cup {root}) = {}

ParentIs == \A a \in live : \A c \in Mine(a) : ~IsConstant(c) => parent[c] = a

HasOwner ==
  \A n \in live : ~IsConstant(n) /\ n # root /\ n \notin manualDelete =>
                    parent[n] \in live /\ n \in Mine(parent[n])

(* A node that is not detached has not been replaced by its constant.            *)
NotYet == \A n \in live \ manualDelete : ~IsConstant(n) => Fresh(n) \notin live

ForestInv ==
  /\ root \notin manualDelete /\ (phase # "done" => root \in live)
  /\ OwnedLive /\ OneOwner /\ TopsFree /\ ParentIs /\ HasOwner /\ NotYet

(* The active calls: each works on a child of the node before, in the tree.       *)
Above(i) == IF i = 1 THEN root ELSE stack[i - 1].node

CallInv ==
  /\ stack # <<>> => phase \in {"compute", "collapse"}
  /\ phase \in {"compute", "collapse"} => left[root] # NULL
  /\ \A i \in DOMAIN stack :
       /\ stack[i].node \in live \ manualDelete
       /\ stack[i].node \in Kids(Above(i))
       /\ Len(stack[i].got) <= Len(Sides(stack[i].node))
       /\ i < Len(stack) => Len(stack[i].got) < Len(Sides(stack[i].node))
       /\ \A j \in (i + 1)..Len(stack) :
            IsConstant(stack[j].node) \/ Extends(stack[j].node, stack[i].node)

(* What the report has printed, and has not freed yet.                           *)
ReportInv ==
  /\ phase \in {"pass", "compute", "collapse"} => index = 0
  /\ phase = "print" =>
       /\ index <= Len(registered)
       /\ \A j \in 1..(index - 1) : registered[j] \in live
  /\ phase = "delete" =>
       /\ index # 0
       /\ \A j \in index..Len(registered) : registered[j] \in live
       /\ \A n \in manualDelete \cap live : \E j \in index..Len(registered) : n = registered[j]
  /\ phase \in {"destroy", "done"} => manualDelete \cap live = {}
  /\ phase = "done" => \A n \in live : IsConstant(n)

IInv == TypeInv /\ AddressInv /\ ShapeInv /\ BufferInv /\ ForestInv /\ CallInv /\ ReportInv
-----------------------------------------------------------------------------
(* Paths.                                                                      *)

(* A constant's address differs from the addresses of the derivative, and from     *)
(* those of the other constants.                                               *)
LEMMA FreshIs ==
  /\ \A n \in Seq({1, 2}) : ~IsConstant(n) /\ IsConstant(Fresh(n)) /\ Fresh(n) \in Seq(0..2)
  /\ \A m, n \in Seq({1, 2}) : Fresh(m) = Fresh(n) => m = n
<1>1. \A n \in Seq({1, 2}) :
        /\ Len(Fresh(n)) = Len(n) + 1 /\ Len(n) \in Nat
        /\ Fresh(n)[1] = 0
        /\ \A i \in 1..Len(n) : Fresh(n)[i + 1] = n[i]
        /\ Fresh(n) \in Seq(0..2)
  BY DEF Fresh
<1>2. ASSUME NEW n \in Seq({1, 2})
      PROVE  ~IsConstant(n) /\ IsConstant(Fresh(n)) /\ Fresh(n) \in Seq(0..2)
  BY <1>1 DEF IsConstant
<1>3. ASSUME NEW m \in Seq({1, 2}), NEW n \in Seq({1, 2}), Fresh(m) = Fresh(n)
      PROVE  m = n
  <2>1. Len(m) = Len(n)
    BY <1>1, <1>3
  <2>2. \A i \in 1..Len(m) : m[i] = n[i]
    BY <1>1, <1>3, <2>1
  <2>3. QED
    BY <2>1, <2>2, SeqEqual
<1>4. QED
  BY <1>2, <1>3

(* A child's path goes on where its parent's ends.                               *)
LEMMA AppendExtends ==
  ASSUME NEW n \in Seq({1, 2}), NEW side \in {1, 2}
  PROVE  Extends(Append(n, side), n) /\ Append(n, side) # <<>>
<1>1. /\ Len(n) \in Nat /\ Len(Append(n, side)) = Len(n) + 1
      /\ \A i \in 1..Len(n) : Append(n, side)[i] = n[i]
  BY AppendProperties
<1>2. Append(n, side) # <<>>
  BY <1>1
<1>3. QED
  BY <1>1, <1>2 DEF Extends

(* What goes on after a path goes on after its beginning, and not the other way.     *)
LEMMA ExtendsOrder ==
  ASSUME NEW a \in Seq(0..2), NEW b \in Seq(0..2), NEW c \in Seq(0..2), Extends(b, a)
  PROVE  /\ Extends(c, b) => Extends(c, a)
         /\ ~Extends(a, b) /\ a # b
<1>1. /\ Len(a) \in Nat /\ Len(b) \in Nat /\ Len(c) \in Nat
      /\ Len(a) < Len(b) /\ \A i \in 1..Len(a) : b[i] = a[i]
  BY DEF Extends
<1>2. ~Extends(a, b) /\ a # b
  BY <1>1 DEF Extends
<1>3. ASSUME Extends(c, b)
      PROVE  Extends(c, a)
  <2>1. Len(b) < Len(c) /\ \A i \in 1..Len(b) : c[i] = b[i]
    BY <1>3 DEF Extends
  <2>2. \A i \in 1..Len(a) : i \in 1..Len(b)
    BY <1>1
  <2>3. \A i \in 1..Len(a) : c[i] = a[i]
    BY <1>1, <2>1, <2>2
  <2>4. QED
    BY <1>1, <2>1, <2>3 DEF Extends
<1>4. QED
  BY <1>2, <1>3

(* The order of the buffer, in these terms.                                     *)
LEMMA ExtendsIsPrefix ==
  ASSUME NEW a \in Seq(0..2), NEW b \in Seq(0..2), Extends(b, a) \/ b = a
  PROVE  IsPrefix(a, b)
<1>1. Len(a) \in Nat /\ Len(b) \in Nat /\ Len(a) <= Len(b) /\ \A i \in 1..Len(a) : a[i] = b[i]
  BY DEF Extends
<1> DEFINE s == SubSeq(a, 1, Len(a))
           t == SubSeq(b, 1, Len(a))
<1>2. /\ s \in Seq(0..2) /\ Len(s) = Len(a) /\ \A i \in 1..Len(a) : s[i] = a[i]
      /\ t \in Seq(0..2) /\ Len(t) = Len(a) /\ \A i \in 1..Len(a) : t[i] = b[i]
  BY <1>1
<1>3. s = t
  <2> HIDE DEF s, t
  <2>1. QED
    BY <1>1, <1>2, SeqEqual
<1>4. QED
  BY <1>1, <1>3 DEF IsPrefix

-----------------------------------------------------------------------------
(* What is below a node.                                                       *)

Heap == [left |-> left, right |-> right]

(* A node's rank is its distance to the longest path; the constants are lowest.      *)
LEMMA HeapIs ==
  ASSUME TypeInv, AddressInv, ShapeInv
  PROVE  /\ Heap.left = left /\ Heap.right = right /\ DOMAIN Heap.left = Addresses
         /\ \A n : R!Children(Heap, n) = Kids(n)
         /\ \E top \in Nat : \E rank \in [Addresses -> 0..top] : R!Ranked(Heap, rank, top)
<1>1. /\ left \in [Addresses -> Addresses \cup {NULL}]
      /\ right \in [Addresses -> Addresses \cup {NULL}]
  BY DEF TypeInv, TypeOK, Links
<1>2. /\ Heap.left = left /\ Heap.right = right /\ DOMAIN Heap.left = Addresses
      /\ \A n : R!Children(Heap, n) = Kids(n)
  BY <1>1 DEF Heap, R!Children, Kids
<1>3. PICK b \in Nat : \A a \in Addresses : Len(a) <= b
  BY LengthsBounded DEF AddressInv
<1> DEFINE top == b + 1
           rank == [a \in Addresses |-> IF IsConstant(a) THEN 0 ELSE top - Len(a)]
<1>4. \A a \in Addresses : Len(a) \in Nat /\ Len(a) <= b
  BY <1>3 DEF AddressInv
<1>5. rank \in [Addresses -> 0..top] /\ top \in Nat
  BY <1>4
<1>6. ASSUME NEW n \in Addresses, NEW c \in Kids(n)
      PROVE  rank[c] < rank[n]
  <2>1. c \in Addresses /\ ~IsConstant(n) /\ (IsConstant(c) \/ Extends(c, n))
    BY <1>1, <1>6 DEF AddressInv, ShapeInv, Kids
  <2>2. rank[n] = top - Len(n) /\ rank[c] = IF IsConstant(c) THEN 0 ELSE top - Len(c)
    BY <2>1
  <2>3. QED
    BY <1>4, <2>1, <2>2 DEF Extends
<1> HIDE DEF rank, top
<1>7. R!Ranked(Heap, rank, top)
  BY <1>1, <1>2, <1>5, <1>6 DEF R!Ranked, AddressInv
<1>8. QED
  BY <1>2, <1>5, <1>7

(* The recursive definition has a solution.                                     *)
LEMMA SubtreeIsBelow ==
  ASSUME TypeInv, AddressInv, ShapeInv
  PROVE  R!IsBelow(Heap, Subtree)
<1> DEFINE F(f) == f = [n \in Addresses |->
             {n} \cup (IF left[n]  = NULL THEN {} ELSE f[left[n]])
                 \cup (IF right[n] = NULL THEN {} ELSE f[right[n]])]
           below == CHOOSE f : F(f)
<1>1. PICK top \in Nat : \E rank \in [Addresses -> 0..top] : R!Ranked(Heap, rank, top)
  BY HeapIs
<1>2. PICK rank \in [Addresses -> 0..top] : R!Ranked(Heap, rank, top)
  BY <1>1
<1>3. Heap.left = left /\ Heap.right = right /\ DOMAIN Heap.left = Addresses
  BY HeapIs
<1>4. \E f : F(f) /\ R!IsBelow(Heap, f)
  BY <1>2, <1>3, R!BelowExists
<1>5. Subtree = below
  BY DEF Subtree
<1>6. F(below)
  BY <1>4
<1>7. PICK g : F(g) /\ R!IsBelow(Heap, g)
  BY <1>4
<1> HIDE DEF below
<1> DEFINE K == {n \in Addresses : below[n] = g[n]}
<1>8. Addresses \subseteq K
  <2>1. ASSUME NEW n \in Addresses, R!Children(Heap, n) \subseteq K
        PROVE  n \in K
    <3>1. /\ left[n]  # NULL => left[n] \in K
          /\ right[n] # NULL => right[n] \in K
      BY <1>3, <2>1 DEF R!Children
    <3>2. /\ left[n]  # NULL => below[left[n]]  = g[left[n]]
          /\ right[n] # NULL => below[right[n]] = g[right[n]]
      BY <3>1
    <3>3. /\ below[n] = {n} \cup (IF left[n]  = NULL THEN {} ELSE below[left[n]])
                            \cup (IF right[n] = NULL THEN {} ELSE below[right[n]])
          /\ g[n] = {n} \cup (IF left[n]  = NULL THEN {} ELSE g[left[n]])
                        \cup (IF right[n] = NULL THEN {} ELSE g[right[n]])
      BY <1>6, <1>7
    <3>4. below[n] = g[n]
      BY <3>2, <3>3
    <3>5. QED
      BY <3>4
  <2> HIDE DEF K
  <2>2. QED
    BY <1>2, <1>3, <2>1, R!TreeInduction
<1>9. \A n \in Addresses : below[n] = g[n]
  BY <1>8
<1>10. DOMAIN below = Addresses /\ DOMAIN g = Addresses
       /\ below = [n \in Addresses |-> below[n]] /\ g = [n \in Addresses |-> g[n]]
  BY <1>6, <1>7
<1>11. below = g
  BY <1>9, <1>10
<1>12. QED
  BY <1>5, <1>7, <1>11

(* The subtree of a node is the smallest set with the node and its members'         *)
(* children.                                                                   *)
LEMMA SubtreeWithin ==
  ASSUME TypeInv, AddressInv, ShapeInv,
         NEW K, \A a \in Addresses \cap K : Kids(a) \subseteq K
  PROVE  \A n \in Addresses \cap K : Subtree[n] \subseteq K
<1>1. PICK top \in Nat : \E rank \in [Addresses -> 0..top] : R!Ranked(Heap, rank, top)
  BY HeapIs
<1>2. PICK rank \in [Addresses -> 0..top] : R!Ranked(Heap, rank, top)
  BY <1>1
<1>3. DOMAIN Heap.left = Addresses /\ \A n : R!Children(Heap, n) = Kids(n)
  BY HeapIs
<1> DEFINE T == {n \in Addresses : n \in K => Subtree[n] \subseteq K}
<1>4. ASSUME NEW n \in Addresses, R!Children(Heap, n) \subseteq T
      PROVE  n \in T
  <2> SUFFICES ASSUME n \in K, NEW m \in Subtree[n]
               PROVE  m \in K
    OBVIOUS
  <2>1. m = n \/ \E child \in Kids(n) : m \in Subtree[child]
    BY <1>2, <1>3, SubtreeIsBelow, R!BelowIs
  <2>2. QED
    BY <1>3, <1>4, <2>1
<1>5. Addresses \subseteq T
  <2> HIDE DEF T
  <2>1. QED
    BY <1>2, <1>3, <1>4, R!TreeInduction
<1>6. QED
  BY <1>5

(* The nodes below a node: with a node its children, with every other its owner,     *)
(* and constants or longer paths only.                                         *)
LEMMA SubtreeIs ==
  ASSUME TypeInv, AddressInv, ShapeInv, NEW n \in Addresses
  PROVE  /\ Subtree[n] \subseteq Addresses /\ n \in Subtree[n]
         /\ \A a \in Subtree[n] : Kids(a) \subseteq Subtree[n]
         /\ \A a \in Subtree[n] : a # n => \E owner \in Subtree[n] : a \in Kids(owner)
         /\ \A a \in Subtree[n] : a = n \/ IsConstant(a) \/ Extends(a, n)
<1>1. PICK top \in Nat : \E rank \in [Addresses -> 0..top] : R!Ranked(Heap, rank, top)
  BY HeapIs
<1>2. PICK rank \in [Addresses -> 0..top] : R!Ranked(Heap, rank, top)
  BY <1>1
<1>3. DOMAIN Heap.left = Addresses /\ \A m : R!Children(Heap, m) = Kids(m)
  BY HeapIs
<1>4. R!IsBelow(Heap, Subtree)
  BY SubtreeIsBelow
<1>5. Subtree[n] \subseteq Addresses /\ n \in Subtree[n]
  BY <1>2, <1>3, <1>4, R!BelowIs
<1>6. ASSUME NEW a \in Subtree[n], NEW c \in Kids(a)
      PROVE  c \in Subtree[n]
  <2>1. a \in Addresses /\ Subtree[a] \subseteq Subtree[n]
    BY <1>2, <1>3, <1>4, <1>5, R!BelowTransitive
  <2>2. Subtree[c] \subseteq Subtree[a] /\ c \in Addresses
    BY <1>2, <1>3, <1>4, <1>6, <2>1, R!BelowIs
  <2>3. c \in Subtree[c]
    BY <1>2, <1>3, <1>4, <2>2, R!BelowIs
  <2>4. QED
    BY <2>1, <2>2, <2>3
<1>7. \A a \in Subtree[n] : a # n => \E owner \in Subtree[n] : a \in Kids(owner)
  BY <1>2, <1>3, <1>4, R!OwnerBelow
<1> DEFINE K == {a \in Addresses : a = n \/ IsConstant(a) \/ Extends(a, n)}
<1>8. ASSUME NEW a \in Addresses \cap K, NEW c \in Kids(a)
      PROVE  c \in K
  <2>1. c \in Addresses /\ ~IsConstant(a) /\ (IsConstant(c) \/ Extends(c, a))
    BY <1>8 DEF AddressInv, ShapeInv, Kids, TypeInv, TypeOK, Links
  <2>2. a \in Seq(0..2) /\ c \in Seq(0..2) /\ n \in Seq(0..2)
    BY <2>1 DEF AddressInv
  <2>3. QED
    BY <1>8, <2>1, <2>2, ExtendsOrder
<1>9. Subtree[n] \subseteq K
  <2> HIDE DEF K
  <2>1. n \in K
    BY DEF K
  <2>2. QED
    BY <1>8, <2>1, SubtreeWithin
<1>10. QED
  BY <1>5, <1>6, <1>7, <1>9

-----------------------------------------------------------------------------
(* The forest.                                                                 *)

HeapInv == TypeInv /\ AddressInv /\ ShapeInv /\ BufferInv /\ ForestInv

(* A tree below a node that is not detached is allocated as a whole, and the only    *)
(* link into it from outside is the one to its topmost node.                      *)
LEMMA TreeAllocated ==
  ASSUME HeapInv, NEW n \in live \ manualDelete
  PROVE  /\ n \in Addresses
         /\ Subtree[n] \subseteq live \ manualDelete
         /\ n # root => root \notin Subtree[n]
         /\ \A a \in live \ Subtree[n] : \A c \in Mine(a) : c \in Subtree[n] => c = n
<1> USE DEF HeapInv
<1>1. live \subseteq Addresses /\ n \in Addresses
  BY DEF TypeInv, TypeOK
<1> DEFINE K == live \ manualDelete
<1>2. ASSUME NEW a \in Addresses \cap K, NEW c \in Kids(a)
      PROVE  c \in K
  BY <1>2 DEF ForestInv, OwnedLive, TopsFree, Mine
<1>3. Subtree[n] \subseteq K
  <2> HIDE DEF K
  <2>1. n \in Addresses \cap K
    BY <1>1 DEF K
  <2>2. QED
    BY <1>2, <2>1, SubtreeWithin
<1>4. ASSUME NEW c \in Subtree[n], c # n
      PROVE  \E owner \in Subtree[n] : owner \in live /\ c \in Mine(owner)
  <2>1. PICK owner \in Subtree[n] : c \in Kids(owner)
    BY <1>1, <1>4, SubtreeIs
  <2>2. QED
    BY <1>3, <2>1 DEF Mine
<1>5. ASSUME n # root
      PROVE  root \notin Subtree[n]
  BY <1>4, <1>5 DEF ForestInv, TopsFree
<1>6. ASSUME NEW a \in live \ Subtree[n], NEW c \in Mine(a), c \in Subtree[n]
      PROVE  c = n
  <2> SUFFICES ASSUME c # n PROVE FALSE
    OBVIOUS
  <2>1. PICK owner \in Subtree[n] : owner \in live /\ c \in Mine(owner)
    BY <1>4, <1>6
  <2>2. owner = a
    BY <1>6, <2>1 DEF ForestInv, OneOwner
  <2>3. QED
    BY <2>1, <2>2
<1>7. QED
  BY <1>1, <1>3, <1>5, <1>6

(* What a node in the tree gives way to: its constant, or one of its children.      *)
Replaced(n, p, new) ==
  /\ n \in live \ manualDelete /\ n # root /\ ~IsConstant(n) /\ n \in Kids(p)
  /\ p \in live \ manualDelete /\ parent[n] = p
  /\ \/ new = Fresh(n)
     \/ new \in Kids(n)

(* Which fields a replacement changes, and what becomes of the node.             *)
Detaches(n, p, new) ==
  /\ Replace(n, new)
  /\ kind' = kind /\ root' = root /\ registered' = registered
  /\ \/ parent' = [parent EXCEPT ![new] = p]
     \/ parent' = parent /\ new = Fresh(n)
  /\ IF n \in Reassigned
     THEN manualDelete' = manualDelete \cup {n} /\ live' = live \cup Subtree[new]
     ELSE manualDelete' = manualDelete /\ live' = (live \ Subtree[n]) \cup Subtree[new]

(* Where the pointers lead after a replacement.                                 *)
LEMMA ReplacedIs ==
  ASSUME HeapInv, NEW n, NEW p, NEW new, Replaced(n, p, new)
  PROVE  /\ n \in Addresses /\ p \in Addresses /\ new \in Addresses
         /\ p # n /\ new # n /\ new # p /\ new # root /\ new \notin manualDelete
         /\ ~IsConstant(p) /\ Extends(n, p)
         /\ IsConstant(new) \/ (Extends(new, n) /\ Extends(new, p))
         /\ new = Fresh(n) => IsConstant(new) /\ new \notin live
         /\ new # Fresh(n) => new \in Mine(n) /\ new \in live
         /\ \A a \in live : a # n => new \notin Mine(a)
         /\ Subtree[new] \subseteq live \cup {new}
         /\ new \in Subtree[new] /\ n \notin Subtree[new] /\ p \notin Subtree[n]
<1> USE DEF HeapInv
<1>1. n \in Addresses /\ p \in Addresses
  BY DEF TypeInv, TypeOK, Replaced
<1>2. n \in Seq({1, 2}) /\ Fresh(n) \in Addresses /\ IsConstant(Fresh(n)) /\ Fresh(n) \notin live
  BY <1>1, FreshIs DEF AddressInv, Replaced, ForestInv, NotYet
<1>3. Kids(n) = Mine(n) /\ Kids(p) = Mine(p)
  BY DEF Replaced, Mine
<1>4. ~IsConstant(p) /\ Extends(n, p)
  BY <1>1 DEF AddressInv, ShapeInv, Replaced, Kids
<1>5. new # Fresh(n) => new \in Mine(n) /\ new \in live /\ (IsConstant(new) \/ Extends(new, n))
  BY <1>1, <1>3 DEF ShapeInv, Replaced, ForestInv, OwnedLive
<1>6. new \in Addresses
  BY <1>2, <1>5 DEF TypeInv, TypeOK
<1>7. /\ new \in Seq(0..2) /\ n \in Seq(0..2) /\ p \in Seq(0..2)
  BY <1>1, <1>6 DEF AddressInv
<1>8. IsConstant(new) \/ (Extends(new, n) /\ Extends(new, p))
  BY <1>2, <1>4, <1>5, <1>7, ExtendsOrder
<1>9. p # n /\ new # n /\ new # p
  BY <1>4, <1>7, <1>8, ExtendsOrder DEF Replaced
<1>10. new # root /\ new \notin manualDelete
  <2>1. CASE new = Fresh(n)
    <3>1. \A m \in manualDelete : ~IsConstant(m)
      BY DEF TypeInv, TypeOK, Reassigned, BufferInv
    <3>2. QED
      BY <1>2, <2>1, <3>1 DEF AddressInv
  <2>2. CASE new # Fresh(n)
    BY <1>5, <2>2 DEF ForestInv, TopsFree, Replaced
  <2>3. QED
    BY <2>1, <2>2
<1>11. ASSUME NEW a \in live, a # n
       PROVE  new \notin Mine(a)
  BY <1>2, <1>5, <1>11 DEF ForestInv, OneOwner, OwnedLive, Replaced
<1>12. ASSUME IsConstant(new)
       PROVE  Subtree[new] \subseteq {new}
  <2>1. new \in Addresses \cap {new} /\ \A a \in Addresses \cap {new} : Kids(a) \subseteq {new}
    BY <1>6, <1>12 DEF AddressInv, Kids
  <2>2. QED
    BY <2>1, SubtreeWithin
<1>13. new \in Subtree[new] /\ n \notin Subtree[new]
  <2>1. new \in Subtree[new]
    BY <1>6, SubtreeIs
  <2>2. CASE IsConstant(new)
    BY <1>9, <1>12, <2>1, <2>2
  <2>3. CASE Extends(new, n)
    BY <1>6, <1>7, <1>9, <2>1, <2>3, SubtreeIs, ExtendsOrder DEF Replaced
  <2>4. QED
    BY <1>8, <2>2, <2>3
<1>14. p \notin Subtree[n]
  BY <1>1, <1>4, <1>7, <1>9, SubtreeIs, ExtendsOrder
<1>15. Subtree[new] \subseteq live \cup {new}
  <2>1. CASE new = Fresh(n)
    BY <1>2, <1>12, <2>1
  <2>2. CASE new # Fresh(n)
    BY <1>5, <1>10, <2>2, TreeAllocated
  <2>3. QED
    BY <2>1, <2>2
<1>16. QED
  BY <1>1, <1>2, <1>4, <1>5, <1>6, <1>8, <1>9, <1>10, <1>11, <1>13, <1>14, <1>15

(* The links after a replacement: only the one from p to n changes, and n keeps its   *)
(* own.                                                                        *)
LEMMA LinksAfter ==
  ASSUME HeapInv, NEW n, NEW p, NEW new, Replaced(n, p, new), Detaches(n, p, new)
  PROVE  /\ Addresses' = Addresses
         /\ left' \in [Addresses -> Links] /\ right' \in [Addresses -> Links]
         /\ parent' \in [Addresses -> Links]
         /\ \A a \in Addresses : a # p => left'[a] = left[a] /\ right'[a] = right[a]
         /\ left'[p]  = IF left[p]  = n THEN new ELSE left[p]
         /\ right'[p] = IF right[p] = n THEN new ELSE right[p]
         /\ \A a \in Addresses : a # p => Kids(a)' = Kids(a)
         /\ Kids(p)' = (Kids(p) \ {n}) \cup {new}
<1> USE DEF HeapInv
<1>1. /\ n \in Addresses /\ p \in Addresses /\ new \in Addresses /\ new # n
      /\ NULL \notin Addresses /\ n \in Kids(p) /\ parent[n] = p
  BY ReplacedIs DEF AddressInv, Replaced
<1>2. /\ left \in [Addresses -> Links] /\ right \in [Addresses -> Links]
      /\ parent \in [Addresses -> Links]
  BY DEF TypeInv, TypeOK
<1>3. /\ left'  = IF left[p] = n THEN [left EXCEPT ![p] = new] ELSE left
      /\ right' = IF right[p] = n THEN [right EXCEPT ![p] = new] ELSE right
  BY <1>1 DEF Detaches, Replace
<1>4. Addresses' = Addresses
  BY DEF Detaches, Addresses
<1>5. /\ left' \in [Addresses -> Links] /\ right' \in [Addresses -> Links]
      /\ parent' \in [Addresses -> Links]
  BY <1>1, <1>2, <1>3 DEF Detaches, Links
<1>6. /\ \A a \in Addresses : a # p => left'[a] = left[a] /\ right'[a] = right[a]
      /\ left'[p]  = IF left[p]  = n THEN new ELSE left[p]
      /\ right'[p] = IF right[p] = n THEN new ELSE right[p]
  BY <1>1, <1>2, <1>3
<1>7. \A a \in Addresses : a # p => Kids(a)' = Kids(a)
  BY <1>6 DEF Kids
<1>8. Kids(p)' = (Kids(p) \ {n}) \cup {new}
  BY <1>1, <1>6 DEF Kids
<1>9. QED
  BY <1>4, <1>5, <1>6, <1>7, <1>8

(* Who owns a node after a replacement: who owned it before, but for the new child.  *)
LEMMA OwnersAfter ==
  ASSUME HeapInv, NEW n, NEW p, NEW new, Replaced(n, p, new), Detaches(n, p, new)
  PROVE  /\ live' \subseteq live \cup {new}
         /\ p \in live' /\ p \notin manualDelete' /\ new \in live'
         /\ n \in live' => n \in manualDelete'
         /\ \A a \in live' : \A c \in Mine(a)' :
              /\ a \in live /\ c # n
              /\ \/ c \in Mine(a) /\ c # new
                 \/ a = p /\ c = new
         /\ \A a \in live \cap live' : \A c \in Mine(a) :
              c # n /\ c # new /\ ~IsConstant(c) => c \in Mine(a)'
         /\ new \in Mine(p)'
<1> USE DEF HeapInv
<1>1. /\ n \in Addresses /\ p \in Addresses /\ new \in Addresses
      /\ p # n /\ new # n /\ new # p /\ new \notin manualDelete
      /\ new # Fresh(n) => new \in live
      /\ \A a \in live : a # n => new \notin Mine(a)
      /\ Subtree[new] \subseteq live \cup {new}
      /\ new \in Subtree[new] /\ n \notin Subtree[new] /\ p \notin Subtree[n]
  BY ReplacedIs
<1>2. /\ \A a \in Addresses : a # p => Kids(a)' = Kids(a)
      /\ Kids(p)' = (Kids(p) \ {n}) \cup {new}
  BY LinksAfter
<1>3. \A a \in Addresses : Kids(a) \subseteq Addresses
  BY DEF TypeInv, TypeOK, Links, Kids
<1>4. /\ \A a \in Addresses : a # new => parent'[a] = parent[a]
      /\ parent'[new] = p \/ (parent'[new] = parent[new] /\ new = Fresh(n))
  BY <1>1 DEF Detaches, TypeInv, TypeOK
<1>5. /\ p \in live /\ p \notin manualDelete /\ n \in live /\ n \notin manualDelete
      /\ live \subseteq Addresses
  BY DEF Replaced, TypeInv, TypeOK
<1>6. /\ live' \subseteq live \cup {new} /\ p \in live' /\ new \in live'
      /\ p \notin manualDelete' /\ (n \in live' => n \in manualDelete')
      /\ \A a \in Addresses : a # n => (a \in manualDelete' <=> a \in manualDelete)
  <2>1. n \in Subtree[n]
    BY <1>1, SubtreeIs
  <2>2. CASE n \in Reassigned
    BY <1>1, <1>5, <2>2 DEF Detaches
  <2>3. CASE n \notin Reassigned
    BY <1>1, <1>5, <2>1, <2>3 DEF Detaches
  <2>4. QED
    BY <2>2, <2>3
<1>7. \A a : Mine(a)' = IF a \in manualDelete' THEN {c \in Kids(a)' : parent'[c] = a} ELSE Kids(a)'
  BY DEF Mine, Owned, Kids
<1>8. \A a : Mine(a) = IF a \in manualDelete THEN {c \in Kids(a) : parent[c] = a} ELSE Kids(a)
  BY DEF Mine, Owned, Kids
<1>9. Mine(p)' = (Mine(p) \ {n}) \cup {new}
  BY <1>2, <1>5, <1>6, <1>7, <1>8
<1>10. ASSUME n \in live'
      PROVE  /\ Mine(n)' \subseteq Mine(n) \ {new}
             /\ \A c \in Mine(n) : c # new /\ ~IsConstant(c) => c \in Mine(n)'
  <2>1. Mine(n)' = {c \in Mine(n) : parent'[c] = n}
    BY <1>1, <1>2, <1>5, <1>6, <1>7, <1>8, <1>10
  <2>2. new \notin Mine(n)'
    <3>1. CASE new = Fresh(n)
      BY <1>5, <2>1, <3>1, ReplacedIs DEF ForestInv, OwnedLive
    <3>2. CASE new # Fresh(n)
      BY <1>1, <1>4, <2>1, <3>2
    <3>3. QED
      BY <3>1, <3>2
  <2>3. ASSUME NEW c \in Mine(n), c # new, ~IsConstant(c)
        PROVE  c \in Mine(n)'
    <3>1. c \in Addresses /\ parent[c] = n
      BY <1>1, <1>3, <1>5, <1>8, <2>3 DEF ForestInv, ParentIs
    <3>2. QED
      BY <1>4, <2>1, <2>3, <3>1
  <2>4. QED
    BY <2>1, <2>2, <2>3
<1>11. ASSUME NEW a \in live, a # n, a # p
       PROVE  Mine(a)' = Mine(a) /\ new \notin Mine(a) /\ n \notin Mine(a)
  <2>1. a \in Addresses /\ Kids(a)' = Kids(a) /\ new \notin Mine(a)
    BY <1>1, <1>2, <1>5, <1>11
  <2>2. n \notin Mine(a)
    BY <1>5, <1>11 DEF Replaced, ForestInv, OneOwner, Mine
  <2>3. CASE a \notin manualDelete
    BY <1>6, <1>7, <1>8, <1>11, <2>1, <2>2, <2>3
  <2>4. CASE a \in manualDelete
    <3>1. \A c \in Kids(a) : parent'[c] = a <=> parent[c] = a
      <4>1. ASSUME NEW c \in Kids(a), c = new
            PROVE  parent[c] # a /\ parent'[c] # a
        <5>1. c \notin Mine(a) /\ parent[c] # a
          BY <1>8, <2>1, <2>4, <4>1
        <5>2. p # a
          BY <1>11
        <5>3. QED
          BY <1>4, <4>1, <5>1, <5>2
      <4>2. QED
        BY <1>3, <1>4, <2>1, <4>1
    <3>2. QED
      BY <1>6, <1>7, <1>8, <1>11, <2>1, <2>2, <2>4, <3>1
  <2>5. QED
    BY <2>3, <2>4
<1>12. ASSUME new \notin live
       PROVE  Mine(new)' = {}
  <2>1. new = Fresh(n) /\ Kids(new) = {}
    BY <1>1, <1>12, ReplacedIs DEF AddressInv, Kids
  <2>2. QED
    BY <1>1, <1>2, <1>7, <2>1
<1>13. ASSUME NEW a \in live', NEW c \in Mine(a)'
       PROVE  /\ a \in live /\ c # n
              /\ \/ c \in Mine(a) /\ c # new
                 \/ a = p /\ c = new
  <2>1. a \in live
    BY <1>6, <1>12, <1>13
  <2>2. CASE a = p
    BY <1>1, <1>9, <1>13, <2>1, <2>2
  <2>3. CASE a = n
    <3>1. n \notin Mine(n)
      BY <1>1, <1>5 DEF Replaced, ForestInv, OneOwner, Mine
    <3>2. QED
      BY <1>10, <1>13, <2>1, <2>3, <3>1
  <2>4. CASE a # p /\ a # n
    BY <1>11, <1>13, <2>1, <2>4
  <2>5. QED
    BY <2>2, <2>3, <2>4
<1>14. ASSUME NEW a \in live \cap live', NEW c \in Mine(a), c # n, c # new, ~IsConstant(c)
       PROVE  c \in Mine(a)'
  BY <1>9, <1>10, <1>11, <1>14
<1>15. QED
  BY <1>6, <1>9, <1>13, <1>14

(* A replacement keeps the shape of the heap: links lead downwards.               *)
LEMMA DetachKeepsShape ==
  ASSUME HeapInv, NEW n, NEW p, NEW new, Replaced(n, p, new), Detaches(n, p, new)
  PROVE  AddressInv' /\ ShapeInv'
<1> USE DEF HeapInv
<1>1. /\ n \in Addresses /\ p \in Addresses /\ new \in Addresses
      /\ p # n /\ new # n /\ ~IsConstant(p) /\ new # NULL
      /\ IsConstant(new) \/ Extends(new, p)
      /\ \A a \in live : a # n => new \notin Mine(a)
  <2>1. /\ n \in Addresses /\ p \in Addresses /\ new \in Addresses
        /\ p # n /\ new # n /\ ~IsConstant(p)
        /\ IsConstant(new) \/ Extends(new, p)
        /\ \A a \in live : a # n => new \notin Mine(a)
    BY ReplacedIs
  <2>2. QED
    BY <2>1 DEF AddressInv
<1>2. n \in Kids(p) /\ p \in live /\ p \notin manualDelete
  BY DEF Replaced
<1>3. /\ Addresses' = Addresses /\ kind' = kind /\ root' = root
      /\ \A a \in Addresses : a # p => left'[a] = left[a] /\ right'[a] = right[a]
      /\ left'[p]  = IF left[p]  = n THEN new ELSE left[p]
      /\ right'[p] = IF right[p] = n THEN new ELSE right[p]
      /\ \A a \in Addresses : a # p => Kids(a)' = Kids(a)
      /\ Kids(p)' = (Kids(p) \ {n}) \cup {new}
  BY LinksAfter DEF Detaches
<1>4. AddressInv'
  <2>1. \A a \in Addresses : IsConstant(a) => a # p
    BY <1>1
  <2>2. QED
    BY <1>3, <2>1 DEF AddressInv
<1>5. new \notin Kids(p)
  BY <1>1, <1>2 DEF Mine
<1>6. ASSUME NEW a \in Addresses
      PROVE  /\ \A c \in Kids(a)' : IsConstant(c) \/ Extends(c, a)
             /\ left'[a] # NULL => left'[a] # right'[a]
             /\ left[a]  = NULL <=> left'[a]  = NULL
             /\ right[a] = NULL <=> right'[a] = NULL
  <2>1. CASE a # p
    BY <1>3, <2>1 DEF ShapeInv
  <2>2. CASE a = p
    <3>1. \A c \in Kids(a)' : IsConstant(c) \/ Extends(c, a)
      BY <1>1, <1>3, <2>2 DEF ShapeInv
    <3>2. /\ left[p] # NULL => left[p] # right[p]
          /\ left[p] # new /\ right[p] # new /\ n # NULL
      BY <1>1, <1>5, <1>2 DEF ShapeInv, Kids
    <3>3. QED
      BY <1>1, <1>3, <2>2, <3>1, <3>2
  <2>3. QED
    BY <2>1, <2>2
<1>7. ShapeInv'
  BY <1>3, <1>6 DEF ShapeInv
<1>8. QED
  BY <1>4, <1>7

(* A replacement keeps the forest a forest.                                     *)
LEMMA DetachKeepsForest ==
  ASSUME HeapInv, NEW n, NEW p, NEW new, Replaced(n, p, new), Detaches(n, p, new),
         phase' = phase, phase # "done"
  PROVE  ForestInv'
<1> USE DEF HeapInv
<1>1. /\ n \in Addresses /\ p \in Addresses /\ new \in Addresses
      /\ p # n /\ new # n /\ new # root /\ new \notin manualDelete
      /\ new = Fresh(n) => IsConstant(new) /\ new \notin live
      /\ new # Fresh(n) => new \in Mine(n) /\ new \in live
      /\ Subtree[new] \subseteq live \cup {new}
      /\ new \in Subtree[new] /\ n \notin Subtree[new] /\ p \notin Subtree[n]
  BY ReplacedIs
<1>2. /\ live' \subseteq live \cup {new}
      /\ p \in live' /\ p \notin manualDelete' /\ new \in live'
      /\ n \in live' => n \in manualDelete'
      /\ \A a \in live' : \A c \in Mine(a)' :
           /\ a \in live /\ c # n
           /\ \/ c \in Mine(a) /\ c # new
              \/ a = p /\ c = new
      /\ \A a \in live \cap live' : \A c \in Mine(a) :
           c # n /\ c # new /\ ~IsConstant(c) => c \in Mine(a)'
      /\ new \in Mine(p)'
  BY OwnersAfter
<1>3. /\ n \in live \ manualDelete /\ n # root /\ ~IsConstant(n) /\ live \subseteq Addresses
      /\ root' = root
  BY DEF Replaced, Detaches, TypeInv, TypeOK
<1>4. /\ n \in Subtree[n] /\ root \notin Subtree[n]
      /\ \A a \in live \ Subtree[n] : \A c \in Mine(a) : c \in Subtree[n] => c = n
      /\ \A a \in Subtree[n] : Kids(a) \subseteq Subtree[n]
      /\ \A a \in Subtree[new] : Kids(a) \subseteq Subtree[new]
      /\ \A a \in Subtree[new] : a # new => \E owner \in Subtree[new] : a \in Kids(owner)
  BY <1>1, <1>3, TreeAllocated, SubtreeIs
<1>5. \A a : Mine(a) \subseteq Kids(a)
  BY DEF Mine, Owned, Kids
<1>6. IF n \in Reassigned
      THEN manualDelete' = manualDelete \cup {n} /\ live' = live \cup Subtree[new]
      ELSE manualDelete' = manualDelete /\ live' = (live \ Subtree[n]) \cup Subtree[new]
  BY DEF Detaches
<1>7. root' \notin manualDelete' /\ root' \in live'
  BY <1>3, <1>4, <1>6 DEF ForestInv
<1>8. OwnedLive'
  <2>1. ASSUME NEW a \in live', NEW c \in Mine(a)'
        PROVE  c \in live'
    <3>1. CASE c = new
      BY <1>2, <3>1
    <3>2. CASE c # new
      <4>1. a \in live /\ c # n /\ c \in Mine(a) /\ c \in live
        BY <1>2, <2>1, <3>2 DEF ForestInv, OwnedLive
      <4>2. CASE n \in Reassigned
        BY <1>6, <4>1, <4>2
      <4>3. CASE a \notin Subtree[n]
        BY <1>4, <1>6, <4>1, <4>3
      <4>4. CASE n \notin Reassigned /\ a \in Subtree[n]
        BY <1>4, <1>5, <1>6, <2>1, <4>1, <4>4
      <4>5. QED
        BY <4>2, <4>3, <4>4
    <3>3. QED
      BY <3>1, <3>2
  <2>2. QED
    BY <2>1 DEF OwnedLive
<1>9. OneOwner'
  <2>1. ASSUME NEW a \in live', NEW b \in live', NEW c \in Mine(a)' \cap Mine(b)'
        PROVE  a = b
    BY <1>2, <2>1 DEF ForestInv, OneOwner
  <2>2. QED
    BY <2>1 DEF OneOwner
<1>10. TopsFree'
  <2>1. ASSUME NEW a \in live', NEW c \in Mine(a)'
        PROVE  c \notin manualDelete' \cup {root}
    BY <1>1, <1>2, <1>6, <2>1 DEF ForestInv, TopsFree
  <2>2. QED
    BY <1>3, <2>1 DEF TopsFree
<1>11. \A a \in Addresses : a # new => parent'[a] = parent[a]
  BY <1>1 DEF Detaches, TypeInv, TypeOK
<1>12. ~IsConstant(new) => parent'[new] = p
  BY <1>1 DEF Detaches, TypeInv, TypeOK
<1>13. ParentIs'
  <2>1. ASSUME NEW a \in live', NEW c \in Mine(a)', ~IsConstant(c)
        PROVE  parent'[c] = a
    <3>1. CASE c = new
      BY <1>2, <1>12, <2>1, <3>1
    <3>2. CASE c # new
      <4>1. a \in live /\ c \in Mine(a) /\ c \in Addresses
        BY <1>2, <1>3, <2>1, <3>2 DEF ForestInv, OwnedLive
      <4>2. QED
        BY <1>11, <2>1, <3>2, <4>1 DEF ForestInv, ParentIs
    <3>3. QED
      BY <3>1, <3>2
  <2>2. QED
    BY <2>1 DEF ParentIs
<1>14. HasOwner'
  <2>1. ASSUME NEW x \in live', ~IsConstant(x), x # root, x \notin manualDelete'
        PROVE  (parent[x] \in live /\ x \in Mine(parent[x]))'
    <3>1. ASSUME NEW o, parent'[x] = o, o \in live', x \in Mine(o)'
          PROVE  (parent[x] \in live /\ x \in Mine(parent[x]))'
      BY <3>1 DEF Mine, Owned
    <3>2. CASE x = new
      BY <1>2, <1>12, <2>1, <3>2, <3>1
    <3>3. CASE x # new
      <4>1. x \in live /\ x # n /\ x \notin manualDelete /\ x \in Addresses
        BY <1>2, <1>3, <1>6, <2>1, <3>3
      <4>2. PICK o : o = parent[x] /\ o \in live /\ x \in Mine(o) /\ parent'[x] = o
        BY <1>11, <2>1, <3>3, <4>1 DEF ForestInv, HasOwner
      <4>3. o \in live'
        <5>1. CASE n \in Reassigned \/ o \notin Subtree[n]
          BY <1>6, <4>2, <5>1
        <5>2. CASE n \notin Reassigned /\ o \in Subtree[n]
          <6>1. x \in Subtree[n] /\ x \in Subtree[new]
            BY <1>4, <1>5, <1>6, <2>1, <4>2, <5>2
          <6>2. PICK o2 \in Subtree[new] : x \in Kids(o2)
            BY <1>4, <3>3, <6>1
          <6>3. new \in live
            <7>1. CASE new = Fresh(n)
              <8>1. Kids(new) = {}
                BY <1>1, <7>1 DEF AddressInv, Kids
              <8>2. Subtree[new] \subseteq {new}
                <9>1. new \in Addresses \cap {new} /\ \A a \in Addresses \cap {new} : Kids(a) \subseteq {new}
                  BY <1>1, <8>1
                <9>2. QED
                  BY <9>1, SubtreeWithin
              <8>3. QED
                BY <3>3, <6>1, <8>2
            <7>2. QED
              BY <1>1, <7>1
          <6>4. Subtree[new] \subseteq live \ manualDelete
            BY <1>1, <6>3, TreeAllocated
          <6>5. o2 = o
            BY <4>2, <6>2, <6>4 DEF ForestInv, OneOwner, Mine
          <6>6. QED
            BY <1>6, <5>2, <6>2, <6>5
        <5>3. QED
          BY <5>1, <5>2
      <4>4. x \in Mine(o)'
        BY <1>2, <2>1, <3>3, <4>1, <4>2, <4>3
      <4>5. QED
        BY <3>1, <4>2, <4>3, <4>4
    <3>4. QED
      BY <3>2, <3>3
  <2>2. QED
    BY <1>3, <2>1 DEF HasOwner
<1>15. NotYet'
  <2>1. ASSUME NEW x \in live' \ manualDelete', ~IsConstant(x)
        PROVE  Fresh(x) \notin live'
    <3>1. x \in live /\ x # n /\ x \notin manualDelete /\ x \in Seq({1, 2})
      <4>1. x \in live
        BY <1>1, <1>2, <2>1
      <4>2. QED
        BY <1>2, <1>3, <1>6, <2>1, <4>1 DEF AddressInv
    <3>2. Fresh(x) \notin live
      BY <2>1, <3>1 DEF ForestInv, NotYet
    <3>3. Fresh(x) # new
      <4>1. n \in Seq({1, 2})
        BY <1>1, <1>3 DEF AddressInv
      <4>2. new = Fresh(n) => Fresh(x) # new
        BY <3>1, <4>1, FreshIs
      <4>3. QED
        BY <1>1, <3>2, <4>2
    <3>4. QED
      BY <1>2, <3>2, <3>3
  <2>2. QED
    BY <2>1 DEF NotYet
<1>16. QED
  BY <1>7, <1>8, <1>9, <1>10, <1>13, <1>14, <1>15 DEF ForestInv

-----------------------------------------------------------------------------
(* The heap a derivative is laid out in.                                        *)

(* With a place for each constant there are still finitely many addresses.         *)
LEMMA AddressesFinite ==
  ASSUME NEW nodes, IsFiniteSet(nodes)
  PROVE  IsFiniteSet(nodes \cup {Fresh(n) : n \in nodes})
<1> DEFINE f == [n \in nodes |-> Fresh(n)]
           T == {Fresh(n) : n \in nodes}
<1>1. f \in Surjection(nodes, T)
  BY DEF Surjection
<1>2. IsFiniteSet(T)
  <2> HIDE DEF f, T
  <2>1. QED
    BY <1>1, FS_Surjection
<1>3. QED
  <2> HIDE DEF T
  <2>1. IsFiniteSet(nodes \cup T)
    BY <1>2, FS_Union
  <2>2. QED
    BY <2>1 DEF T

(* A derivative fresh from Differentiate is a single tree, and IInv holds.        *)
LEMMA InitIInv == Init => IInv
<1> SUFFICES ASSUME Init PROVE IInv
  OBVIOUS
<1>1. PICK d \in Derivatives :
        /\ root = d.root
        /\ kind   = Extended(d, d.kind, "NUMERIC_NODE")
        /\ value  = Extended(d, d.value, NaN)
        /\ left   = Extended(d, d.left, NULL)
        /\ right  = Extended(d, d.right, NULL)
        /\ parent = Extended(d, d.parent, NULL)
        /\ live = Nodes(d)
        /\ registered = d.registered
  BY DEF Init
<1>2. /\ order \in Orders /\ manualDelete = {} /\ phase = "pass" /\ stack = <<>>
      /\ changed = FALSE /\ index = 0
  BY DEF Init
<1> DEFINE nodes == Nodes(d)
           all == AllAddresses(d)
<1>3. /\ IsFiniteSet(nodes) /\ nodes \subseteq Seq({1, 2}) /\ NULL \notin all
      /\ root = <<>> /\ <<>> \in nodes
      /\ d.kind \in [nodes -> Kinds]
      /\ d.value \in [nodes -> Number \cup Variables]
      /\ d.left \in [nodes -> nodes \cup {NULL}]
      /\ d.right \in [nodes -> nodes \cup {NULL}]
      /\ d.parent \in [nodes -> nodes \cup {NULL}]
      /\ registered \in Seq(nodes)
  BY <1>1, DerivativeAssumption DEF LaidOut
<1>4. ASSUME NEW n \in nodes
      PROVE  /\ d.left[n]  # NULL => d.left[n]  = Append(n, 1) /\ d.parent[d.left[n]]  = n
             /\ d.right[n] # NULL => d.right[n] = Append(n, 2) /\ d.parent[d.right[n]] = n
             /\ n # root => d.parent[n] # NULL /\ n \in {d.left[d.parent[n]], d.right[d.parent[n]]}
             /\ d.kind[n] = "NUMERIC_NODE" => d.value[n] \in Number
             /\ d.kind[n] \in BinaryOps => d.left[n] # NULL /\ d.right[n] # NULL
             /\ d.kind[n] \in FunctionOps => d.left[n] # NULL
             /\ d.kind[n] = "EQUALS" => d.left[n] # NULL \/ n = root
             /\ d.kind[n] \notin Brackets
  BY <1>3, DerivativeAssumption DEF LaidOut
<1>5. \A i, j \in DOMAIN registered : i < j => ~IsPrefix(registered[i], registered[j])
  BY <1>1, DerivativeAssumption DEF LaidOut
<1>6. /\ all = nodes \cup {Fresh(n) : n \in nodes}
      /\ \A n \in nodes : ~IsConstant(n) /\ Fresh(n) \in all /\ n \in Seq(0..2)
      /\ \A a \in all : a \notin nodes => IsConstant(a) /\ a \in Seq(0..2)
  <2>1. all = nodes \cup {Fresh(n) : n \in nodes}
    BY DEF AllAddresses
  <2>2. \A n \in nodes : n \in Seq({1, 2})
    BY <1>3
  <2>3. \A n \in Seq({1, 2}) : n \in Seq(0..2)
    <3>1. {1, 2} \subseteq 0..2
      OBVIOUS
    <3>2. QED
      BY <3>1
  <2>4. QED
    BY <2>1, <2>2, <2>3, FreshIs
<1>7. /\ Addresses = all /\ live = nodes /\ nodes \subseteq all
      /\ kind \in [all -> Kinds] /\ value \in [all -> Number \cup Variables]
      /\ left \in [all -> Links] /\ right \in [all -> Links] /\ parent \in [all -> Links]
  <2>1. DOMAIN kind = all
    BY <1>1 DEF Extended
  <2>2. nodes \subseteq all /\ NaN \in Number /\ "NUMERIC_NODE" \in Kinds
    BY <1>6, NumberAssumption DEF Kinds, Operands
  <2>3. QED
    BY <1>1, <1>3, <2>1, <2>2 DEF Extended, Links, Addresses
<1>8. ASSUME NEW n \in nodes
      PROVE  /\ kind[n] = d.kind[n] /\ value[n] = d.value[n] /\ left[n] = d.left[n]
             /\ right[n] = d.right[n] /\ parent[n] = d.parent[n]
  BY <1>1, <1>7 DEF Extended
<1>9. ASSUME NEW a \in all, a \notin nodes
      PROVE  kind[a] = "NUMERIC_NODE" /\ value[a] = NaN /\ left[a] = NULL /\ right[a] = NULL
  BY <1>1, <1>9 DEF Extended
<1> HIDE DEF nodes, all
<1>10. TypeInv
  <2>1. registered \in Seq(Addresses) /\ root \in Addresses /\ live \subseteq Addresses
    <3>1. nodes \subseteq Addresses
      BY <1>7
    <3>2. QED
      BY <1>3, <1>7, <3>1
  <2>2. TypeOK
    <3>1. index \in 0..(Len(registered) + 1)
      BY <1>2, <1>3
    <3>2. \A i \in DOMAIN stack : /\ stack[i].node \in Addresses
                                  /\ stack[i].got \in Seq(Number \cup {NULL})
      BY <1>2
    <3>3. manualDelete \subseteq Reassigned /\ changed \in BOOLEAN /\ phase \in Phases
      BY <1>2 DEF Phases
    <3>4. QED
      BY <1>2, <1>7, <2>1, <3>1, <3>2, <3>3 DEF TypeOK
  <2>3. \A n \in Addresses : kind[n] = "NUMERIC_NODE" => value[n] \in Number
    BY <1>4, <1>7, <1>8, <1>9, NumberAssumption
  <2>4. stack \in Seq([node : Addresses, got : Seq(IF phase = "compute" THEN Number ELSE {NULL})])
    BY <1>2, R!ShortSequences
  <2>5. QED
    BY <2>2, <2>3, <2>4 DEF TypeInv
<1>11. AddressInv
  <2>1. IsFiniteSet(Addresses)
    BY <1>3, <1>6, <1>7, AddressesFinite
  <2>2. \A n \in Addresses :
          IF IsConstant(n)
          THEN /\ kind[n] = "NUMERIC_NODE" /\ left[n] = NULL /\ right[n] = NULL
               /\ \E m \in Addresses : n = Fresh(m)
          ELSE n \in Seq({1, 2}) /\ Fresh(n) \in Addresses
    BY <1>3, <1>6, <1>7, <1>9
  <2>3. QED
    BY <1>3, <1>6, <1>7, <2>1, <2>2 DEF AddressInv
<1>12. ASSUME NEW n \in nodes
       PROVE  /\ Kids(n) \subseteq nodes
              /\ \A c \in Kids(n) : Extends(c, n) /\ c # root /\ parent[c] = n
              /\ left[n] # NULL => left[n] # right[n]
              /\ n # root => parent[n] \in nodes /\ n \in Kids(parent[n])
  <2>1. n \in Seq({1, 2})
    BY <1>3
  <2>2. Kids(n) \subseteq nodes
    BY <1>3, <1>8 DEF Kids
  <2>3. ASSUME NEW c \in Kids(n)
        PROVE  Extends(c, n) /\ c # root /\ parent[c] = n
    <3>1. (c = Append(n, 1) \/ c = Append(n, 2)) /\ d.parent[c] = n /\ c \in nodes
      BY <1>4, <1>8, <2>2, <2>3 DEF Kids
    <3>2. QED
      BY <1>3, <1>8, <2>1, <3>1, AppendExtends
  <2>4. Append(n, 1) # Append(n, 2)
    <3>1. /\ Append(n, 1)[Len(n) + 1] = 1 /\ Append(n, 2)[Len(n) + 1] = 2
      BY <2>1, AppendProperties
    <3>2. QED
      BY <3>1
  <2>5. left[n] # NULL => left[n] # right[n]
    BY <1>4, <1>8, <2>4
  <2>6. ASSUME n # root
        PROVE  parent[n] \in nodes /\ n \in Kids(parent[n])
    <3>1. d.parent[n] \in nodes /\ parent[n] = d.parent[n] /\ n # NULL
      BY <1>3, <1>4, <1>6, <1>8, <2>6
    <3>2. n \in {left[parent[n]], right[parent[n]]}
      BY <1>4, <1>8, <2>6, <3>1
    <3>3. QED
      BY <3>1, <3>2 DEF Kids
  <2>7. QED
    BY <2>2, <2>3, <2>5, <2>6
<1>13. ShapeInv
  <2>1. ASSUME NEW n \in Addresses, n \notin nodes
        PROVE  Kids(n) = {} /\ left[n] = NULL /\ kind[n] = "NUMERIC_NODE"
    BY <1>7, <1>9, <2>1 DEF Kids
  <2>2. ASSUME NEW n \in nodes
        PROVE  /\ kind[n] \in BinaryOps => left[n] # NULL /\ right[n] # NULL
               /\ kind[n] \in FunctionOps => left[n] # NULL
               /\ kind[n] = "EQUALS" => left[n] # NULL \/ n = root
               /\ kind[n] \notin Brackets
    BY <1>4, <1>8
  <2>3. "NUMERIC_NODE" \notin BinaryOps \cup FunctionOps \cup {"EQUALS"} \cup Brackets
    BY DEF BinaryOps, FunctionOps, Brackets
  <2>4. QED
    BY <1>12, <2>1, <2>2, <2>3 DEF ShapeInv
<1>14. BufferInv
  <2>1. ASSUME NEW i \in DOMAIN registered, NEW j \in DOMAIN registered, i < j
        PROVE  registered[i] # registered[j] /\ ~Extends(registered[j], registered[i])
    <3>1. registered[i] \in Seq(0..2) /\ registered[j] \in Seq(0..2)
      BY <1>3, <1>6
    <3>2. QED
      BY <1>5, <2>1, <3>1, ExtendsIsPrefix
  <2>2. \A i \in DOMAIN registered : ~IsConstant(registered[i])
    BY <1>3, <1>6
  <2>3. QED
    BY <2>1, <2>2 DEF BufferInv
<1>15. ForestInv
  <2>1. \A n : Mine(n) = Kids(n)
    BY <1>2 DEF Mine
  <2>2. \A n \in nodes : ~IsConstant(n) /\ Fresh(n) \notin nodes
    BY <1>3, <1>6, FreshIs
  <2>3. OwnedLive /\ OneOwner /\ TopsFree /\ ParentIs
    BY <1>2, <1>7, <1>12, <2>1 DEF OwnedLive, OneOwner, TopsFree, ParentIs
  <2>4. HasOwner
    BY <1>2, <1>7, <1>12, <2>1 DEF HasOwner
  <2>5. NotYet
    BY <1>2, <1>7, <2>2 DEF NotYet
  <2>6. QED
    BY <1>2, <1>3, <1>7, <2>3, <2>4, <2>5 DEF ForestInv
<1>16. CallInv
  BY <1>2 DEF CallInv
<1>17. ReportInv
  BY <1>2 DEF ReportInv
<1>18. QED
  BY <1>10, <1>11, <1>13, <1>14, <1>15, <1>16, <1>17 DEF IInv

-----------------------------------------------------------------------------
(* The active calls.                                                           *)

Results == IF phase = "compute" THEN Number ELSE {NULL}

(* The nodes of the active calls and the nodes above them are in the tree.         *)
LEMMA CallsInTree ==
  ASSUME IInv, stack # <<>>
  PROVE  /\ Len(stack) \in Nat \ {0} /\ DOMAIN stack = 1..Len(stack)
         /\ phase \in {"compute", "collapse"}
         /\ \A i \in 1..Len(stack) :
              /\ stack[i].node \in live \ manualDelete /\ stack[i].node \in Addresses
              /\ stack[i].node # root /\ stack[i].node \in Kids(Above(i))
              /\ Above(i) \in live \ manualDelete /\ Above(i) \in Addresses
              /\ ~IsConstant(stack[i].node) => parent[stack[i].node] = Above(i)
<1> USE DEF IInv
<1>1. Len(stack) \in Nat \ {0} /\ DOMAIN stack = 1..Len(stack) /\ live \subseteq Addresses
  BY DEF TypeInv, TypeOK
<1>2. phase \in {"compute", "collapse"} /\ root \in live \ manualDelete
  BY DEF CallInv, ForestInv
<1>3. ASSUME NEW i \in 1..Len(stack)
      PROVE  /\ stack[i].node \in live \ manualDelete /\ stack[i].node \in Kids(Above(i))
             /\ Above(i) \in live \ manualDelete
  <2>1. i # 1 => i - 1 \in 1..Len(stack)
    BY <1>1
  <2>2. QED
    BY <1>1, <1>2, <2>1 DEF CallInv, Above
<1>4. ASSUME NEW i \in 1..Len(stack)
      PROVE  /\ stack[i].node # root
             /\ ~IsConstant(stack[i].node) => parent[stack[i].node] = Above(i)
  <2>1. stack[i].node \in Mine(Above(i))
    BY <1>3 DEF Mine
  <2>2. QED
    BY <1>3, <2>1 DEF ForestInv, TopsFree, ParentIs
<1>5. QED
  BY <1>1, <1>2, <1>3, <1>4

(* Of the node of the innermost call.                                          *)
LEMMA CurrentIs ==
  ASSUME IInv, stack # <<>>
  PROVE  /\ Current = stack[Len(stack)].node /\ Top = stack[Len(stack)]
         /\ Current \in live \ manualDelete /\ Current \in Addresses /\ Current # root
         /\ Current \in Kids(Above(Len(stack)))
         /\ Above(Len(stack)) \in live \ manualDelete
         /\ Top.got \in Seq(Results)
         /\ IsOperation(Current) =>
              /\ ~IsConstant(Current) /\ parent[Current] = Above(Len(stack))
              /\ kind[Current] \in BinaryOps \cup FunctionOps \cup {"EQUALS"}
<1>1. /\ Current = stack[Len(stack)].node /\ Top = stack[Len(stack)]
      /\ Len(stack) \in 1..Len(stack)
  BY CallsInTree DEF Current, Top
<1>2. /\ Current \in live \ manualDelete /\ Current \in Addresses /\ Current # root
      /\ Current \in Kids(Above(Len(stack))) /\ Above(Len(stack)) \in live \ manualDelete
      /\ ~IsConstant(Current) => parent[Current] = Above(Len(stack))
  BY <1>1, CallsInTree
<1>3. Top.got \in Seq(Results)
  <2> DEFINE frames == [node : Addresses, got : Seq(Results)]
  <2>1. stack \in Seq(frames)
    BY DEF IInv, TypeInv, Results
  <2>2. stack[Len(stack)] \in frames
    <3> HIDE DEF frames
    <3>1. QED
      BY <1>1, <2>1
  <2>3. QED
    BY <1>1, <2>2
<1>4. IsOperation(Current) =>
        /\ ~IsConstant(Current)
        /\ kind[Current] \in BinaryOps \cup FunctionOps \cup {"EQUALS"}
  BY <1>2 DEF IsOperation, OperationNames, IInv, AddressInv, ShapeInv, Brackets, BinaryOps,
     FunctionOps
<1>5. QED
  BY <1>1, <1>2, <1>3, <1>4

(* A call calls itself for children that are there.                              *)
LEMMA SidesAre ==
  ASSUME TypeInv, ShapeInv, NEW n \in Addresses, n # root
  PROVE  /\ Sides(n) \in Seq({"left", "right"})
         /\ \A i \in 1..Len(Sides(n)) : Child(n, Sides(n)[i]) \in Kids(n)
<1>1. IsOperation(n) => /\ kind[n] \in BinaryOps => left[n] # NULL /\ right[n] # NULL
                        /\ kind[n] \notin BinaryOps => left[n] # NULL
  BY DEF IsOperation, OperationNames, ShapeInv
<1>2. \/ Sides(n) = <<>>
      \/ Sides(n) = <<"left">> /\ left[n] # NULL
      \/ Sides(n) = <<"right">> /\ right[n] # NULL
      \/ Sides(n) \in {<<"left", "right">>, <<"right", "left">>} /\ left[n] # NULL /\ right[n] # NULL
  BY <1>1 DEF Sides
<1>3. Child(n, "left") = left[n] /\ Child(n, "right") = right[n]
  BY DEF Child
<1>4. (left[n] # NULL => left[n] \in Kids(n)) /\ (right[n] # NULL => right[n] \in Kids(n))
  BY DEF Kids
<1>5. CASE Sides(n) = <<>>
  BY <1>5
<1>6. CASE Sides(n) = <<"left">> /\ left[n] # NULL
  <2>1. \A i \in 1..Len(Sides(n)) : Sides(n)[i] = "left"
    BY <1>6
  <2>2. QED
    BY <1>3, <1>4, <1>6, <2>1
<1>7. CASE Sides(n) = <<"right">> /\ right[n] # NULL
  <2>1. \A i \in 1..Len(Sides(n)) : Sides(n)[i] = "right"
    BY <1>7
  <2>2. QED
    BY <1>3, <1>4, <1>7, <2>1
<1>8. CASE Sides(n) = <<"left", "right">> /\ left[n] # NULL /\ right[n] # NULL
  <2>1. \A i \in 1..Len(Sides(n)) : Sides(n)[i] \in {"left", "right"}
    BY <1>8
  <2>2. QED
    BY <1>3, <1>4, <1>8, <2>1
<1>9. CASE Sides(n) = <<"right", "left">> /\ left[n] # NULL /\ right[n] # NULL
  <2>1. \A i \in 1..Len(Sides(n)) : Sides(n)[i] \in {"left", "right"}
    BY <1>9
  <2>2. QED
    BY <1>3, <1>4, <1>9, <2>1
<1>10. QED
  BY <1>2, <1>5, <1>6, <1>7, <1>8, <1>9

(* They stay the same while no child comes or goes.                               *)
LEMMA SidesKept ==
  ASSUME NEW n, kind' = kind, order' = order, phase' = phase,
         left'[n] = NULL <=> left[n] = NULL, right'[n] = NULL <=> right[n] = NULL
  PROVE  Sides(n)' = Sides(n)
  BY DEF Sides, IsOperation

(* The stack without the innermost call, whose result the call before gets.         *)
LEMMA ReturnIs ==
  ASSUME IInv, stack # <<>>, NEW result \in Results, Return(result)
  PROVE  /\ stack' \in Seq([node : Addresses, got : Seq(Results)])
         /\ Len(stack') = Len(stack) - 1 /\ DOMAIN stack' = 1..(Len(stack) - 1)
         /\ \A i \in 1..(Len(stack) - 1) :
              /\ stack'[i].node = stack[i].node
              /\ i < Len(stack) - 1 => stack'[i].got = stack[i].got
              /\ i = Len(stack) - 1 => /\ stack'[i].got = Append(stack[i].got, result)
                                      /\ Len(stack'[i].got) = Len(stack[i].got) + 1
<1> DEFINE frames == [node : Addresses, got : Seq(Results)]
           k == Len(stack)
           rest == SubSeq(stack, 1, k - 1)
<1>1. stack \in Seq(frames) /\ k \in Nat \ {0}
  BY CallsInTree DEF IInv, TypeInv, Results
<1>2. CASE k = 1
  <2>1. stack' = <<>>
    BY <1>2 DEF Return
  <2>2. <<>> \in Seq(frames)
    BY R!ShortSequences
  <2>3. QED
    BY <1>2, <2>1, <2>2
<1>3. CASE k # 1
  <2>1. /\ rest \in Seq(frames) /\ Len(rest) = k - 1 /\ k - 1 \in 1..(k - 1)
        /\ \A i \in 1..(k - 1) : rest[i] = stack[i]
    <3>1. PICK m \in Nat : k = m + 1 /\ m # 0
      <4>1. k - 1 \in Nat /\ k = (k - 1) + 1 /\ k - 1 # 0
        <5> HIDE DEF k
        <5>1. QED
          BY <1>1, <1>3
      <4>2. QED
        BY <4>1
    <3>2. \A i \in 1..m : stack[i] \in frames
      <4> HIDE DEF frames
      <4>1. QED
        BY <1>1, <3>1
    <3> DEFINE first == SubSeq(stack, 1, m)
    <3>3. /\ first \in Seq(frames) /\ Len(first) = m
          /\ \A i \in 1..m : first[i] = stack[i]
      <4> HIDE DEF frames
      <4>1. QED
        BY <3>1, <3>2, SubSeqProperties
    <3>4. k - 1 = m
      BY <3>1
    <3>5. QED
      BY <3>1, <3>3, <3>4
  <2>2. stack' = [rest EXCEPT ![k - 1].got = Append(@, result)]
    BY <1>3 DEF Return
  <2>3. PICK last \in frames : last = rest[k - 1]
    BY <2>1
  <2>4. /\ Append(last.got, result) \in Seq(Results)
        /\ Len(Append(last.got, result)) = Len(last.got) + 1
    BY AppendProperties
  <2> DEFINE new == [last EXCEPT !.got = Append(@, result)]
  <2>5. new \in frames /\ new.node = last.node /\ new.got = Append(last.got, result)
    BY <2>4
  <2>6. stack' = [rest EXCEPT ![k - 1] = new]
    BY <2>2, <2>3
  <2> HIDE DEF new, rest, frames
  <2>7. stack' \in Seq(frames) /\ Len(stack') = k - 1 /\ DOMAIN stack' = 1..(k - 1)
    BY <2>1, <2>5, <2>6, ExceptSeq
  <2>8. \A i \in 1..(k - 1) : stack'[i] = IF i = k - 1 THEN new ELSE stack[i]
    BY <2>1, <2>5, <2>6, ExceptSeq
  <2>9. ASSUME NEW i \in 1..(k - 1)
        PROVE  /\ stack'[i].node = stack[i].node
               /\ i < k - 1 => stack'[i].got = stack[i].got
               /\ i = k - 1 => /\ stack'[i].got = Append(stack[i].got, result)
                              /\ Len(stack'[i].got) = Len(stack[i].got) + 1
    <3>1. CASE i = k - 1
      <4>1. stack'[i] = new /\ stack[i] = last
        BY <2>1, <2>3, <2>8, <3>1
      <4>2. QED
        BY <1>1, <2>4, <2>5, <3>1, <4>1
    <3>2. CASE i # k - 1
      BY <1>1, <2>8, <3>2
    <3>3. QED
      BY <3>1, <3>2
  <2>10. QED
    BY <2>7, <2>9 DEF frames
<1>4. QED
  BY <1>2, <1>3

(* When a call returns, the calls before it stay in order.                        *)
LEMMA ReturnKeepsCalls ==
  ASSUME IInv, stack # <<>>, NEW result \in Results, Return(result),
         phase' = phase, order' = order, root' = root, kind' = kind,
         \A a \in Addresses : /\ left'[a]  = NULL <=> left[a]  = NULL
                              /\ right'[a] = NULL <=> right[a] = NULL,
         \A i \in 1..(Len(stack) - 1) :
           /\ stack[i].node \in live' \ manualDelete'
           /\ stack[i].node \in {left'[Above(i)], right'[Above(i)]} \ {NULL}
  PROVE  CallInv'
<1> DEFINE k == Len(stack)
<1>1. /\ k \in Nat \ {0} /\ DOMAIN stack = 1..k /\ phase \in {"compute", "collapse"}
      /\ \A i \in 1..k : stack[i].node \in Addresses
      /\ root \in Addresses
  BY CallsInTree DEF IInv, AddressInv
<1>2. /\ Len(stack') = k - 1 /\ DOMAIN stack' = 1..(k - 1)
      /\ \A i \in 1..(k - 1) :
           /\ stack'[i].node = stack[i].node
           /\ i < k - 1 => stack'[i].got = stack[i].got
           /\ i = k - 1 => Len(stack'[i].got) = Len(stack[i].got) + 1
  BY ReturnIs
<1>3. /\ left[root] # NULL
      /\ \A i \in 1..k :
           /\ Len(stack[i].got) <= Len(Sides(stack[i].node))
           /\ i < k => Len(stack[i].got) < Len(Sides(stack[i].node))
           /\ \A j \in (i + 1)..k :
                IsConstant(stack[j].node) \/ Extends(stack[j].node, stack[i].node)
  BY <1>1 DEF IInv, CallInv
<1> HIDE DEF k
<1>4. ASSUME NEW i \in 1..(k - 1)
      PROVE  /\ i \in 1..k /\ i < k
             /\ Above(i)' = Above(i)
             /\ Sides(stack[i].node)' = Sides(stack[i].node)
             /\ Len(stack[i].got) \in Nat /\ Len(Sides(stack[i].node)) \in Nat
  <2>1. i \in 1..k /\ i < k /\ (i # 1 => i - 1 \in 1..(k - 1))
    BY <1>1
  <2>2. Above(i)' = Above(i)
    BY <1>2, <2>1 DEF Above
  <2>3. stack[i].node \in Addresses /\ stack[i].node # root
    BY <1>1, <2>1, CallsInTree DEF k
  <2>4. Sides(stack[i].node)' = Sides(stack[i].node)
    <3>1. PICK n \in Addresses : n = stack[i].node
      BY <2>3
    <3>2. Sides(n)' = Sides(n)
      BY SidesKept
    <3>3. stack'[i].node = n
      BY <1>2, <3>1
    <3>4. QED
      BY <3>1, <3>2, <3>3
  <2>5. Len(stack[i].got) \in Nat
    <3> DEFINE frames == [node : Addresses, got : Seq(Results)]
    <3>1. stack \in Seq(frames)
      BY DEF IInv, TypeInv, Results
    <3>2. stack[i] \in frames
      <4> HIDE DEF frames
      <4>1. QED
        BY <1>1, <2>1, <3>1
    <3>3. QED
      BY <3>2
  <2>6. Len(Sides(stack[i].node)) \in Nat
    BY <2>3, SidesAre DEF IInv
  <2>7. QED
    BY <2>1, <2>2, <2>4, <2>5, <2>6
<1>5. ASSUME NEW i \in 1..(k - 1)
      PROVE  /\ (stack'[i].node \in live' \ manualDelete')
             /\ (stack[i].node \in Kids(Above(i)))'
             /\ Len(stack'[i].got) <= Len(Sides(stack[i].node)')
             /\ i < k - 1 => Len(stack'[i].got) < Len(Sides(stack[i].node)')
             /\ \A j \in (i + 1)..(k - 1) :
                  IsConstant(stack'[j].node) \/ Extends(stack'[j].node, stack'[i].node)
  <2>1. /\ stack[i].node \in live' \ manualDelete'
        /\ stack[i].node \in {left'[Above(i)], right'[Above(i)]} \ {NULL}
    BY DEF k
  <2>2. (stack[i].node \in Kids(Above(i)))'
    BY <1>2, <1>4, <2>1 DEF Kids
  <2>3. PICK gotten \in Nat : gotten = Len(stack[i].got)
    BY <1>4
  <2>4. PICK sides \in Nat : sides = Len(Sides(stack[i].node))
    BY <1>4
  <2>5. gotten < sides /\ (i < k - 1 => Len(stack'[i].got) = gotten)
        /\ (i = k - 1 => Len(stack'[i].got) = gotten + 1)
    BY <1>2, <1>3, <1>4, <2>3, <2>4
  <2>6. /\ Len(stack'[i].got) <= Len(Sides(stack[i].node)')
        /\ i < k - 1 => Len(stack'[i].got) < Len(Sides(stack[i].node)')
    BY <1>1, <1>4, <2>4, <2>5
  <2>7. ASSUME NEW j \in (i + 1)..(k - 1)
        PROVE  IsConstant(stack'[j].node) \/ Extends(stack'[j].node, stack'[i].node)
    <3>1. j \in 1..(k - 1) /\ j \in (i + 1)..k /\ i \in 1..k
      BY <1>1
    <3>2. QED
      BY <1>2, <1>3, <3>1
  <2>8. QED
    BY <1>2, <2>1, <2>2, <2>6, <2>7
<1>6. left'[root'] # NULL
  BY <1>1, <1>3
<1>7. (phase \in {"compute", "collapse"})'
  BY <1>1
<1>8. QED
  BY <1>2, <1>5, <1>6, <1>7 DEF CallInv

(* When the node of the innermost call is replaced, the calls above it stay in the   *)
(* tree: it is their descendant.                                               *)
LEMMA DetachKeepsCalls ==
  ASSUME IInv, stack # <<>>, NEW n, n = Current, NEW p, p = parent[n], NEW new,
         Replaced(n, p, new), Detaches(n, p, new),
         phase' = phase, order' = order, NEW result \in Results, Return(result)
  PROVE  CallInv'
<1> DEFINE k == Len(stack)
<1>1. HeapInv
  BY DEF IInv, HeapInv
<1>2. /\ n \in Addresses /\ p \in Addresses /\ new \in Addresses
      /\ p # n /\ ~IsConstant(p) /\ ~IsConstant(n) /\ new # NULL
  <2>1. /\ n \in Addresses /\ p \in Addresses /\ new \in Addresses
        /\ p # n /\ ~IsConstant(p)
    BY <1>1, ReplacedIs
  <2>2. QED
    BY <2>1 DEF Replaced, IInv, AddressInv
<1>3. /\ Addresses' = Addresses /\ kind' = kind /\ root' = root
      /\ \A a \in Addresses : a # p => left'[a] = left[a] /\ right'[a] = right[a]
      /\ left'[p]  = IF left[p]  = n THEN new ELSE left[p]
      /\ right'[p] = IF right[p] = n THEN new ELSE right[p]
  BY <1>1, LinksAfter DEF Detaches
<1>4. /\ k \in Nat \ {0} /\ DOMAIN stack = 1..k /\ phase \in {"compute", "collapse"}
      /\ \A i \in 1..k :
           /\ stack[i].node \in live \ manualDelete /\ stack[i].node \in Addresses
           /\ stack[i].node # root /\ stack[i].node \in Kids(Above(i))
           /\ Above(i) \in Addresses
      /\ n = stack[k].node /\ p = Above(k)
  <2>1. n = stack[Len(stack)].node /\ p = Above(Len(stack))
    <3>1. Len(stack) \in 1..Len(stack) /\ n = stack[Len(stack)].node
      BY CallsInTree, CurrentIs
    <3>2. QED
      BY <1>2, <3>1, CallsInTree
  <2>2. QED
    BY <2>1, CallsInTree
<1>5. \A i \in 1..k : \A j \in (i + 1)..k :
        IsConstant(stack[j].node) \/ Extends(stack[j].node, stack[i].node)
  BY <1>4 DEF IInv, CallInv
<1> HIDE DEF k
<1>6. n # NULL /\ \A a \in Addresses : /\ left'[a]  = NULL <=> left[a]  = NULL
                                       /\ right'[a] = NULL <=> right[a] = NULL
  BY SMTT(20), <1>2, <1>3 DEF IInv, AddressInv
<1>7. ASSUME NEW i \in 1..(k - 1)
      PROVE  /\ stack[i].node \in live' \ manualDelete'
             /\ stack[i].node \in {left'[Above(i)], right'[Above(i)]} \ {NULL}
  <2>1. i \in 1..k /\ k \in (i + 1)..k /\ k \in 1..k
    BY <1>4
  <2>2. PICK m \in Addresses : m = stack[i].node
    BY <1>4, <2>1
  <2>3. Extends(n, m)
    BY <1>2, <1>4, <1>5, <2>1, <2>2
  <2>4. ~Extends(m, n) /\ m # n
    BY <1>2, <2>3, ExtendsOrder DEF IInv, AddressInv
  <2>5. ~IsConstant(m)
    <3>1. i + 1 \in 1..k /\ Above(i + 1) = m
      BY <1>4, <2>1, <2>2 DEF Above
    <3>2. Kids(m) # {}
      BY <1>4, <3>1
    <3>3. QED
      BY <3>2 DEF Kids, IInv, AddressInv
  <2>6. m \notin Subtree[n]
    BY <1>1, <1>2, <2>4, <2>5, SubtreeIs DEF HeapInv
  <2>7. m \in live' \ manualDelete'
    BY <1>4, <2>1, <2>2, <2>4, <2>6 DEF Detaches
  <2>8. Above(i) # p
    <3>1. CASE i = 1
      <4>1. p = stack[k - 1].node /\ k - 1 \in 1..k
        BY <1>4, <2>1, <3>1 DEF Above
      <4>2. QED
        BY <1>4, <3>1, <4>1 DEF Above
    <3>2. CASE i # 1
      <4>1. /\ p = stack[k - 1].node /\ Above(i) = stack[i - 1].node
            /\ k - 1 \in 1..k /\ i - 1 \in 1..k /\ k - 1 \in ((i - 1) + 1)..k
        BY <1>4, <2>1, <3>2 DEF Above
      <4>2. PICK b \in Addresses : b = stack[i - 1].node
        BY <1>4, <4>1
      <4>3. Extends(p, b)
        BY <1>2, <1>5, <4>1, <4>2
      <4>4. p # b
        BY <1>2, <4>3, ExtendsOrder DEF IInv, AddressInv
      <4>5. QED
        BY <4>1, <4>2, <4>4
    <3>3. QED
      BY <3>1, <3>2
  <2>9. stack[i].node \in Kids(Above(i)) /\ Above(i) \in Addresses
    BY <1>4, <2>1
  <2>10. stack[i].node \in {left'[Above(i)], right'[Above(i)]} \ {NULL}
    BY <1>3, <2>8, <2>9 DEF Kids
  <2>11. QED
    BY <2>2, <2>7, <2>10
<1>8. QED
  BY <1>3, <1>6, <1>7, ReturnKeepsCalls DEF k

(* A step of the optimizer that replaces a node keeps the invariant.               *)
LEMMA DetachKeepsInv ==
  ASSUME IInv, stack # <<>>, NEW n, n = Current, NEW p, p = parent[n], NEW new,
         Replaced(n, p, new), Detaches(n, p, new),
         NEW result \in Results, Return(result),
         phase' = phase, order' = order, index' = index, changed' = TRUE,
         value' \in [Addresses -> Number \cup Variables],
         \A a \in Addresses : kind[a] = "NUMERIC_NODE" => value'[a] \in Number
  PROVE  IInv'
<1>1. HeapInv
  BY DEF IInv, HeapInv
<1>2. phase \in {"compute", "collapse"} /\ phase # "done"
  BY CallsInTree
<1>3. AddressInv' /\ ShapeInv'
  BY <1>1, DetachKeepsShape
<1>4. ForestInv'
  BY <1>1, <1>2, DetachKeepsForest
<1>5. CallInv'
  BY DetachKeepsCalls
<1>6. kind' = kind /\ root' = root /\ registered' = registered
  BY DEF Detaches
<1>7. BufferInv'
  BY <1>6 DEF IInv, BufferInv
<1>8. ReportInv'
  BY <1>2 DEF IInv, ReportInv
<1>9. TypeInv'
  <2>1. /\ Addresses' = Addresses
        /\ left' \in [Addresses -> Links] /\ right' \in [Addresses -> Links]
        /\ parent' \in [Addresses -> Links]
    BY <1>1, LinksAfter
  <2>2. new \in Addresses
    BY <1>1, ReplacedIs
  <2>3. live' \subseteq live \cup {new} /\ live \subseteq Addresses
    BY <1>1, OwnersAfter DEF IInv, TypeInv, TypeOK
  <2>4. manualDelete' \subseteq Reassigned' /\ Reassigned' = Reassigned
    <3>1. Reassigned' = Reassigned
      BY <1>6 DEF Reassigned
    <3>2. manualDelete \subseteq Reassigned
      BY DEF IInv, TypeInv, TypeOK
    <3>3. manualDelete' \subseteq Reassigned
      BY <3>2 DEF Detaches
    <3>4. QED
      BY <3>1, <3>3
  <2>5. /\ stack' \in Seq([node : Addresses, got : Seq(Results)])
        /\ Results = (IF phase' = "compute" THEN Number ELSE {NULL})
    BY ReturnIs DEF Results
  <2>6. \A i \in DOMAIN stack' : stack'[i].node \in Addresses /\ stack'[i].got \in Seq(Number \cup {NULL})
    <3> DEFINE frames == [node : Addresses, got : Seq(Results)]
    <3>1. \A f \in frames : f.node \in Addresses /\ f.got \in Seq(Number \cup {NULL})
      <4>1. Results \subseteq Number \cup {NULL}
        BY DEF Results
      <4>2. Seq(Results) \subseteq Seq(Number \cup {NULL})
        BY <4>1
      <4>3. QED
        BY <4>2
    <3>2. stack' \in Seq(frames)
      BY <2>5
    <3>3. \A i \in DOMAIN stack' : stack'[i] \in frames
      <4> HIDE DEF frames
      <4>1. QED
        BY <3>2
    <3>4. QED
      BY <3>1, <3>3
  <2>7. /\ root \in Addresses /\ kind \in [Addresses -> Kinds] /\ registered \in Seq(Addresses)
        /\ order \in Orders /\ phase \in Phases /\ index \in 0..(Len(registered) + 1)
    BY DEF IInv, TypeInv, TypeOK
  <2>8. Links' = Links
    BY <2>1 DEF Links
  <2>9. TypeOK'
    BY <1>6, <2>1, <2>2, <2>3, <2>4, <2>6, <2>7, <2>8 DEF TypeOK
  <2>10. QED
    BY <1>6, <2>1, <2>5, <2>9 DEF TypeInv
<1>10. QED
  BY <1>3, <1>4, <1>5, <1>7, <1>8, <1>9 DEF IInv

-----------------------------------------------------------------------------
(* Each step keeps the invariant.                                               *)

(* What does not touch the heap.                                               *)
LEMMA HeapKept ==
  ASSUME AddressInv, ShapeInv, BufferInv, ForestInv,
         UNCHANGED <<root, fields, live, manualDelete, registered>>,
         phase = "done" => phase' = "done"
  PROVE  AddressInv' /\ ShapeInv' /\ BufferInv' /\ ForestInv'
<1>1. /\ root' = root /\ kind' = kind /\ left' = left /\ right' = right /\ parent' = parent
      /\ live' = live /\ manualDelete' = manualDelete /\ registered' = registered
  BY DEF fields
<1>2. Addresses' = Addresses /\ \A a : Kids(a)' = Kids(a) /\ Mine(a)' = Mine(a)
  BY <1>1 DEF Addresses, Kids, Mine, Owned
<1>3. AddressInv' /\ ShapeInv' /\ BufferInv'
  BY <1>1, <1>2 DEF AddressInv, ShapeInv, BufferInv
<1>4. OwnedLive' /\ OneOwner' /\ TopsFree' /\ ParentIs' /\ NotYet'
  BY <1>1, <1>2 DEF ForestInv, OwnedLive, OneOwner, TopsFree, ParentIs, NotYet
<1>5. HasOwner'
  BY <1>1, <1>2 DEF ForestInv, HasOwner
<1>6. QED
  BY <1>1, <1>3, <1>4, <1>5 DEF ForestInv

(* What does not touch the heap keeps the types, if the control variables keep theirs. *)
LEMMA TypesKept ==
  ASSUME TypeInv, UNCHANGED <<root, fields, manualDelete, registered, order>>,
         live' \subseteq live, phase' \in Phases, changed' \in BOOLEAN,
         index' \in 0..(Len(registered) + 1),
         stack' \in Seq([node : Addresses, got : Seq(IF phase' = "compute" THEN Number ELSE {NULL})])
  PROVE  TypeInv'
<1>1. /\ root' = root /\ kind' = kind /\ left' = left /\ right' = right /\ parent' = parent
      /\ value' = value /\ manualDelete' = manualDelete /\ registered' = registered
      /\ order' = order
  BY DEF fields
<1>2. Addresses' = Addresses /\ Links' = Links /\ Reassigned' = Reassigned
  BY <1>1 DEF Addresses, Links, Reassigned
<1> DEFINE frames == [node : Addresses, got : Seq(IF phase' = "compute" THEN Number ELSE {NULL})]
<1>3. \A f \in frames : f.node \in Addresses /\ f.got \in Seq(Number \cup {NULL})
  <2>1. Seq(IF phase' = "compute" THEN Number ELSE {NULL}) \subseteq Seq(Number \cup {NULL})
    OBVIOUS
  <2>2. QED
    BY <2>1
<1>4. \A i \in DOMAIN stack' : stack'[i] \in frames
  <2>1. stack' \in Seq(frames)
    OBVIOUS
  <2> HIDE DEF frames
  <2>2. QED
    BY <2>1
<1>5. \A i \in DOMAIN stack' : stack'[i].node \in Addresses /\ stack'[i].got \in Seq(Number \cup {NULL})
  BY <1>3, <1>4
<1>6. TypeOK'
  BY <1>1, <1>2, <1>5 DEF TypeInv, TypeOK
<1>7. QED
  BY <1>1, <1>2, <1>6 DEF TypeInv

(* A pass begins with a call on the topmost node of the derivative.                *)
LEMMA BeginKeepsInv ==
  ASSUME IInv, BeginPass \/ BeginCollapse
  PROVE  IInv'
<1>1. /\ phase \in {"pass", "compute"} /\ phase' \in {"compute", "collapse"}
      /\ left[root] # NULL /\ stack' = <<Frame(left[root])>> /\ changed' \in BOOLEAN
      /\ UNCHANGED <<root, fields, live, manualDelete, registered, order, index>>
  <2>1. changed \in BOOLEAN
    BY DEF IInv, TypeInv, TypeOK
  <2>2. CASE BeginPass
    BY <2>2 DEF BeginPass, StatusReset
  <2>3. CASE BeginCollapse
    BY <2>1, <2>3 DEF BeginCollapse, IInv, CallInv
  <2>4. QED
    BY <2>2, <2>3
<1>2. /\ root' = root /\ kind' = kind /\ left' = left /\ right' = right
      /\ live' = live /\ manualDelete' = manualDelete
  BY <1>1 DEF fields
<1>3. /\ root \in live \ manualDelete /\ root \in Addresses
      /\ left[root] \in Kids(root) /\ left[root] \in live \ manualDelete
      /\ left[root] # root /\ left[root] \in Addresses
  <2>1. root \in live \ manualDelete /\ left[root] \in Kids(root) /\ Kids(root) = Mine(root)
    BY <1>1 DEF IInv, ForestInv, Kids, Mine
  <2>2. left[root] \in live \ manualDelete /\ left[root] # root
    BY <2>1 DEF IInv, ForestInv, OwnedLive, TopsFree
  <2>3. QED
    BY <2>1, <2>2 DEF IInv, TypeInv, TypeOK
<1>4. PICK n \in Addresses : n = left[root]
  BY <1>3
<1>5. Len(Sides(n)') \in Nat
  <2>1. Sides(n)' \in {<<>>, <<"left">>, <<"right">>, <<"left", "right">>, <<"right", "left">>}
    BY DEF Sides
  <2>2. QED
    BY <2>1
<1> DEFINE frame == Frame(n)
<1>6. frame.node = n /\ frame.got = <<>> /\ stack' = <<frame>>
  BY <1>1, <1>4 DEF Frame
<1>7. stack' \in Seq([node : Addresses, got : Seq(IF phase' = "compute" THEN Number ELSE {NULL})])
  <2>1. <<>> \in Seq(IF phase' = "compute" THEN Number ELSE {NULL})
    OBVIOUS
  <2>2. frame \in [node : Addresses, got : Seq(IF phase' = "compute" THEN Number ELSE {NULL})]
    BY <2>1 DEF Frame
  <2> HIDE DEF frame
  <2>3. QED
    BY <1>6, <2>2, R!ShortSequences
<1> HIDE DEF frame
<1>8. DOMAIN stack' = {1} /\ Len(stack') = 1 /\ stack'[1].node = n /\ stack'[1].got = <<>>
  <2>1. DOMAIN stack' = 1..1 /\ Len(stack') = 1 /\ stack'[1] = frame
    BY <1>6
  <2>2. QED
    BY <1>6, <2>1
<1>9. CallInv'
  <2>1. (n \in Kids(root))'
    BY <1>2, <1>3, <1>4 DEF Kids
  <2>2. /\ (stack[1].node \in live \ manualDelete)'
        /\ (stack[1].node \in Kids(Above(1)))'
    BY <1>2, <1>3, <1>4, <1>8, <2>1 DEF Above
  <2>3. Len(stack'[1].got) = 0
    BY <1>8
  <2>4. (Len(stack[1].got) <= Len(Sides(stack[1].node)))'
    BY <1>5, <1>8, <2>3
  <2>5. ~ (1 < Len(stack')) /\ (1 + 1)..Len(stack') = {}
    BY <1>8
  <2>6. (left[root] # NULL)'
    BY <1>1, <1>2
  <2>7. QED
    BY <1>1, <1>8, <2>2, <2>4, <2>5, <2>6 DEF CallInv
<1>10. TypeInv'
  <2>1. index \in 0..(Len(registered) + 1) /\ index' = index
    BY <1>1 DEF IInv, TypeInv, TypeOK
  <2>2. phase' \in Phases /\ live' \subseteq live
    BY <1>1, <1>2 DEF Phases
  <2>3. TypeInv
    BY DEF IInv
  <2>4. QED
    BY <1>1, <1>7, <2>1, <2>2, <2>3, TypesKept
<1>11. AddressInv' /\ ShapeInv' /\ BufferInv' /\ ForestInv'
  BY <1>1, HeapKept DEF IInv
<1>12. ReportInv'
  BY <1>1 DEF IInv, ReportInv
<1>13. QED
  BY <1>9, <1>10, <1>11, <1>12 DEF IInv

(* What happens between the passes, and what ends the report, leaves no call.       *)
LEMMA TurnKeepsInv ==
  ASSUME IInv, RefuseTree \/ EndPass \/ EndDelete \/ UseFreed
  PROVE  IInv'
<1>1. /\ UNCHANGED <<root, fields, live, manualDelete, registered, order, stack, changed, index>>
      /\ phase' \in {"pass", "print", "destroy", "undefined"}
  BY DEF RefuseTree, EndPass, EndDelete, UseFreed, AfterPass
<1>2. stack = <<>>
  <2>1. CASE UseFreed
    <3>1. ~Sound
      BY <2>1 DEF UseFreed
    <3>2. ASSUME stack # <<>> PROVE FALSE
      <4>1. /\ phase \in {"compute", "collapse"} /\ Current \in live \ manualDelete
            /\ IsOperation(Current) => parent[Current] \in live
        BY <3>2, CallsInTree, CurrentIs
      <4>2. Subtree[Current] \subseteq live
        BY <4>1, TreeAllocated DEF IInv, HeapInv
      <4>3. Touched \subseteq live
        BY <3>2, <4>1, <4>2 DEF Touched
      <4>4. QED
        BY <3>1, <4>3 DEF Sound
    <3>3. QED
      BY <3>2
  <2>2. CASE RefuseTree \/ EndPass \/ EndDelete
    BY <2>2 DEF RefuseTree, EndPass, EndDelete, IInv, CallInv
  <2>3. QED
    BY <2>1, <2>2
<1>3. CallInv'
  <2>1. stack' = <<>> /\ phase' \notin {"compute", "collapse"} /\ DOMAIN stack' = {}
    BY <1>1, <1>2
  <2>2. QED
    BY <2>1 DEF CallInv
<1>4. TypeInv'
  <2>1. /\ index \in 0..(Len(registered) + 1) /\ index' = index
        /\ changed \in BOOLEAN /\ changed' = changed
    BY <1>1 DEF IInv, TypeInv, TypeOK
  <2>2. phase' \in Phases /\ live' \subseteq live
    BY <1>1 DEF Phases
  <2>3. stack' \in Seq([node : Addresses, got : Seq(IF phase' = "compute" THEN Number ELSE {NULL})])
    BY <1>1, <1>2, R!ShortSequences
  <2>4. TypeInv
    BY DEF IInv
  <2>5. QED
    BY <1>1, <2>1, <2>2, <2>3, <2>4, TypesKept
<1>5. phase # "done"
  BY DEF RefuseTree, EndPass, EndDelete, UseFreed, Sound, Touched
<1>6. AddressInv' /\ ShapeInv' /\ BufferInv' /\ ForestInv'
  BY <1>1, <1>5, HeapKept DEF IInv
<1>7. ReportInv'
  <2>1. /\ index' = index /\ live' = live /\ manualDelete' = manualDelete /\ registered' = registered
    BY <1>1
  <2>2. index \in 0..(Len(registered) + 1) /\ Len(registered) \in Nat
    BY DEF IInv, TypeInv, TypeOK
  <2>3. CASE RefuseTree \/ EndPass
    <3>1. index = 0 /\ phase' \in {"pass", "print"}
      BY <2>3 DEF RefuseTree, EndPass, AfterPass, IInv, ReportInv
    <3>2. QED
      BY <2>1, <2>2, <3>1 DEF ReportInv
  <2>4. CASE EndDelete
    <3>1. phase = "delete" /\ phase' = "destroy" /\ index > Len(registered)
      BY <2>4 DEF EndDelete
    <3>2. \A n \in manualDelete \cap live : \E j \in index..Len(registered) : n = registered[j]
      BY <3>1 DEF IInv, ReportInv
    <3>3. index..Len(registered) = {}
      BY <2>2, <3>1
    <3>4. QED
      BY <2>1, <3>1, <3>2, <3>3 DEF ReportInv
  <2>5. CASE UseFreed
    BY <2>5 DEF UseFreed, ReportInv
  <2>6. QED
    BY <2>3, <2>4, <2>5
<1>8. QED
  BY <1>3, <1>4, <1>6, <1>7 DEF IInv

(* A call for the next child: a deeper node of the tree.                          *)
LEMMA DescendKeepsInv ==
  ASSUME IInv, Descend
  PROVE  IInv'
<1>1. /\ phase \in {"compute", "collapse"} /\ stack # <<>> /\ phase' = phase
      /\ ~AllVisited
      /\ stack' = Append(stack, Frame(Child(Current, Sides(Current)[Len(Top.got) + 1])))
      /\ UNCHANGED <<root, fields, live, manualDelete, registered, order, changed, index>>
  BY DEF Descend
<1>2. /\ root' = root /\ kind' = kind /\ left' = left /\ right' = right
      /\ live' = live /\ manualDelete' = manualDelete /\ order' = order
  BY <1>1 DEF fields
<1>3. PICK k \in Nat : k = Len(stack)
  BY <1>1, CallsInTree
<1>4. PICK n \in Addresses : n = Current
  BY <1>1, CurrentIs
<1>5. /\ k # 0 /\ DOMAIN stack = 1..k /\ k \in 1..k
      /\ n = stack[k].node /\ n # root /\ n \in live \ manualDelete
      /\ Top = stack[k] /\ Top.got \in Seq(Results)
  BY <1>3, <1>1, <1>4, CallsInTree, CurrentIs
<1>6. PICK m \in Nat : m = Len(Top.got)
  BY <1>5
<1>7. m < Len(Sides(n)) /\ m + 1 \in 1..Len(Sides(n))
  <2>1. Len(Sides(n)) \in Nat
    BY <1>5, SidesAre DEF IInv
  <2>2. m <= Len(Sides(n)) /\ m # Len(Sides(n))
    BY <1>3, <1>1, <1>4, <1>5, <1>6 DEF IInv, CallInv, AllVisited
  <2>3. QED
    BY <2>1, <2>2
<1>8. PICK c : c = Child(n, Sides(n)[m + 1]) /\ c \in Kids(n)
  BY <1>5, <1>7, SidesAre DEF IInv
<1>9. /\ c \in live \ manualDelete /\ c \in Addresses
      /\ IsConstant(c) \/ Extends(c, n)
      /\ ~IsConstant(n)
  <2>1. c \in Mine(n)
    BY <1>5, <1>8 DEF Mine
  <2>2. c \in live \ manualDelete
    BY <1>5, <2>1 DEF IInv, ForestInv, OwnedLive, TopsFree
  <2>3. ~IsConstant(n)
    BY <1>8 DEF Kids, IInv, AddressInv
  <2>4. QED
    BY <1>8, <2>2, <2>3 DEF IInv, TypeInv, TypeOK, ShapeInv
<1> DEFINE frame == Frame(c)
           frames == [node : Addresses, got : Seq(Results)]
<1>10. frame \in frames /\ frame.node = c /\ frame.got = <<>>
  BY <1>9 DEF Frame
<1>11. stack \in Seq(frames) /\ stack' = Append(stack, frame)
  BY <1>1, <1>4, <1>6, <1>8 DEF IInv, TypeInv, Results
<1> HIDE DEF frame, frames
<1>12. /\ stack' \in Seq(frames) /\ Len(stack') = k + 1 /\ DOMAIN stack' = 1..(k + 1)
       /\ \A i \in 1..k : stack'[i] = stack[i]
       /\ stack'[k + 1] = frame
  BY <1>3, <1>5, <1>10, <1>11, AppendProperties
<1>13. ASSUME NEW i \in 1..k
       PROVE  /\ stack[i].node \in live \ manualDelete
              /\ stack[i].node \in Kids(Above(i))
              /\ Len(stack[i].got) <= Len(Sides(stack[i].node))
              /\ i < k => Len(stack[i].got) < Len(Sides(stack[i].node))
              /\ \A j \in (i + 1)..k :
                   IsConstant(stack[j].node) \/ Extends(stack[j].node, stack[i].node)
  BY <1>3, <1>5 DEF IInv, CallInv
<1>14. \A a : Sides(a)' = Sides(a) /\ Kids(a)' = Kids(a)
  <2>1. \A a : Kids(a)' = Kids(a)
    BY <1>2 DEF Kids
  <2>2. \A a : Sides(a)' = Sides(a)
    BY <1>1, <1>2 DEF Sides, IsOperation
  <2>3. QED
    BY <2>1, <2>2
<1>15. ASSUME NEW i \in 1..k
       PROVE  /\ Above(i)' = Above(i)
              /\ i # 1 => i - 1 \in 1..k
              /\ i \in 1..(k + 1)
  <2>1. (i # 1 => i - 1 \in 1..k) /\ i \in 1..(k + 1)
    BY <1>5
  <2>2. QED
    BY <1>2, <1>12, <2>1 DEF Above
<1>16. ASSUME NEW i \in 1..k
       PROVE  \A j \in (i + 1)..(k + 1) :
                (IsConstant(stack[j].node) \/ Extends(stack[j].node, stack[i].node))'
  <2>1. ASSUME NEW j \in (i + 1)..(k + 1)
        PROVE  IsConstant(stack'[j].node) \/ Extends(stack'[j].node, stack'[i].node)
    <3>1. CASE j # k + 1
      <4>1. j \in (i + 1)..k /\ j \in 1..k
        BY <1>5, <3>1
      <4>2. QED
        BY <1>12, <1>13, <4>1
    <3>2. CASE j = k + 1 /\ i = k
      BY <1>5, <1>9, <1>10, <1>12, <3>2
    <3>3. CASE j = k + 1 /\ i # k
      <4>1. k \in (i + 1)..k
        BY <1>5, <3>3
      <4>2. PICK b \in Addresses : b = stack[i].node
        BY <1>13 DEF IInv, TypeInv, TypeOK
      <4>3. Extends(n, b)
        BY <1>5, <1>9, <1>13, <4>1, <4>2
      <4>4. IsConstant(c) \/ Extends(c, b)
        BY <1>9, <4>3, ExtendsOrder DEF IInv, AddressInv
      <4>5. QED
        BY <1>10, <1>12, <3>3, <4>2, <4>4
    <3>4. QED
      BY <3>1, <3>2, <3>3
  <2>2. QED
    BY <2>1
<1>17. ASSUME NEW i \in 1..k
       PROVE  (/\ stack[i].node \in live \ manualDelete
               /\ stack[i].node \in Kids(Above(i))
               /\ Len(stack[i].got) <= Len(Sides(stack[i].node))
               /\ i < k + 1 => Len(stack[i].got) < Len(Sides(stack[i].node)))'
  <2>1. PICK b \in Addresses : b = stack[i].node
    BY <1>13 DEF IInv, TypeInv, TypeOK
  <2>2. PICK a : a = Above(i)
    OBVIOUS
  <2>3. stack'[i].node = b /\ stack'[i].got = stack[i].got /\ Above(i)' = a
    BY <1>12, <1>15, <2>1, <2>2
  <2>4. Kids(a)' = Kids(a) /\ Sides(b)' = Sides(b)
    BY <1>14
  <2>5. b \in live' \ manualDelete' /\ b \in Kids(a)
    BY <1>2, <1>13, <2>1, <2>2
  <2>6. Len(stack[i].got) < Len(Sides(b)) /\ Len(stack[i].got) <= Len(Sides(b))
    <3>1. CASE i = k
      BY <1>5, <1>6, <1>7, <1>13, <2>1, <3>1
    <3>2. CASE i # k
      <4>1. i < k
        BY <1>5, <3>2
      <4>2. QED
        BY <1>13, <2>1, <4>1
    <3>3. QED
      BY <3>1, <3>2
  <2>7. QED
    BY <2>3, <2>4, <2>5, <2>6
<1>18. (/\ stack[k + 1].node \in live \ manualDelete
        /\ stack[k + 1].node \in Kids(Above(k + 1))
        /\ Len(stack[k + 1].got) <= Len(Sides(stack[k + 1].node)))'
  <2>1. stack'[k + 1].node = c /\ stack'[k + 1].got = <<>> /\ stack'[k].node = n
    BY <1>5, <1>10, <1>12
  <2>2. (k + 1) - 1 = k /\ k + 1 # 1
    BY <1>5
  <2>3. Above(k + 1)' = n
    BY <2>1, <2>2 DEF Above
  <2>4. Kids(n)' = Kids(n) /\ Len(Sides(c)') \in Nat /\ Len(stack'[k + 1].got) = 0
    <3>1. Sides(c)' \in {<<>>, <<"left">>, <<"right">>, <<"left", "right">>, <<"right", "left">>}
      BY DEF Sides
    <3>2. QED
      BY <1>14, <2>1, <3>1
  <2>5. Len(stack'[k + 1].got) <= Len(Sides(stack[k + 1].node)')
    BY <2>1, <2>4
  <2>6. QED
    BY <1>2, <1>8, <1>9, <2>1, <2>3, <2>4, <2>5
<1>19. CallInv'
  <2>1. (left[root] # NULL)' /\ phase' \in {"compute", "collapse"}
    BY <1>1, <1>2 DEF IInv, CallInv
  <2>2. \A i \in 1..(k + 1) : i \in 1..k \/ i = k + 1
    BY <1>5
  <2>3. ~ (k + 1 < k + 1) /\ ((k + 1) + 1)..(k + 1) = {}
    BY <1>5
  <2>4. ASSUME NEW i \in 1..(k + 1)
        PROVE  (/\ stack[i].node \in live \ manualDelete
                /\ stack[i].node \in Kids(Above(i))
                /\ Len(stack[i].got) <= Len(Sides(stack[i].node))
                /\ i < k + 1 => Len(stack[i].got) < Len(Sides(stack[i].node))
                /\ \A j \in (i + 1)..(k + 1) :
                     IsConstant(stack[j].node) \/ Extends(stack[j].node, stack[i].node))'
    <3>1. CASE i \in 1..k
      BY <1>16, <1>17, <3>1
    <3>2. CASE i = k + 1
      BY <1>18, <2>3, <3>2
    <3>3. QED
      BY <2>2, <3>1, <3>2
  <2>5. QED
    BY <1>12, <2>1, <2>4 DEF CallInv
<1>20. TypeInv'
  <2>1. /\ index \in 0..(Len(registered) + 1) /\ index' = index
        /\ changed \in BOOLEAN /\ changed' = changed
    BY <1>1 DEF IInv, TypeInv, TypeOK
  <2>2. phase' \in Phases /\ live' \subseteq live
    BY <1>1, <1>2 DEF Phases
  <2>3. stack' \in Seq([node : Addresses, got : Seq(IF phase' = "compute" THEN Number ELSE {NULL})])
    BY <1>1, <1>12 DEF frames, Results
  <2>4. TypeInv
    BY DEF IInv
  <2>5. QED
    BY <1>1, <2>1, <2>2, <2>3, <2>4, TypesKept
<1>21. AddressInv' /\ ShapeInv' /\ BufferInv' /\ ForestInv'
  BY <1>1, HeapKept DEF IInv
<1>22. ReportInv'
  BY <1>1 DEF IInv, ReportInv
<1>23. QED
  BY <1>19, <1>20, <1>21, <1>22 DEF IInv

(* A call that changes nothing returns.                                         *)
LEMMA ReturnKeepsInv ==
  ASSUME IInv, ComputeLeaf \/ ComputeUnknown \/ CollapseNothing
  PROVE  IInv'
<1>1. /\ phase \in {"compute", "collapse"} /\ stack # <<>>
      /\ UNCHANGED <<root, fields, live, manualDelete, registered, order, phase, changed, index>>
  BY DEF ComputeLeaf, ComputeUnknown, CollapseNothing, Running
<1>2. PICK result \in Results : Return(result)
  <2>1. CASE ComputeLeaf
    <3>1. Results = Number /\ Return(IF kind[Current] = "NUMERIC_NODE" THEN value[Current] ELSE NaN)
      BY <2>1 DEF ComputeLeaf, Running, Results
    <3>2. (IF kind[Current] = "NUMERIC_NODE" THEN value[Current] ELSE NaN) \in Number
      BY <1>1, CurrentIs, NumberAssumption DEF IInv, TypeInv
    <3>3. QED
      BY <3>1, <3>2
  <2>2. CASE ComputeUnknown
    <3>1. Results = Number /\ Return(NaN) /\ NaN \in Number
      BY <2>2, NumberAssumption DEF ComputeUnknown, Running, Results
    <3>2. QED
      BY <3>1
  <2>3. CASE CollapseNothing
    <3>1. Results = {NULL} /\ Return(NULL)
      BY <2>3 DEF CollapseNothing, Running, Results
    <3>2. QED
      BY <3>1
  <2>4. QED
    BY <2>1, <2>2, <2>3
<1>3. /\ root' = root /\ kind' = kind /\ left' = left /\ right' = right
      /\ live' = live /\ manualDelete' = manualDelete /\ order' = order /\ phase' = phase
  BY <1>1 DEF fields
<1>4. CallInv'
  <2>1. ASSUME NEW i \in 1..(Len(stack) - 1)
        PROVE  /\ stack[i].node \in live' \ manualDelete'
               /\ stack[i].node \in {left'[Above(i)], right'[Above(i)]} \ {NULL}
    <3>1. i \in 1..Len(stack)
      BY <1>1, CallsInTree
    <3>2. stack[i].node \in live \ manualDelete /\ stack[i].node \in Kids(Above(i))
      BY <1>1, <3>1, CallsInTree
    <3>3. QED
      BY <1>3, <3>2 DEF Kids
  <2>2. QED
    BY <1>1, <1>2, <1>3, <2>1, ReturnKeepsCalls
<1>5. TypeInv'
  <2>1. /\ index \in 0..(Len(registered) + 1) /\ index' = index
        /\ changed \in BOOLEAN /\ changed' = changed
    BY <1>1 DEF IInv, TypeInv, TypeOK
  <2>2. phase' \in Phases /\ live' \subseteq live
    BY <1>1, <1>3 DEF Phases
  <2>3. stack' \in Seq([node : Addresses, got : Seq(IF phase' = "compute" THEN Number ELSE {NULL})])
    BY <1>1, <1>2, <1>3, ReturnIs DEF Results
  <2>4. TypeInv
    BY DEF IInv
  <2>5. QED
    BY <1>1, <2>1, <2>2, <2>3, <2>4, TypesKept
<1>6. AddressInv' /\ ShapeInv' /\ BufferInv' /\ ForestInv'
  BY <1>1, HeapKept DEF IInv
<1>7. ReportInv'
  BY <1>1 DEF IInv, ReportInv
<1>8. QED
  BY <1>4, <1>5, <1>6, <1>7 DEF IInv

(* What the table of neutral elements says of a node one of them applies to.        *)
LEMMA NeutralIs ==
  ASSUME TypeInv, ShapeInv, AddressInv, NEW n \in Addresses, Neutral(n) # NULL
  PROVE  /\ Neutral(n).result \in {NULL, Zero, One}
         /\ Neutral(n).other \in Kids(n)
         /\ \E i \in DOMAIN NeutralElements(kind[n]), s \in Both :
              /\ IsNeutral(NeutralElements(kind[n])[i], n, s)
              /\ Neutral(n).result = NeutralElements(kind[n])[i].result
              /\ Neutral(n).other = Child(n, IF s = "left" THEN "right" ELSE "left")
<1> DEFINE elements == NeutralElements(kind[n])
           matches == {i \in DOMAIN elements : \E side \in Both : IsNeutral(elements[i], n, side)}
           first == CHOOSE i \in matches : \A j \in matches : i <= j
           side == IF IsNeutral(elements[first], n, "left") THEN "left" ELSE "right"
<1>1. /\ DOMAIN elements \subseteq Nat
      /\ \A i \in DOMAIN elements : elements[i].result \in {NULL, Zero, One}
      /\ DOMAIN elements # {} => kind[n] \in BinaryOps
  <2>1. CASE kind[n] \in {"ADD", "SUB"}
    BY <2>1 DEF NeutralElements, BinaryOps
  <2>2. CASE kind[n] = "MUL"
    BY <2>2 DEF NeutralElements, BinaryOps
  <2>3. CASE kind[n] = "DIV"
    BY <2>3 DEF NeutralElements, BinaryOps
  <2>4. CASE kind[n] = "POW"
    BY <2>4 DEF NeutralElements, BinaryOps
  <2>5. CASE kind[n] \notin {"ADD", "SUB", "MUL", "DIV", "POW"}
    <3>1. elements = <<>>
      BY <2>5 DEF NeutralElements
    <3>2. QED
      BY <3>1
  <2>6. QED
    BY <2>1, <2>2, <2>3, <2>4, <2>5
<1>2. Neutral(n) = IF matches = {} THEN NULL
                   ELSE [result |-> elements[first].result,
                         other  |-> Child(n, IF side = "left" THEN "right" ELSE "left")]
  BY DEF Neutral
<1>3. matches # {} /\ matches \subseteq DOMAIN elements
  BY <1>2
<1>4. first \in matches
  <2>1. \E i \in matches : \A j \in matches : i <= j
    <3>1. matches \subseteq Nat
      BY <1>1, <1>3
    <3> HIDE DEF matches
    <3>2. QED
      BY <1>3, <3>1, SmallestNat
  <2> HIDE DEF matches
  <2>2. QED
    BY <2>1
<1>5. side \in Both /\ IsNeutral(elements[first], n, side)
  BY <1>4 DEF Both
<1> HIDE DEF elements, matches, first, side
<1>6. /\ Neutral(n).result = elements[first].result
      /\ Neutral(n).other = Child(n, IF side = "left" THEN "right" ELSE "left")
      /\ Neutral(n).other \in {Child(n, "left"), Child(n, "right")}
  BY <1>2, <1>3
<1>7. left[n] # NULL /\ right[n] # NULL
  BY <1>1, <1>3 DEF ShapeInv
<1>8. \E i \in DOMAIN elements, s \in Both :
        /\ IsNeutral(elements[i], n, s)
        /\ Neutral(n).result = elements[i].result
        /\ Neutral(n).other = Child(n, IF s = "left" THEN "right" ELSE "left")
  BY <1>3, <1>4, <1>6, <1>5
<1>9. Neutral(n).result \in {NULL, Zero, One} /\ Neutral(n).other \in Kids(n)
  BY <1>1, <1>3, <1>4, <1>6, <1>7 DEF Child, Kids
<1>10. QED
  BY <1>8, <1>9 DEF elements

(* The node of the innermost call, once its children are visited, can be replaced.   *)
LEMMA CurrentReplaced ==
  ASSUME IInv, stack # <<>>, IsOperation(Current), NEW n, n = Current, NEW p, p = parent[n],
         NEW new, new = Fresh(n) \/ new \in Kids(n)
  PROVE  /\ Replaced(n, p, new) /\ n \in Addresses /\ Fresh(n) \in Addresses
         /\ kind[n] \in BinaryOps \cup FunctionOps \cup {"EQUALS"}
         /\ Subtree[Fresh(n)] = {Fresh(n)}
         /\ IsConstant(Fresh(n)) /\ kind[Fresh(n)] = "NUMERIC_NODE"
<1>1. /\ n \in live \ manualDelete /\ n \in Addresses /\ n # root /\ ~IsConstant(n)
      /\ n \in Kids(p) /\ p \in live \ manualDelete
      /\ kind[n] \in BinaryOps \cup FunctionOps \cup {"EQUALS"}
  BY CurrentIs
<1>2. Replaced(n, p, new)
  BY <1>1 DEF Replaced
<1>3. Fresh(n) \in Addresses /\ n \in Seq({1, 2})
  BY <1>1 DEF IInv, AddressInv
<1>4. IsConstant(Fresh(n))
  BY <1>3, FreshIs
<1>5. kind[Fresh(n)] = "NUMERIC_NODE" /\ Kids(Fresh(n)) = {}
  BY <1>3, <1>4 DEF IInv, AddressInv, Kids
<1>6. Subtree[Fresh(n)] = {Fresh(n)}
  <2> DEFINE K == {Fresh(n)}
  <2>1. \A a \in Addresses \cap K : Kids(a) \subseteq K
    BY <1>5
  <2>2. Subtree[Fresh(n)] \subseteq K /\ Fresh(n) \in Subtree[Fresh(n)]
    <3>1. Fresh(n) \in Addresses \cap K
      BY <1>3
    <3> HIDE DEF K
    <3>2. QED
      BY <1>3, <2>1, <3>1, SubtreeWithin, SubtreeIs DEF IInv
  <2>3. QED
    BY <2>2
<1>7. QED
  BY <1>1, <1>2, <1>3, <1>4, <1>5, <1>6

(* The number a call got for a child.                                            *)
LEMMA GotIs ==
  ASSUME IInv, stack # <<>>, phase = "compute", AllVisited
  PROVE  \A side : Got(side) \in Number
<1>1. Top.got \in Seq(Number)
  BY CurrentIs DEF Results
<1>2. ASSUME NEW side
      PROVE  Got(side) \in Number
  <2>1. CASE \E i \in DOMAIN Sides(Current) : Sides(Current)[i] = side
    <3>1. PICK i : i = CHOOSE j \in DOMAIN Sides(Current) : Sides(Current)[j] = side
      OBVIOUS
    <3>2. i \in DOMAIN Sides(Current) /\ Got(side) = Top.got[i]
      BY <2>1, <3>1 DEF Got
    <3>3. Sides(Current) \in Seq({"left", "right"})
      BY CurrentIs, SidesAre DEF IInv
    <3>4. i \in 1..Len(Top.got)
      BY <3>2, <3>3 DEF AllVisited
    <3>5. QED
      BY <1>1, <3>2, <3>4
  <2>2. CASE ~ \E i \in DOMAIN Sides(Current) : Sides(Current)[i] = side
    BY <2>2, NumberAssumption DEF Got
  <2>3. QED
    BY <2>1, <2>2
<1>3. QED
  BY <1>2

(* The steps that replace the node of the innermost call: how, and by what.         *)
GivesWay(new, result) ==
  /\ stack # <<>> /\ IsOperation(Current)
  /\ Replaced(Current, parent[Current], new) /\ Detaches(Current, parent[Current], new)
  /\ result \in Results /\ Return(result)
  /\ phase' = phase /\ order' = order /\ index' = index /\ changed' = TRUE
  /\ value' \in [Addresses -> Number \cup Variables]
  /\ \A a \in Addresses : kind[a] = "NUMERIC_NODE" => value'[a] \in Number
  /\ \A a \in live : value'[a] = value[a]

LEMMA GivesWayKeepsInv ==
  ASSUME IInv, NEW new, NEW result, GivesWay(new, result)
  PROVE  IInv'
<1>1. PICK n : n = Current
  OBVIOUS
<1>2. PICK p : p = parent[n]
  OBVIOUS
<1>3. QED
  BY <1>1, <1>2, DetachKeepsInv DEF GivesWay

(* A node whose value is a number gives way to it.                                *)
LEMMA FoldIs ==
  ASSUME IInv, ComputeFold
  PROVE  \E v \in Evaluate(kind[Current], Got("left"), Got("right")) \ {NaN} :
           GivesWay(Fresh(Current), v) /\ value'[Fresh(Current)] = v
<1>1. /\ phase = "compute" /\ stack # <<>> /\ IsOperation(Current) /\ AllVisited
      /\ DestroyIfNotReassignment(Current, {Fresh(Current)})
      /\ Replace(Current, Fresh(Current)) /\ changed' = TRUE
      /\ UNCHANGED <<root, kind, parent, registered, order, phase, index>>
  BY DEF ComputeFold, Running
<1>2. PICK v \in Evaluate(kind[Current], Got("left"), Got("right")) \ {NaN} :
        value' = [value EXCEPT ![Fresh(Current)] = v] /\ Return(v)
  BY DEF ComputeFold
<1>3. PICK n : n = Current
  OBVIOUS
<1>4. PICK p : p = parent[n]
  OBVIOUS
<1>5. PICK const : const = Fresh(n)
  OBVIOUS
<1>6. /\ Replaced(n, p, const) /\ n \in Addresses /\ const \in Addresses
      /\ kind[n] \in BinaryOps \cup FunctionOps \cup {"EQUALS"}
      /\ Subtree[const] = {const} /\ kind[const] = "NUMERIC_NODE"
  BY <1>1, <1>3, <1>4, <1>5, CurrentReplaced
<1>7. v \in Results
  <2>1. Got("left") \in Number /\ Got("right") \in Number
    BY <1>1, GotIs
  <2>2. Evaluate(kind[n], Got("left"), Got("right")) \subseteq Number
    BY <1>6, <2>1, EvaluateAssumption
  <2>3. QED
    BY <1>1, <1>2, <1>3, <2>2 DEF Results
<1>8. Detaches(n, p, const)
  <2>1. Replace(n, const)
    BY <1>1, <1>3, <1>5
  <2>2. IF n \in Reassigned
        THEN manualDelete' = manualDelete \cup {n} /\ live' = live \cup {const}
        ELSE manualDelete' = manualDelete /\ live' = (live \ Subtree[n]) \cup {const}
    BY <1>1, <1>3, <1>5 DEF DestroyIfNotReassignment
  <2>3. kind' = kind /\ root' = root /\ registered' = registered /\ parent' = parent
    BY <1>1
  <2>4. QED
    BY <1>5, <1>6, <2>1, <2>2, <2>3 DEF Detaches
<1>9. v \in Number /\ value' = [value EXCEPT ![const] = v]
  BY <1>1, <1>2, <1>3, <1>5, <1>7 DEF Results
<1>10. /\ value' \in [Addresses -> Number \cup Variables]
       /\ \A a \in Addresses : kind[a] = "NUMERIC_NODE" => value'[a] \in Number
  <2>1. /\ value \in [Addresses -> Number \cup Variables]
        /\ \A a \in Addresses : kind[a] = "NUMERIC_NODE" => value[a] \in Number
    BY DEF IInv, TypeInv, TypeOK
  <2>2. QED
    BY <1>9, <2>1
<1>11. const \notin live /\ value'[const] = v /\ \A a \in live : value'[a] = value[a]
  <2>1. const \notin live
    BY <1>5, <1>6 DEF Replaced, IInv, ForestInv, NotYet
  <2>2. value \in [Addresses -> Number \cup Variables] /\ live \subseteq Addresses
    BY DEF IInv, TypeInv, TypeOK
  <2>3. QED
    BY <1>6, <1>9, <2>1, <2>2
<1>12. GivesWay(const, v)
  BY <1>1, <1>2, <1>3, <1>4, <1>6, <1>7, <1>8, <1>10, <1>11 DEF GivesWay
<1>13. QED
  BY <1>2, <1>3, <1>5, <1>11, <1>12

(* A node that is a constant whatever its other child is gives way to the constant.  *)
LEMMA ToConstantIs ==
  ASSUME IInv, CollapseToConstant
  PROVE  GivesWay(Fresh(Current), NULL) /\ value'[Fresh(Current)] = Neutral(Current).result
<1>1. /\ phase = "collapse" /\ stack # <<>> /\ IsOperation(Current)
      /\ Neutral(Current) # NULL /\ Neutral(Current).result # NULL
      /\ DestroyIfNotReassignment(Current, {Fresh(Current)})
      /\ Replace(Current, Fresh(Current)) /\ changed' = TRUE /\ Return(NULL)
      /\ value'  = [value EXCEPT ![Fresh(Current)] = Neutral(Current).result]
      /\ parent' = [parent EXCEPT ![Fresh(Current)] = parent[Current]]
      /\ UNCHANGED <<root, kind, registered, order, phase, index>>
  BY DEF CollapseToConstant, Running
<1>2. PICK n : n = Current
  OBVIOUS
<1>3. PICK p : p = parent[n]
  OBVIOUS
<1>4. PICK const : const = Fresh(n)
  OBVIOUS
<1>5. /\ Replaced(n, p, const) /\ n \in Addresses /\ const \in Addresses
      /\ Subtree[const] = {const} /\ kind[const] = "NUMERIC_NODE"
  BY <1>1, <1>2, <1>3, <1>4, CurrentReplaced
<1>6. NULL \in Results
  BY <1>1 DEF Results
<1>7. Detaches(n, p, const)
  <2>1. Replace(n, const)
    BY <1>1, <1>2, <1>4
  <2>2. IF n \in Reassigned
        THEN manualDelete' = manualDelete \cup {n} /\ live' = live \cup {const}
        ELSE manualDelete' = manualDelete /\ live' = (live \ Subtree[n]) \cup {const}
    BY <1>1, <1>2, <1>4 DEF DestroyIfNotReassignment
  <2>3. /\ kind' = kind /\ root' = root /\ registered' = registered
        /\ parent' = [parent EXCEPT ![const] = p]
    BY <1>1, <1>2, <1>3, <1>4
  <2>4. QED
    BY <1>4, <1>5, <2>1, <2>2, <2>3 DEF Detaches
<1>8. /\ Neutral(n).result \in Number
      /\ value' = [value EXCEPT ![const] = Neutral(n).result]
  BY <1>1, <1>2, <1>4, <1>5, NeutralIs, NumberAssumption DEF IInv
<1>9. /\ value' \in [Addresses -> Number \cup Variables]
      /\ \A a \in Addresses : kind[a] = "NUMERIC_NODE" => value'[a] \in Number
  <2>1. /\ value \in [Addresses -> Number \cup Variables]
        /\ \A a \in Addresses : kind[a] = "NUMERIC_NODE" => value[a] \in Number
    BY DEF IInv, TypeInv, TypeOK
  <2>2. QED
    BY <1>8, <2>1
<1>10. const \notin live /\ value'[const] = Neutral(n).result /\ \A a \in live : value'[a] = value[a]
  <2>1. const \notin live
    BY <1>4, <1>5 DEF Replaced, IInv, ForestInv, NotYet
  <2>2. value \in [Addresses -> Number \cup Variables] /\ live \subseteq Addresses
    BY DEF IInv, TypeInv, TypeOK
  <2>3. QED
    BY <1>5, <1>8, <2>1, <2>2
<1>11. GivesWay(const, NULL)
  BY <1>1, <1>2, <1>3, <1>5, <1>6, <1>7, <1>9, <1>10 DEF GivesWay
<1>12. QED
  BY <1>2, <1>4, <1>10, <1>11

(* A node with a neutral operand gives way to the other one.                       *)
LEMMA ToChildIs ==
  ASSUME IInv, CollapseToChild
  PROVE  GivesWay(Neutral(Current).other, NULL)
<1>1. /\ phase = "collapse" /\ stack # <<>> /\ IsOperation(Current)
      /\ Neutral(Current) # NULL
      /\ changed' = TRUE /\ Return(NULL)
      /\ UNCHANGED <<root, kind, value, registered, order, phase, index>>
  BY DEF CollapseToChild, Running
<1>2. PICK n : n = Current
  OBVIOUS
<1>3. PICK p : p = parent[n]
  OBVIOUS
<1>4. PICK child : child = Neutral(n).other
  OBVIOUS
<1>5. /\ Replace(n, child)
      /\ parent' = [parent EXCEPT ![child] = p]
      /\ IF n \in Reassigned
         THEN manualDelete' = manualDelete \cup {n} /\ live' = live
         ELSE live' = live \ ({n} \cup (Subtree[n] \ Subtree[child])) /\ manualDelete' = manualDelete
  BY <1>2, <1>3, <1>4 DEF CollapseToChild
<1>6. n \in Addresses
  BY <1>1, <1>2, CurrentIs
<1>7. child \in Kids(n)
  BY <1>1, <1>2, <1>4, <1>6, NeutralIs DEF IInv
<1>8. Replaced(n, p, child)
  BY <1>1, <1>2, <1>3, <1>7, CurrentReplaced
<1>9. /\ child \in live /\ Subtree[child] \subseteq live /\ n \notin Subtree[child]
      /\ n \in Subtree[n]
  <2>1. HeapInv
    BY DEF IInv, HeapInv
  <2>2. child # Fresh(n)
    <3>1. Fresh(n) \notin live
      <4>1. n \in live \ manualDelete /\ ~IsConstant(n)
        BY <1>8 DEF Replaced
      <4>2. QED
        BY <4>1 DEF IInv, ForestInv, NotYet
    <3>2. child \in live
      BY <1>7, <1>8 DEF Replaced, IInv, ForestInv, OwnedLive, Mine
    <3>3. QED
      BY <3>1, <3>2
  <2>3. child \in live /\ Subtree[child] \subseteq live \cup {child} /\ n \notin Subtree[child]
    BY <1>8, <2>1, <2>2, ReplacedIs
  <2>4. n \in Subtree[n]
    BY <1>6, <2>1, SubtreeIs DEF HeapInv
  <2>5. QED
    BY <2>3, <2>4
<1>10. Detaches(n, p, child)
  BY <1>1, <1>5, <1>9 DEF Detaches
<1>11. /\ value' \in [Addresses -> Number \cup Variables]
       /\ \A a \in Addresses : kind[a] = "NUMERIC_NODE" => value'[a] \in Number
  BY <1>1 DEF IInv, TypeInv, TypeOK
<1>12. NULL \in Results
  BY <1>1 DEF Results
<1>13. GivesWay(child, NULL)
  BY <1>1, <1>2, <1>3, <1>8, <1>10, <1>11, <1>12 DEF GivesWay
<1>14. QED
  BY <1>2, <1>4, <1>13

(* Whatever the report prints below a node, it reads the node.                     *)
LEMMA PrintedIs ==
  ASSUME TypeInv, AddressInv, ShapeInv
  PROVE  \A n \in Addresses : n \in Printed[n]
<1> DEFINE Reads(f, n) ==
             {n} \cup
             IF ~IsOperation(n) \/ n \notin live THEN {}
             ELSE ({parent[n]} \ {NULL}) \cup
                  UNION {IF c \in Reassigned THEN {c} ELSE f[c]
                           : c \in {left[n], right[n]} \ {NULL}}
           F(f) == f = [n \in Addresses |-> Reads(f, n)]
           printed == CHOOSE f : F(f)
           all == Addresses \cup {parent[n] : n \in Addresses}
           values == SUBSET all
           (* What is read of a child that is not there is not looked at.          *)
           step == [t \in Addresses \X values \X values |->
                      {t[1]} \cup
                      IF ~IsOperation(t[1]) \/ t[1] \notin live THEN {}
                      ELSE ({parent[t[1]]} \ {NULL}) \cup
                           (IF left[t[1]] = NULL THEN {}
                            ELSE IF left[t[1]] \in Reassigned THEN {left[t[1]]} ELSE t[2]) \cup
                           (IF right[t[1]] = NULL THEN {}
                            ELSE IF right[t[1]] \in Reassigned THEN {right[t[1]]} ELSE t[3])]
<1>1. PICK top \in Nat : \E rank \in [Addresses -> 0..top] : R!Ranked(Heap, rank, top)
  BY HeapIs
<1>2. PICK rank \in [Addresses -> 0..top] : R!Ranked(Heap, rank, top)
  BY <1>1
<1>3. /\ Heap.left = left /\ Heap.right = right /\ DOMAIN Heap.left = Addresses
      /\ \A n \in Addresses : left[n] \in Addresses \cup {NULL} /\ right[n] \in Addresses \cup {NULL}
  BY HeapIs DEF TypeInv, TypeOK, Links
<1>4. step \in [Addresses \X values \X values -> values]
  <2>1. ASSUME NEW t \in Addresses \X values \X values
        PROVE  ({t[1]} \cup
                IF ~IsOperation(t[1]) \/ t[1] \notin live THEN {}
                ELSE ({parent[t[1]]} \ {NULL}) \cup
                     (IF left[t[1]] = NULL THEN {}
                      ELSE IF left[t[1]] \in Reassigned THEN {left[t[1]]} ELSE t[2]) \cup
                     (IF right[t[1]] = NULL THEN {}
                      ELSE IF right[t[1]] \in Reassigned THEN {right[t[1]]} ELSE t[3])) \in values
    <3>1. t[1] \in Addresses /\ t[2] \in values /\ t[3] \in values
      OBVIOUS
    <3>2. /\ left[t[1]] # NULL => left[t[1]] \in all
          /\ right[t[1]] # NULL => right[t[1]] \in all
          /\ parent[t[1]] \in all /\ t[1] \in all
      BY <1>3, <3>1
    <3>3. QED
      BY <3>1, <3>2
  <2>2. QED
    BY <2>1
<1>5. PICK f : R!Computes(Heap, values, step, {}, f)
  <2> HIDE DEF step, values
  <2>1. {} \in values
    BY DEF values
  <2>2. QED
    BY <1>2, <1>3, <1>4, <2>1, R!TreeRecursion
<1>6. /\ f \in [Addresses -> values]
      /\ \A n \in Addresses :
           f[n] = step[<<n, R!Of(f, {}, left[n]), R!Of(f, {}, right[n])>>]
  BY <1>3, <1>5 DEF R!Computes
<1>7. ASSUME NEW n \in Addresses
      PROVE  f[n] = Reads(f, n)
  <2>1. /\ R!Of(f, {}, left[n]) \in values /\ R!Of(f, {}, right[n]) \in values
        /\ left[n]  # NULL => R!Of(f, {}, left[n])  = f[left[n]]
        /\ right[n] # NULL => R!Of(f, {}, right[n]) = f[right[n]]
    BY <1>3, <1>6 DEF R!Of
  <2>2. PICK l \in values : l = R!Of(f, {}, left[n])
    BY <2>1
  <2>3. PICK r \in values : r = R!Of(f, {}, right[n])
    BY <2>1
  <2>4. <<n, l, r>> \in Addresses \X values \X values
    OBVIOUS
  <2>5. step[<<n, l, r>>] =
          {n} \cup
          IF ~IsOperation(n) \/ n \notin live THEN {}
          ELSE ({parent[n]} \ {NULL}) \cup
               (IF left[n] = NULL THEN {}
                ELSE IF left[n] \in Reassigned THEN {left[n]} ELSE l) \cup
               (IF right[n] = NULL THEN {}
                ELSE IF right[n] \in Reassigned THEN {right[n]} ELSE r)
    BY <2>4
  <2>6. UNION {IF c \in Reassigned THEN {c} ELSE f[c] : c \in {left[n], right[n]} \ {NULL}} =
          (IF left[n] = NULL THEN {}
           ELSE IF left[n] \in Reassigned THEN {left[n]} ELSE f[left[n]]) \cup
          (IF right[n] = NULL THEN {}
           ELSE IF right[n] \in Reassigned THEN {right[n]} ELSE f[right[n]])
    OBVIOUS
  <2>7. f[n] = step[<<n, l, r>>]
    BY <1>6, <2>2, <2>3
  <2> HIDE DEF step
  <2>8. QED
    BY <2>1, <2>2, <2>3, <2>5, <2>6, <2>7
<1>8. F(f)
  <2>1. f = [n \in Addresses |-> f[n]]
    BY <1>6
  <2> HIDE DEF Reads
  <2>2. QED
    BY <1>7, <2>1
<1>9. Printed = printed
  BY DEF Printed
<1>10. F(printed)
  BY ZenonT(40), <1>8
<1>11. \A n \in Addresses : printed[n] = Reads(printed, n)
  <2> HIDE DEF printed, Reads
  <2>1. QED
    BY <1>10
<1>12. QED
  BY <1>9, <1>11

(* Printing changes nothing but its place.                                      *)
LEMMA WriteKeepsInv ==
  ASSUME IInv, WriteExpression
  PROVE  IInv'
<1>1. /\ phase = "print" /\ phase' \in {"print", "delete"} /\ Touched \subseteq live
      /\ IF index < Len(registered)
         THEN index' = index + 1 /\ phase' = phase
         ELSE index' = 1 /\ phase' = "delete"
      /\ UNCHANGED <<root, fields, live, manualDelete, registered, order, stack, changed>>
  BY DEF WriteExpression, Sound
<1>2. stack = <<>>
  BY <1>1 DEF IInv, CallInv
<1>3. PICK l \in Nat : l = Len(registered) /\ DOMAIN registered = 1..l
  BY DEF IInv, TypeInv, TypeOK
<1>4. index \in 0..(l + 1) /\ index <= l /\ index \in Nat
  <2>1. index \in 0..(l + 1) /\ index <= l
    BY <1>1, <1>3 DEF IInv, TypeInv, TypeOK, ReportInv
  <2>2. QED
    BY <2>1
<1>5. index # 0 => registered[index] \in live
  <2>1. CASE index = 0
    BY <2>1
  <2>2. CASE index # 0
    <3>1. index \in 1..l
      BY <1>4, <2>2
    <3>2. registered[index] \in Addresses
      BY <1>3, <3>1 DEF IInv, TypeInv, TypeOK
    <3>3. registered[index] \in Printed[registered[index]]
      BY <3>2, PrintedIs DEF IInv
    <3>4. Touched = Printed[registered[index]]
      BY <1>1, <1>3, <1>4, <2>2 DEF Touched
    <3>5. QED
      BY <1>1, <3>3, <3>4
  <2>3. QED
    BY <2>1, <2>2
<1>6. \A j \in 1..index : registered[j] \in live
  <2>1. \A j \in 1..(index - 1) : registered[j] \in live
    BY <1>1 DEF IInv, ReportInv
  <2>2. \A j \in 1..index : j \in 1..(index - 1) \/ j = index
    BY <1>4
  <2>3. QED
    BY <1>4, <1>5, <2>1, <2>2
<1>7. ReportInv'
  <2>1. /\ live' = live /\ manualDelete' = manualDelete /\ registered' = registered
    BY <1>1
  <2>2. CASE index < l
    <3>1. phase' = "print" /\ index' = index + 1 /\ index' - 1 = index /\ index' <= l
      BY <1>1, <1>3, <1>4, <2>2
    <3>2. QED
      BY <1>3, <1>6, <2>1, <3>1 DEF ReportInv
  <2>3. CASE ~ (index < l)
    <3>1. phase' = "delete" /\ index' = 1 /\ index = l
      BY <1>1, <1>3, <1>4, <2>3
    <3>2. \A n \in manualDelete : \E j \in 1..l : n = registered[j]
      BY <1>3 DEF IInv, TypeInv, TypeOK, Reassigned
    <3>3. QED
      BY <1>3, <1>6, <2>1, <3>1, <3>2 DEF ReportInv
  <2>4. QED
    BY <2>2, <2>3
<1>8. TypeInv'
  <2>1. index' \in 0..(Len(registered) + 1)
    BY <1>1, <1>3, <1>4
  <2>2. changed \in BOOLEAN /\ changed' = changed
    BY <1>1 DEF IInv, TypeInv, TypeOK
  <2>3. phase' \in Phases /\ live' \subseteq live
    BY <1>1 DEF Phases
  <2>4. stack' \in Seq([node : Addresses, got : Seq(IF phase' = "compute" THEN Number ELSE {NULL})])
    BY <1>1, <1>2, R!ShortSequences
  <2>5. TypeInv
    BY DEF IInv
  <2>6. QED
    BY <1>1, <2>1, <2>2, <2>3, <2>4, <2>5, TypesKept
<1>9. CallInv'
  <2>1. stack' = <<>> /\ phase' \notin {"compute", "collapse"} /\ DOMAIN stack' = {}
    BY <1>1, <1>2
  <2>2. QED
    BY <2>1 DEF CallInv
<1>10. AddressInv' /\ ShapeInv' /\ BufferInv' /\ ForestInv'
  BY <1>1, HeapKept DEF IInv
<1>11. QED
  BY <1>7, <1>8, <1>9, <1>10 DEF IInv

(* Freeing whole trees keeps the forest a forest.                               *)
LEMMA FreeKeepsForest ==
  ASSUME HeapInv, NEW freed, live' = live \ freed, UNCHANGED <<root, fields, manualDelete, registered>>,
         \A a \in live \ freed : Mine(a) \cap freed = {},
         \A a \in live \cap freed : Mine(a) \subseteq freed,
         root \notin freed \/ phase' = "done", phase # "done"
  PROVE  AddressInv' /\ ShapeInv' /\ BufferInv' /\ ForestInv'
<1>1. /\ root' = root /\ kind' = kind /\ left' = left /\ right' = right /\ parent' = parent
      /\ manualDelete' = manualDelete /\ registered' = registered
  BY DEF fields
<1>2. Addresses' = Addresses /\ \A a : Kids(a)' = Kids(a) /\ Mine(a)' = Mine(a)
  BY <1>1 DEF Addresses, Kids, Mine, Owned
<1>3. AddressInv' /\ ShapeInv' /\ BufferInv'
  BY <1>1, <1>2 DEF HeapInv, AddressInv, ShapeInv, BufferInv
<1>4. OwnedLive' /\ OneOwner' /\ TopsFree' /\ ParentIs' /\ NotYet'
  BY <1>1, <1>2 DEF HeapInv, ForestInv, OwnedLive, OneOwner, TopsFree, ParentIs, NotYet
<1>5. HasOwner'
  <2>1. ASSUME NEW n \in live', ~IsConstant(n), n # root, n \notin manualDelete
        PROVE  parent[n] \in live' /\ n \in Mine(parent[n])
    <3>1. n \in live /\ n \notin freed
      OBVIOUS
    <3>2. parent[n] \in live /\ n \in Mine(parent[n])
      BY <2>1, <3>1 DEF HeapInv, ForestInv, HasOwner
    <3>3. QED
      BY <3>1, <3>2
  <2>2. ASSUME NEW n \in live', ~IsConstant(n), n # root, n \notin manualDelete
        PROVE  (n \in Mine(parent[n]))'
    <3>1. PICK p : p = parent[n]
      OBVIOUS
    <3>2. n \in Mine(p) /\ parent'[n] = p
      BY <1>1, <2>1, <2>2, <3>1
    <3>3. Mine(p)' = Mine(p)
      BY <1>2
    <3>4. QED
      BY <3>2, <3>3
  <2>3. QED
    BY <1>1, <2>1, <2>2 DEF HasOwner
<1>6. root' \notin manualDelete' /\ (phase' # "done" => root' \in live')
  BY <1>1 DEF HeapInv, ForestInv
<1>7. QED
  BY <1>3, <1>4, <1>5, <1>6 DEF ForestInv

(* What is freed with a detached node: the trees that belong to it, of constants and *)
(* of longer paths only; no other node has a child there.                          *)
LEMMA DeletedIs ==
  ASSUME HeapInv, NEW n \in live \cap manualDelete
  PROVE  /\ Deleted(n) \subseteq live /\ n \in Deleted(n) /\ root \notin Deleted(n)
         /\ Deleted(n) \cap manualDelete = {n}
         /\ \A a \in live \ Deleted(n) : Mine(a) \cap Deleted(n) = {}
         /\ \A a \in live \cap Deleted(n) : Mine(a) \subseteq Deleted(n)
         /\ \A a \in Deleted(n) : a = n \/ IsConstant(a) \/ Extends(a, n)
<1>1. n \in live /\ n \in manualDelete /\ n \in Addresses /\ n \in Deleted(n) /\ live \subseteq Addresses
  BY DEF HeapInv, TypeInv, TypeOK, Deleted
<1>2. Mine(n) = Owned(n) /\ Owned(n) \subseteq Kids(n)
  BY <1>1 DEF Mine, Owned, Kids
<1>3. ASSUME NEW c \in Owned(n)
      PROVE  /\ c \in live \ manualDelete /\ c # root /\ c \in Addresses
             /\ Subtree[c] \subseteq live \ manualDelete
             /\ root \notin Subtree[c]
             /\ \A a \in live \ Subtree[c] : \A x \in Mine(a) : x \in Subtree[c] => x = c
             /\ \A a \in Subtree[c] : Kids(a) \subseteq Subtree[c]
             /\ \A a \in Subtree[c] : a = c \/ IsConstant(a) \/ Extends(a, c)
             /\ IsConstant(c) \/ Extends(c, n)
             /\ c \in Subtree[c]
  <2>1. c \in live \ manualDelete /\ c # root
    BY <1>1, <1>2, <1>3 DEF HeapInv, ForestInv, OwnedLive, TopsFree
  <2>2. c \in Addresses
    BY <1>1, <2>1
  <2>3. IsConstant(c) \/ Extends(c, n)
    BY <1>1, <1>2, <1>3 DEF HeapInv, ShapeInv
  <2>4. TypeInv /\ AddressInv /\ ShapeInv
    BY DEF HeapInv
  <2>5. /\ Subtree[c] \subseteq live \ manualDelete
        /\ root \notin Subtree[c]
        /\ \A a \in live \ Subtree[c] : \A x \in Mine(a) : x \in Subtree[c] => x = c
    BY <2>1, TreeAllocated
  <2>6. /\ \A a \in Subtree[c] : Kids(a) \subseteq Subtree[c]
        /\ \A a \in Subtree[c] : a = c \/ IsConstant(a) \/ Extends(a, c)
        /\ c \in Subtree[c]
    BY <2>2, <2>4, SubtreeIs
  <2>7. QED
    BY <2>1, <2>2, <2>3, <2>5, <2>6
<1>4. \A a : a \in Deleted(n) <=> a = n \/ \E c \in Owned(n) : a \in Subtree[c]
  BY DEF Deleted
<1>5. /\ Deleted(n) \subseteq live /\ Deleted(n) \cap manualDelete = {n}
  BY <1>1, <1>3, <1>4
<1>6. root \notin Deleted(n)
  <2>1. root # n
    BY <1>1 DEF HeapInv, ForestInv
  <2>2. QED
    BY <1>3, <1>4, <2>1
<1>7. ASSUME NEW a \in live \ Deleted(n), NEW x \in Mine(a), x \in Deleted(n)
      PROVE  FALSE
  <2>1. x # n
    BY <1>1, <1>7 DEF HeapInv, ForestInv, TopsFree
  <2>2. PICK c \in Owned(n) : x \in Subtree[c]
    BY <1>4, <1>7, <2>1
  <2>3. a \notin Subtree[c]
    BY <1>4, <1>7
  <2>4. x = c
    BY <1>3, <1>7, <2>2, <2>3
  <2>5. a = n
    BY <1>1, <1>2, <1>7, <2>4 DEF HeapInv, ForestInv, OneOwner
  <2>6. QED
    BY <1>1, <1>7, <2>5
<1>8. ASSUME NEW a \in live \cap Deleted(n)
      PROVE  Mine(a) \subseteq Deleted(n)
  <2>1. CASE a = n
    BY <1>2, <1>3, <1>4, <2>1
  <2>2. CASE a # n
    <3>1. PICK c \in Owned(n) : a \in Subtree[c]
      BY <1>4, <1>8, <2>2
    <3>2. Mine(a) \subseteq Kids(a)
      BY DEF Mine, Owned, Kids
    <3>3. QED
      BY <1>3, <1>4, <3>1, <3>2
  <2>3. QED
    BY <2>1, <2>2
<1>9. ASSUME NEW a \in Deleted(n), a # n, ~IsConstant(a)
      PROVE  Extends(a, n)
  <2>1. PICK c \in Owned(n) : a \in Subtree[c]
    BY <1>4, <1>9
  <2>2. a = c \/ Extends(a, c)
    BY <1>3, <1>9, <2>1
  <2>3. /\ a \in Addresses /\ c \in Addresses
        /\ a \in Seq(0..2) /\ c \in Seq(0..2) /\ n \in Seq(0..2)
    BY <1>1, <1>3, <1>5 DEF HeapInv, AddressInv
  <2>4. ~IsConstant(c)
    <3> SUFFICES ASSUME IsConstant(c) PROVE FALSE
      OBVIOUS
    <3>1. Extends(a, c)
      BY <1>9, <2>2
    <3>2. Kids(c) = {}
      BY <2>3 DEF HeapInv, AddressInv, Kids
    <3>3. a = c \/ \E owner \in Subtree[c] : a \in Kids(owner)
      BY <1>3, <2>1, SubtreeIs DEF HeapInv
    <3>4. Len(c) \in Nat /\ 1 \in 1..Len(c) /\ a[1] = c[1]
      <4>1. Len(c) \in Nat /\ Len(c) # 0 /\ c[1] = 0
        BY <2>3 DEF IsConstant
      <4>2. QED
        BY <3>1, <4>1 DEF Extends
    <3>5. a # <<>>
      <4>1. Len(a) \in Nat /\ Len(c) < Len(a)
        BY <2>3, <3>1 DEF Extends
      <4>2. QED
        BY <3>4, <4>1
    <3>6. QED
      BY <1>9, <3>4, <3>5 DEF IsConstant
  <2>5. QED
    BY <1>3, <2>2, <2>3, <2>4, ExtendsOrder
<1>10. QED
  BY <1>1, <1>5, <1>6, <1>7, <1>8, <1>9

(* A detached node goes with what belongs to it; what is registered later stays.     *)
LEMMA DeleteKeepsInv ==
  ASSUME IInv, DeleteReassignment
  PROVE  IInv'
<1>1. PICK n : n = registered[index]
  OBVIOUS
<1>2. /\ phase = "delete" /\ phase' = "delete" /\ index <= Len(registered) /\ index' = index + 1
      /\ live' = IF n \in manualDelete THEN live \ Deleted(n) ELSE live
      /\ UNCHANGED <<root, fields, manualDelete, registered, order, stack, changed>>
  BY <1>1 DEF DeleteReassignment
<1>3. stack = <<>>
  BY <1>2 DEF IInv, CallInv
<1>4. PICK l \in Nat : l = Len(registered) /\ DOMAIN registered = 1..l
  BY DEF IInv, TypeInv, TypeOK
<1>5. index \in 1..l /\ index \in index..l
  <2>1. index \in 0..(l + 1) /\ index # 0
    BY <1>2, <1>4 DEF IInv, TypeInv, TypeOK, ReportInv
  <2>2. QED
    BY <1>2, <1>4, <2>1
<1>6. /\ \A j \in index..l : registered[j] \in live
      /\ \A m \in manualDelete \cap live : \E j \in index..l : m = registered[j]
  BY <1>2, <1>4 DEF IInv, ReportInv
<1>7. n \in live /\ HeapInv
  BY <1>1, <1>5, <1>6 DEF IInv, HeapInv
<1>8. /\ (n \in manualDelete => Deleted(n) \subseteq live)
      /\ AddressInv' /\ ShapeInv' /\ BufferInv' /\ ForestInv'
  <2>1. CASE n \in manualDelete
    BY <1>2, <1>7, <2>1, DeletedIs, FreeKeepsForest
  <2>2. CASE n \notin manualDelete
    BY <1>2, <2>2, HeapKept DEF IInv
  <2>3. QED
    BY <2>1, <2>2
<1>9. ASSUME NEW j \in (index + 1)..l
      PROVE  registered[j] \in live'
  <2>1. j \in index..l /\ j \in 1..l /\ index < j
    BY <1>5
  <2>2. registered[j] \in live
    BY <1>6, <2>1
  <2>3. registered[j] # n /\ ~Extends(registered[j], n) /\ ~IsConstant(registered[j])
    BY <1>1, <1>4, <1>5, <2>1 DEF IInv, BufferInv
  <2>4. n \in manualDelete => registered[j] \notin Deleted(n)
    BY <1>7, <2>3, DeletedIs
  <2>5. QED
    BY <1>2, <2>2, <2>4
<1>10. ASSUME NEW m \in manualDelete \cap live'
       PROVE  \E j \in (index + 1)..l : m = registered[j]
  <2>1. m \in live /\ m # n
    <3>1. CASE n \in manualDelete
      BY <1>2, <1>7, <3>1, DeletedIs
    <3>2. CASE n \notin manualDelete
      BY <1>2, <3>2
    <3>3. QED
      BY <3>1, <3>2
  <2>2. PICK j \in index..l : m = registered[j]
    BY <1>6, <2>1
  <2>3. j # index
    BY <1>1, <2>1, <2>2
  <2>4. j \in (index + 1)..l
    BY <1>5, <2>3
  <2>5. QED
    BY <2>2, <2>4
<1>11. ReportInv'
  <2>1. index' # 0 /\ Len(registered') = l /\ registered' = registered /\ manualDelete' = manualDelete
    BY <1>2, <1>4, <1>5
  <2>2. QED
    BY <1>2, <1>9, <1>10, <2>1 DEF ReportInv
<1>12. TypeInv'
  <2>1. index' \in 0..(Len(registered) + 1)
    BY <1>2, <1>4, <1>5
  <2>2. changed \in BOOLEAN /\ changed' = changed
    BY <1>2 DEF IInv, TypeInv, TypeOK
  <2>3. phase' \in Phases /\ live' \subseteq live
    BY <1>2 DEF Phases
  <2>4. stack' \in Seq([node : Addresses, got : Seq(IF phase' = "compute" THEN Number ELSE {NULL})])
    BY <1>2, <1>3, R!ShortSequences
  <2>5. TypeInv
    BY DEF IInv
  <2>6. QED
    BY <1>2, <2>1, <2>2, <2>3, <2>4, <2>5, TypesKept
<1>13. CallInv'
  <2>1. stack' = <<>> /\ phase' \notin {"compute", "collapse"} /\ DOMAIN stack' = {}
    BY <1>2, <1>3
  <2>2. QED
    BY <2>1 DEF CallInv
<1>14. QED
  BY <1>8, <1>11, <1>12, <1>13 DEF IInv

(* When no detached node is left, every node of the derivative is below the root: a   *)
(* shortest path that is not would have a shorter one's owner that is not.           *)
LEMMA AllBelowRoot ==
  ASSUME HeapInv, manualDelete \cap live = {}
  PROVE  \A n \in live : IsConstant(n) \/ n \in Subtree[root]
<1> DEFINE Lost(n) == n \in live /\ ~IsConstant(n) /\ n \notin Subtree[root]
           lengths == {Len(n) : n \in {m \in live : Lost(m)}}
<1> SUFFICES ASSUME \E n \in live : Lost(n) PROVE FALSE
  OBVIOUS
<1>1. live \subseteq Addresses /\ root \in Addresses /\ Addresses \subseteq Seq(0..2)
  BY DEF HeapInv, TypeInv, TypeOK, AddressInv
<1>2. lengths \subseteq Nat /\ lengths # {}
  <2>1. \A n \in live : Len(n) \in Nat
    BY <1>1
  <2>2. PICK n \in live : Lost(n)
    OBVIOUS
  <2>3. Len(n) \in lengths
    BY <2>2
  <2>4. QED
    BY <2>1, <2>3
<1>3. PICK k \in lengths : \A j \in lengths : k <= j
  <2> HIDE DEF lengths
  <2>1. QED
    BY <1>2, SmallestNat
<1>4. PICK n \in live : Lost(n) /\ Len(n) = k
  OBVIOUS
<1>5. root \in Subtree[root] /\ \A a \in Subtree[root] : Kids(a) \subseteq Subtree[root]
  BY <1>1, SubtreeIs DEF HeapInv
<1>6. n # root /\ n \notin manualDelete
  BY <1>4, <1>5
<1>7. PICK p : p = parent[n]
  OBVIOUS
<1>8. p \in live /\ n \in Mine(p)
  BY <1>4, <1>6, <1>7 DEF HeapInv, ForestInv, HasOwner
<1>9. n \in Kids(p) /\ p \notin Subtree[root] /\ ~IsConstant(p) /\ Extends(n, p)
  <2>1. n \in Kids(p)
    BY <1>8 DEF Mine, Owned, Kids
  <2>2. ~IsConstant(p)
    BY <1>1, <1>8, <2>1 DEF HeapInv, AddressInv, Kids
  <2>3. Extends(n, p)
    BY <1>1, <1>4, <1>8, <2>1 DEF HeapInv, ShapeInv
  <2>4. QED
    BY <1>4, <1>5, <2>1, <2>2, <2>3
<1>10. Lost(p) /\ Len(p) < Len(n) /\ Len(p) \in Nat /\ Len(n) \in Nat
  BY <1>1, <1>4, <1>8, <1>9 DEF Extends
<1>11. Len(p) \in lengths
  BY <1>8, <1>10
<1>12. k <= Len(p)
  BY <1>3, <1>11
<1>13. QED
  BY <1>4, <1>10, <1>12

(* The derivative is destroyed, and only constants are left.                        *)
LEMMA DestroyKeepsInv ==
  ASSUME IInv, DestroyTree
  PROVE  IInv'
<1>1. /\ phase = "destroy" /\ phase' = "done" /\ live' = live \ Subtree[root]
      /\ UNCHANGED <<root, fields, manualDelete, registered, order, stack, changed, index>>
  BY DEF DestroyTree
<1>2. stack = <<>> /\ manualDelete \cap live = {} /\ HeapInv
  BY <1>1 DEF IInv, CallInv, ReportInv, HeapInv
<1>3. /\ root \in live \ manualDelete
      /\ \A a \in live \ Subtree[root] : \A c \in Mine(a) : c \in Subtree[root] => c = root
      /\ \A a \in Subtree[root] : Kids(a) \subseteq Subtree[root]
  <2>1. root \in live \ manualDelete
    BY <1>1 DEF IInv, ForestInv
  <2>2. \A a \in live \ Subtree[root] : \A c \in Mine(a) : c \in Subtree[root] => c = root
    BY <1>2, <2>1, TreeAllocated
  <2>3. root \in Addresses /\ TypeInv /\ AddressInv /\ ShapeInv
    BY DEF IInv, AddressInv
  <2>4. \A a \in Subtree[root] : Kids(a) \subseteq Subtree[root]
    BY <2>3, SubtreeIs
  <2>5. QED
    BY <2>1, <2>2, <2>4
<1>4. /\ \A a \in live \ Subtree[root] : Mine(a) \cap Subtree[root] = {}
      /\ \A a \in live \cap Subtree[root] : Mine(a) \subseteq Subtree[root]
  <2>1. \A a \in live : root \notin Mine(a)
    BY DEF IInv, ForestInv, TopsFree
  <2>2. \A a : Mine(a) \subseteq Kids(a)
    BY DEF Mine, Owned, Kids
  <2>3. QED
    BY <1>3, <2>1, <2>2
<1>5. AddressInv' /\ ShapeInv' /\ BufferInv' /\ ForestInv'
  <2>1. PICK freed : freed = Subtree[root]
    OBVIOUS
  <2>2. /\ live' = live \ freed
        /\ \A a \in live \ freed : Mine(a) \cap freed = {}
        /\ \A a \in live \cap freed : Mine(a) \subseteq freed
    BY <1>1, <1>4, <2>1
  <2>3. QED
    BY <1>1, <1>2, <2>2, FreeKeepsForest
<1>6. ReportInv'
  <2>1. \A n \in live' : IsConstant(n)
    BY <1>1, <1>2, AllBelowRoot
  <2>2. QED
    BY <1>1, <1>2, <2>1 DEF ReportInv
<1>7. TypeInv'
  <2>1. /\ index \in 0..(Len(registered) + 1) /\ index' = index
        /\ changed \in BOOLEAN /\ changed' = changed
    BY <1>1 DEF IInv, TypeInv, TypeOK
  <2>2. phase' \in Phases /\ live' \subseteq live
    BY <1>1 DEF Phases
  <2>3. stack' \in Seq([node : Addresses, got : Seq(IF phase' = "compute" THEN Number ELSE {NULL})])
    BY <1>1, <1>2, R!ShortSequences
  <2>4. TypeInv
    BY DEF IInv
  <2>5. QED
    BY <1>1, <2>1, <2>2, <2>3, <2>4, TypesKept
<1>8. CallInv'
  <2>1. stack' = <<>> /\ phase' \notin {"compute", "collapse"} /\ DOMAIN stack' = {}
    BY <1>1, <1>2
  <2>2. QED
    BY <2>1 DEF CallInv
<1>9. QED
  BY <1>5, <1>6, <1>7, <1>8 DEF IInv

-----------------------------------------------------------------------------
(* A step that changes nothing.                                                 *)
LEMMA StutterKeepsInv ==
  ASSUME IInv, UNCHANGED vars
  PROVE  IInv'
<1>1. UNCHANGED <<root, fields, live, manualDelete, registered, order, phase, stack, changed, index>>
  BY DEF vars
<1>2. /\ root' = root /\ kind' = kind /\ left' = left /\ right' = right
      /\ live' = live /\ manualDelete' = manualDelete
  BY <1>1 DEF fields
<1>3. AddressInv' /\ ShapeInv' /\ BufferInv' /\ ForestInv'
  BY <1>1, HeapKept DEF IInv
<1>4. TypeInv'
  <2>1. /\ changed \in BOOLEAN /\ index \in 0..(Len(registered) + 1) /\ phase \in Phases
        /\ stack \in Seq([node : Addresses, got : Seq(IF phase = "compute" THEN Number ELSE {NULL})])
    BY DEF IInv, TypeInv, TypeOK
  <2>2. TypeInv
    BY DEF IInv
  <2>3. QED
    BY <1>1, <2>1, <2>2, TypesKept
<1>5. CallInv'
  <2>1. \A n : Kids(n)' = Kids(n) /\ Sides(n)' = Sides(n)
    BY <1>1, <1>2 DEF Kids, Sides, IsOperation
  <2>2. \A i : Above(i)' = Above(i)
    BY <1>1 DEF Above
  <2>3. QED
    BY <1>1, <1>2, <2>1, <2>2 DEF IInv, CallInv
<1>6. ReportInv'
  BY <1>1 DEF IInv, ReportInv
<1>7. QED
  BY <1>3, <1>4, <1>5, <1>6 DEF IInv

(* Every step keeps the invariant.                                              *)
LEMMA NextKeepsInv ==
  ASSUME IInv, [Next]_vars
  PROVE  IInv'
<1>1. CASE BeginPass \/ BeginCollapse
  BY <1>1, BeginKeepsInv
<1>2. CASE RefuseTree \/ EndPass \/ EndDelete \/ UseFreed
  BY <1>2, TurnKeepsInv
<1>3. CASE Descend
  BY <1>3, DescendKeepsInv
<1>4. CASE ComputeLeaf \/ ComputeUnknown \/ CollapseNothing
  BY <1>4, ReturnKeepsInv
<1>5. CASE ComputeFold
  BY <1>5, FoldIs, GivesWayKeepsInv
<1>6. CASE CollapseToConstant
  BY <1>6, ToConstantIs, GivesWayKeepsInv
<1>7. CASE CollapseToChild
  BY <1>7, ToChildIs, GivesWayKeepsInv
<1>8. CASE WriteExpression
  BY <1>8, WriteKeepsInv
<1>9. CASE DeleteReassignment
  BY <1>9, DeleteKeepsInv
<1>10. CASE DestroyTree
  BY <1>10, DestroyKeepsInv
<1>11. CASE UNCHANGED vars
  BY <1>11, StutterKeepsInv
<1>12. QED
  BY <1>1, <1>2, <1>3, <1>4, <1>5, <1>6, <1>7, <1>8, <1>9, <1>10, <1>11 
     DEF Next, OptimizeTree, WriteReport

(* The inductive invariant holds of every behaviour.                             *)
THEOREM Invariant == Spec => []IInv
<1>1. Init => IInv
  BY InitIInv
<1>2. IInv /\ [Next]_vars => IInv'
  BY NextKeepsInv
<1>3. QED
  BY <1>1, <1>2, PTL DEF Spec

(* Through all passes and the report the links lead to nodes of the derivative, the  *)
(* buffer holds some, and the calls work on nodes and return numbers.              *)
THEOREM TypeCorrect == Spec => []TypeOK
<1>1. IInv => TypeOK
  BY DEF IInv, TypeInv
<1>2. QED
  BY <1>1, Invariant, PTL

(* Outside the loops of the report a step uses and frees allocated nodes only.      *)
LEMMA PassesSound ==
  ASSUME IInv, phase \notin {"print", "delete"}
  PROVE  Sound
<1>1. CASE phase \in {"compute", "collapse"} /\ stack # <<>>
  <2>1. Current \in live \ manualDelete /\ (IsOperation(Current) => parent[Current] \in live)
    BY <1>1, CurrentIs
  <2>2. Subtree[Current] \subseteq live
    BY <2>1, TreeAllocated DEF IInv, HeapInv
  <2>3. QED
    BY <1>1, <2>1, <2>2 DEF Sound, Touched
<1>2. CASE phase = "destroy"
  <2>1. root \in live \ manualDelete
    BY <1>2 DEF IInv, ForestInv
  <2>2. Subtree[root] \subseteq live
    BY <2>1, TreeAllocated DEF IInv, HeapInv
  <2>3. QED
    BY <1>2, <2>2 DEF Sound, Touched
<1>3. CASE phase # "destroy" /\ ~ (phase \in {"compute", "collapse"} /\ stack # <<>>)
  BY <1>3 DEF Sound, Touched
<1>4. QED
  BY <1>1, <1>2, <1>3

(* ComputeSubtree, CollapseNeutralElements and DestroyTree never use or free a node   *)
(* that was freed, whatever derivative they work on and whatever was registered.     *)
THEOREM PassesNeverUndefined == Spec => UndefinedOnlyInReport
<1>1. ASSUME IInv, [Next]_vars, phase' = "undefined"
      PROVE  phase \in {"print", "delete", "undefined"}
  <2>1. CASE UseFreed
    BY <1>1, <2>1, PassesSound DEF UseFreed
  <2>2. CASE UNCHANGED vars
    BY <1>1, <2>2 DEF vars
  <2>3. CASE OptimizeTree \/ WriteReport
    <3>1. phase \in Phases
      BY <1>1 DEF IInv, TypeInv, TypeOK
    <3>2. QED
      BY <1>1, <2>3, <3>1
         DEF OptimizeTree, WriteReport, BeginPass, RefuseTree, BeginCollapse, EndPass,
             AfterPass, Descend, ComputeLeaf, ComputeUnknown, ComputeFold, CollapseNothing,
             CollapseToConstant, CollapseToChild, Running, WriteExpression,
             DeleteReassignment, EndDelete, DestroyTree
  <2>4. QED
    BY <1>1, <2>1, <2>2, <2>3 DEF Next
<1>2. IInv /\ [Next]_vars => (phase' = "undefined" => phase \in {"print", "delete", "undefined"})
  BY <1>1
<1>3. QED
  BY <1>2, Invariant, PTL DEF Spec, UndefinedOnlyInReport

(* The loop over the reassignments finds every registered node it has not passed, and  *)
(* of a detached one whatever still belongs to it: no node is freed a second time.    *)
THEOREM ReportFreesOnce == Spec => []FreedOnce
<1>1. ASSUME IInv, phase = "delete", index <= Len(registered)
      PROVE  /\ registered[index] \in live
             /\ registered[index] \in manualDelete => Deleted(registered[index]) \subseteq live
  <2>1. index \in index..Len(registered)
    BY <1>1 DEF IInv, TypeInv, TypeOK
  <2>2. registered[index] \in live
    BY <1>1, <2>1 DEF IInv, ReportInv
  <2>3. HeapInv
    BY <1>1 DEF IInv, HeapInv
  <2>4. QED
    BY <2>2, <2>3, DeletedIs
<1>2. IInv => FreedOnce
  BY <1>1 DEF FreedOnce
<1>3. QED
  BY <1>2, Invariant, PTL

(* When the report ends, all that Differentiate built has been freed: what is left are *)
(* the constants whose parents were replaced before they were.                     *)
THEOREM ConstantsLeak == Spec => []LeaksOnlyConstants
<1>1. ASSUME IInv, phase = "done", NEW n \in live
      PROVE  kind[n] = "NUMERIC_NODE" /\ n \in {Fresh(m) : m \in Addresses}
  <2>1. IsConstant(n) /\ n \in Addresses
    BY <1>1 DEF IInv, ReportInv, TypeInv, TypeOK
  <2>2. QED
    BY <1>1, <2>1 DEF IInv, AddressInv
<1>2. IInv => LeaksOnlyConstants
  BY <1>1 DEF LeaksOnlyConstants
<1>3. QED
  BY <1>2, Invariant, PTL

-----------------------------------------------------------------------------
(* The derivative as a tree.                                                    *)

(* A tree has one link less than it has nodes: each link leads to another node, and   *)
(* to each node but the root leads one.                                          *)
LEMMA LinksCounted ==
  ASSUME HeapInv, root \in live \ manualDelete, NEW tree, tree = Subtree[root],
         NEW links, links = {link \in tree \X Both : Child(link[1], link[2]) # NULL}
  PROVE  Cardinality(links) = Cardinality(tree) - 1
<1> DEFINE below == tree \ {root}
           f == [link \in links |-> Child(link[1], link[2])]
<1>1. /\ root \in tree /\ tree \subseteq live \ manualDelete /\ live \subseteq Addresses
      /\ \A a \in tree : Kids(a) \subseteq tree
      /\ \A a \in tree : a # root => \E owner \in tree : a \in Kids(owner)
  <2>1. root \in Addresses /\ tree \subseteq live \ manualDelete
    BY TreeAllocated
  <2>2. TypeInv /\ AddressInv /\ ShapeInv /\ live \subseteq Addresses
    BY DEF HeapInv, TypeInv, TypeOK
  <2>3. QED
    BY <2>1, <2>2, SubtreeIs
<1>2. IsFiniteSet(tree) /\ IsFiniteSet(below) /\ Cardinality(below) = Cardinality(tree) - 1
  <2>1. IsFiniteSet(Addresses) /\ tree \in SUBSET Addresses
    BY <1>1 DEF HeapInv, AddressInv
  <2>2. IsFiniteSet(tree)
    BY <2>1, FS_Subset
  <2>3. QED
    BY <1>1, <2>2, FS_RemoveElement
<1>3. \A n, side : Child(n, side) # NULL => Child(n, side) \in Kids(n)
  BY DEF Child, Kids
<1>4. \A a \in tree : Mine(a) = Kids(a)
  BY <1>1 DEF Mine
<1>5. f \in [links -> below]
  <2>1. ASSUME NEW link \in links
        PROVE  Child(link[1], link[2]) \in below
    <3>1. link[1] \in tree /\ Child(link[1], link[2]) \in Kids(link[1])
      BY <1>3
    <3>2. Child(link[1], link[2]) # root
      BY <1>1, <1>4, <3>1 DEF HeapInv, ForestInv, TopsFree
    <3>3. QED
      BY <1>1, <3>1, <3>2
  <2>2. QED
    BY <2>1
<1>6. ASSUME NEW a \in links, NEW b \in links, f[a] = f[b]
      PROVE  a = b
  <2>1. /\ a = <<a[1], a[2]>> /\ a[1] \in tree /\ a[2] \in Both
        /\ b = <<b[1], b[2]>> /\ b[1] \in tree /\ b[2] \in Both
        /\ Child(a[1], a[2]) # NULL /\ Child(b[1], b[2]) # NULL
        /\ Child(a[1], a[2]) = Child(b[1], b[2])
    BY <1>6
  <2>2. a[1] = b[1]
    <3>1. Child(a[1], a[2]) \in Mine(a[1]) \cap Mine(b[1])
      BY <1>3, <1>4, <2>1
    <3>2. QED
      BY <1>1, <2>1, <3>1 DEF HeapInv, ForestInv, OneOwner
  <2>3. a[2] = b[2]
    <3>1. left[a[1]] # NULL => left[a[1]] # right[a[1]]
      BY <1>1, <2>1 DEF HeapInv, ShapeInv
    <3>2. QED
      BY <2>1, <2>2, <3>1 DEF Child, Both
  <2>4. QED
    BY <2>1, <2>2, <2>3
<1>7. ASSUME NEW c \in below
      PROVE  \E link \in links : f[link] = c
  <2>1. PICK owner \in tree : c \in Kids(owner)
    BY <1>1
  <2>2. PICK side \in Both : Child(owner, side) = c /\ c # NULL
    BY <2>1 DEF Kids, Child, Both
  <2>3. <<owner, side>> \in links /\ f[<<owner, side>>] = c
    BY <2>2
  <2>4. QED
    BY <2>3
<1> HIDE DEF f, below
<1>8. f \in Injection(links, below) /\ f \in Surjection(links, below)
  BY <1>5, <1>6, <1>7 DEF Injection, Surjection, IsInjective
<1>9. Cardinality(links) = Cardinality(below)
  BY <1>2, <1>8, FS_Injection
<1>10. QED
  BY <1>2, <1>9

(* However it is folded and collapsed, the derivative stays a tree of allocated nodes:  *)
(* one link leads to a node, an operation's parent pointer is the other end of it, and   *)
(* an operator keeps both operands.                                             *)
THEOREM TreeStaysIntact == Spec => []TreeIntact
<1>1. ASSUME IInv, phase # "done", NEW tree, tree = Subtree[root],
             NEW links, links = {link \in tree \X Both : Child(link[1], link[2]) # NULL}
      PROVE  /\ tree \subseteq live
             /\ Cardinality(links) = Cardinality(tree) - 1
             /\ \A link \in links :
                  LET child == Child(link[1], link[2])
                  IN  IsOperation(child) => parent[child] = link[1]
             /\ \A n \in tree : kind[n] \in BinaryOps => left[n] # NULL /\ right[n] # NULL
  <2>1. HeapInv /\ root \in live \ manualDelete
    BY <1>1 DEF IInv, HeapInv, ForestInv
  <2>2. tree \subseteq live \ manualDelete /\ live \subseteq Addresses
    BY <1>1, <2>1, TreeAllocated DEF HeapInv, TypeInv, TypeOK
  <2>3. Cardinality(links) = Cardinality(tree) - 1
    BY <1>1, <2>1, LinksCounted
  <2>4. ASSUME NEW link \in links, IsOperation(Child(link[1], link[2]))
        PROVE  parent[Child(link[1], link[2])] = link[1]
    <3>1. link[1] \in tree /\ Child(link[1], link[2]) \in Kids(link[1])
      BY <1>1 DEF Child, Kids
    <3>2. Child(link[1], link[2]) \in Mine(link[1]) /\ Child(link[1], link[2]) \in Addresses
      BY <2>1, <2>2, <3>1 DEF Mine, HeapInv, ForestInv, OwnedLive
    <3>3. ~IsConstant(Child(link[1], link[2]))
      BY <2>1, <2>4, <3>2
         DEF HeapInv, AddressInv, IsOperation, OperationNames, BinaryOps, FunctionOps, Brackets
    <3>4. QED
      BY <2>1, <2>2, <3>1, <3>2, <3>3 DEF HeapInv, ForestInv, ParentIs
  <2>5. \A n \in tree : kind[n] \in BinaryOps => left[n] # NULL /\ right[n] # NULL
    BY <2>1, <2>2 DEF HeapInv, ShapeInv
  <2>6. QED
    BY <2>2, <2>3, <2>4, <2>5
<1>2. IInv => TreeIntact
  BY <1>1 DEF TreeIntact, InTree
<1>3. QED
  BY <1>2, Invariant, PTL

-----------------------------------------------------------------------------
(* What the calls have got.                                                    *)

(* The node of the j-th call that the i-th active call makes.                      *)
Visit(i, j) == Child(stack[i].node, Sides(stack[i].node)[j])

(* Each call was made for the next child of the one before, and the numbers a call of   *)
(* ComputeSubtree has got are those its children are now, whatever they were before.   *)
GotInv ==
  phase \in {"compute", "collapse"} =>
    /\ \A i \in 2..Len(stack) : stack[i].node = Visit(i - 1, Len(stack[i - 1].got) + 1)
    /\ phase = "compute" =>
         \A i \in 1..Len(stack) : \A j \in 1..Len(stack[i].got) :
           stack[i].got[j] = Operand(Visit(i, j))

(* What the derivative as a term says of a node.                                 *)
Labels == [kind : Kinds, value : Number \cup Variables]

LabelOf(n) == [kind |-> kind[n], value |-> IF IsOperation(n) THEN NaN ELSE value[n]]

LEMMA GotTypes ==
  ASSUME IInv, stack # <<>>, NEW i \in 1..Len(stack)
  PROVE  /\ stack[i].got \in Seq(Results) /\ Len(stack[i].got) \in Nat
         /\ Len(stack[i].got) <= Len(Sides(stack[i].node))
         /\ i < Len(stack) => Len(stack[i].got) < Len(Sides(stack[i].node))
         /\ Sides(stack[i].node) \in Seq({"left", "right"})
         /\ \A j \in 1..Len(Sides(stack[i].node)) : Visit(i, j) \in Kids(stack[i].node)
         /\ Kids(stack[i].node) \subseteq live \ manualDelete
<1>1. i \in DOMAIN stack /\ stack \in Seq([node : Addresses, got : Seq(Results)])
  BY CallsInTree DEF IInv, TypeInv, Results
<1>2. stack[i].got \in Seq(Results) /\ Len(stack[i].got) \in Nat
  <2> DEFINE frames == [node : Addresses, got : Seq(Results)]
  <2>1. stack[i] \in frames
    <3>1. stack \in Seq(frames)
      BY <1>1
    <3> HIDE DEF frames
    <3>2. QED
      BY <1>1, <3>1
  <2>2. stack[i].got \in Seq(Results)
    BY <2>1
  <2>3. QED
    BY <2>2
<1>3. /\ Len(stack[i].got) <= Len(Sides(stack[i].node))
      /\ i < Len(stack) => Len(stack[i].got) < Len(Sides(stack[i].node))
  BY <1>1 DEF IInv, CallInv
<1>4. PICK n : n = stack[i].node
  OBVIOUS
<1>5. n \in Addresses /\ n # root /\ n \in live \ manualDelete
  BY <1>4, CallsInTree
<1>6. Sides(n) \in Seq({"left", "right"}) /\ \A j \in 1..Len(Sides(n)) : Child(n, Sides(n)[j]) \in Kids(n)
  BY <1>5, SidesAre DEF IInv
<1>7. Kids(n) \subseteq live \ manualDelete
  BY <1>5 DEF IInv, ForestInv, OwnedLive, TopsFree, Mine
<1>8. QED
  BY <1>2, <1>3, <1>4, <1>6, <1>7 DEF Visit

(* A call is not made for the same child twice.                                   *)
LEMMA SidesApart ==
  ASSUME NEW n, NEW i \in 1..Len(Sides(n)), NEW j \in 1..Len(Sides(n)), i < j
  PROVE  {Sides(n)[i], Sides(n)[j]} = {"left", "right"}
<1>1. Sides(n) \in {<<>>, <<"left">>, <<"right">>, <<"left", "right">>, <<"right", "left">>}
  BY DEF Sides
<1>2. CASE Sides(n) = <<"left", "right">>
  <2>1. i = 1 /\ j = 2
    BY <1>2
  <2>2. QED
    BY <1>2, <2>1
<1>3. CASE Sides(n) = <<"right", "left">>
  <2>1. i = 1 /\ j = 2
    BY <1>3
  <2>2. QED
    BY <1>3, <2>1
<1>4. CASE Sides(n) \in {<<>>, <<"left">>, <<"right">>}
  <2>1. Len(Sides(n)) <= 1 /\ Len(Sides(n)) \in Nat
    <3>1. CASE Sides(n) = <<>>
      BY <3>1
    <3>2. CASE Sides(n) = <<"left">>
      BY <3>2
    <3>3. CASE Sides(n) = <<"right">>
      BY <3>3
    <3>4. QED
      BY <1>4, <3>1, <3>2, <3>3
  <2>2. i \in Nat /\ j \in Nat /\ 1 <= i /\ j <= Len(Sides(n))
    BY <2>1
  <2>3. QED
    BY <2>1, <2>2
<1>5. QED
  BY <1>1, <1>2, <1>3, <1>4

(* When a call returns and its node n gives way to the node `new' (to itself, if nothing  *)
(* is done), the results that were got before stay what the children are: n is none of    *)
(* these.                                                                      *)
LEMMA ReturnKeepsGot ==
  ASSUME IInv, GotInv, stack # <<>>, NEW n, n = Current, NEW new,
         NEW result \in Results, Return(result),
         phase' = phase, order' = order, kind' = kind,
         \A a \in Addresses : /\ left'[a]  = NULL <=> left[a]  = NULL
                              /\ right'[a] = NULL <=> right[a] = NULL,
         \A a \in live \ manualDelete : \A side :
           Child(a, side)' = IF Child(a, side) = n THEN new ELSE Child(a, side),
         \A c \in live \ manualDelete : c # n => Operand(c)' = Operand(c),
         phase = "compute" => result = Operand(new)'
  PROVE  GotInv'
<1>1. PICK k \in Nat : k = Len(stack)
  BY CallsInTree
<1>2. /\ k # 0 /\ phase \in {"compute", "collapse"} /\ n = stack[k].node
      /\ \A i \in 1..k :
           /\ stack[i].node \in live \ manualDelete /\ stack[i].node \in Addresses
           /\ stack[i].node \in Kids(Above(i))
           /\ stack[i].got \in Seq(Results) /\ Len(stack[i].got) \in Nat
           /\ i < k => Len(stack[i].got) < Len(Sides(stack[i].node))
           /\ Sides(stack[i].node) \in Seq({"left", "right"})
           /\ \A j \in 1..Len(Sides(stack[i].node)) : Visit(i, j) \in Kids(stack[i].node)
           /\ Kids(stack[i].node) \subseteq live \ manualDelete
  BY <1>1, CallsInTree, CurrentIs, GotTypes
<1>3. /\ Len(stack') = k - 1
      /\ \A i \in 1..(k - 1) :
           /\ stack'[i].node = stack[i].node
           /\ i < k - 1 => stack'[i].got = stack[i].got
           /\ i = k - 1 => stack'[i].got = Append(stack[i].got, result)
  BY <1>1, ReturnIs
<1>4. /\ \A i \in 2..k : stack[i].node = Visit(i - 1, Len(stack[i - 1].got) + 1)
      /\ phase = "compute" => \A i \in 1..k : \A j \in 1..Len(stack[i].got) :
                                stack[i].got[j] = Operand(Visit(i, j))
  BY <1>1, <1>2 DEF GotInv
<1>5. ASSUME NEW i \in 1..(k - 2), NEW c \in Kids(stack[i].node)
      PROVE  c # n
  <2> SUFFICES ASSUME c = n PROVE FALSE
    OBVIOUS
  <2>1. i \in 1..k /\ k - 1 \in 1..k /\ k - 1 \in (i + 1)..k /\ i \in DOMAIN stack
    BY <1>1, <1>2, CallsInTree
  <2>2. n \in Kids(stack[k - 1].node)
    <3>1. k \in 1..k /\ k # 1
      BY <1>2, <2>1
    <3>2. QED
      BY <1>2, <3>1 DEF Above
  <2>3. PICK a \in Addresses : a = stack[i].node
    BY <1>2, <2>1
  <2>4. PICK b \in Addresses : b = stack[k - 1].node
    BY <1>2, <2>1
  <2>5. a = b
    BY <1>2, <1>5, <2>1, <2>2, <2>3, <2>4 DEF IInv, ForestInv, OneOwner, Mine
  <2>6. IsConstant(b) \/ Extends(b, a)
    BY <1>1, <2>1, <2>3, <2>4 DEF IInv, CallInv
  <2>7. ~IsConstant(b)
    BY <2>2, <2>4 DEF IInv, AddressInv, Kids
  <2>8. QED
    BY <2>3, <2>4, <2>5, <2>6, <2>7, ExtendsOrder DEF IInv, AddressInv
<1>6. ASSUME k # 1, NEW j \in 1..Len(stack[k - 1].got)
      PROVE  Visit(k - 1, j) # n
  <2>1. k - 1 \in 1..k /\ k - 1 < k /\ k \in 2..k
    BY <1>2, <1>6
  <2>2. PICK m \in Addresses : m = stack[k - 1].node
    BY <1>2, <2>1
  <2>3. PICK next \in Nat : next = Len(stack[k - 1].got) + 1
    BY <1>2, <2>1
  <2>4. j \in 1..Len(Sides(m)) /\ next \in 1..Len(Sides(m)) /\ j < next
    BY <1>2, <1>6, <2>1, <2>2, <2>3
  <2>5. n = Child(m, Sides(m)[next]) /\ n \in Kids(m) /\ Visit(k - 1, j) = Child(m, Sides(m)[j])
    BY <1>2, <1>4, <2>1, <2>2, <2>3, <2>4 DEF Visit
  <2>6. {Sides(m)[j], Sides(m)[next]} = {"left", "right"}
    BY <2>4, SidesApart
  <2>7. left[m] # NULL => left[m] # right[m]
    BY <2>2 DEF IInv, ShapeInv
  <2>8. QED
    BY <2>5, <2>6, <2>7 DEF Child, Kids
<1>7. ASSUME NEW i \in 1..(k - 1), NEW j \in 1..Len(Sides(stack[i].node))
      PROVE  Visit(i, j)' = IF Visit(i, j) = n THEN new ELSE Visit(i, j)
  <2>1. i \in 1..k
    OBVIOUS
  <2>2. PICK m \in Addresses : m = stack[i].node
    BY <1>2, <2>1
  <2>3. stack'[i].node = m
    BY <1>3, <2>2
  <2>4. PICK side : side = Sides(m)[j]
    OBVIOUS
  <2>5. Sides(m)' = Sides(m)
    BY <2>2, SidesKept
  <2>6. Visit(i, j)' = Child(m, side)'
    BY <2>3, <2>4, <2>5 DEF Visit
  <2>7. Visit(i, j) = Child(m, side)
    BY <2>2, <2>4 DEF Visit
  <2>8. m \in live \ manualDelete
    BY <1>2, <2>1, <2>2
  <2>9. QED
    BY <2>6, <2>7, <2>8
<1>8. ASSUME NEW i \in 2..(k - 1)
      PROVE  stack'[i].node = Visit(i - 1, Len(stack[i - 1].got) + 1)'
  <2>1. /\ i \in 1..(k - 1) /\ i \in 2..k /\ i - 1 \in 1..(k - 1) /\ i - 1 \in 1..(k - 2)
        /\ i - 1 < k - 1 /\ i - 1 \in 1..k /\ i - 1 < k
    OBVIOUS
  <2>2. PICK j \in Nat : j = Len(stack[i - 1].got) + 1
    BY <1>2, <2>1
  <2>3. j \in 1..Len(Sides(stack[i - 1].node))
    BY <1>2, <2>1, <2>2
  <2>4. Visit(i - 1, j) # n
    BY <1>2, <1>5, <2>1, <2>3
  <2>5. Visit(i - 1, j)' = Visit(i - 1, j)
    BY <1>7, <2>1, <2>3, <2>4
  <2>6. stack'[i].node = Visit(i - 1, j) /\ Len(stack'[i - 1].got) + 1 = j
    BY <1>3, <1>4, <2>1, <2>2
  <2>7. Visit(i - 1, Len(stack[i - 1].got) + 1)' = Visit(i - 1, j)'
    BY <2>6 DEF Visit
  <2>8. QED
    BY <2>5, <2>6, <2>7
<1>9. ASSUME phase = "compute", NEW i \in 1..(k - 1), NEW j \in 1..Len(stack'[i].got)
      PROVE  stack'[i].got[j] = Operand(Visit(i, j))'
  <2>1. i \in 1..k /\ i < k
    OBVIOUS
  <2>2. PICK got \in Seq(Results) : got = stack[i].got
    BY <1>2, <2>1
  <2>3. Len(got) \in Nat /\ Len(got) < Len(Sides(stack[i].node)) /\ Len(Sides(stack[i].node)) \in Nat
    BY <1>2, <2>1, <2>2
  <2>4. CASE j \in 1..Len(got)
    <3>1. j \in 1..Len(Sides(stack[i].node))
      BY <2>3, <2>4
    <3>2. Visit(i, j) # n
      <4>1. CASE i = k - 1
        BY <1>6, <2>1, <2>2, <2>4, <4>1
      <4>2. CASE i # k - 1
        <5>1. i \in 1..(k - 2)
          BY <4>2
        <5>2. QED
          BY <1>2, <1>5, <2>1, <3>1, <5>1
      <4>3. QED
        BY <4>1, <4>2
    <3>3. PICK c : c = Visit(i, j)
      OBVIOUS
    <3>4. Visit(i, j)' = c /\ c \in live \ manualDelete /\ c # n
      BY <1>2, <1>7, <2>1, <3>1, <3>2, <3>3
    <3>5. Operand(Visit(i, j))' = Operand(c)' /\ Operand(c)' = Operand(c)
      BY <3>4
    <3>6. stack'[i].got[j] = got[j]
      <4>1. CASE i = k - 1
        <5>1. stack'[i].got = Append(got, result)
          BY <1>3, <2>2, <4>1
        <5>2. QED
          BY <2>4, <5>1, AppendProperties
      <4>2. CASE i # k - 1
        BY <1>3, <2>2, <4>2
      <4>3. QED
        BY <4>1, <4>2
    <3>7. QED
      BY <1>4, <1>9, <2>1, <2>2, <2>4, <3>3, <3>5, <3>6
  <2>5. CASE j \notin 1..Len(got)
    <3>1. i = k - 1
      <4>1. ~ (i < k - 1)
        BY <1>3, <2>2, <2>5
      <4>2. QED
        BY <4>1
    <3>2. stack'[i].got = Append(got, result)
      BY <1>3, <2>2, <3>1
    <3>3. j = Len(got) + 1 /\ stack'[i].got[j] = result
      BY <2>5, <3>2, AppendProperties
    <3>4. j \in 1..Len(Sides(stack[i].node))
      BY <2>3, <3>3
    <3>5. n = Visit(i, j)
      <4>1. k \in 2..k /\ k - 1 = i
        BY <3>1
      <4>2. QED
        BY <1>2, <1>4, <2>2, <3>3, <4>1
    <3>6. Visit(i, j)' = new
      BY <1>7, <3>4, <3>5
    <3>7. QED
      BY <1>9, <3>3, <3>6
  <2>6. QED
    BY <2>4, <2>5
<1>10. QED
  BY <1>3, <1>8, <1>9 DEF GotInv

(* Neither the links nor what they lead to change with the heap the same.            *)
LEMMA LinksSame ==
  ASSUME UNCHANGED <<root, fields, order>>
  PROVE  /\ root' = root /\ kind' = kind /\ left' = left /\ right' = right
         /\ \A n : Operand(n)' = Operand(n)
         /\ \A n, side : Child(n, side)' = Child(n, side)
         /\ phase' = phase => \A n : Sides(n)' = Sides(n)
<1>1. /\ root' = root /\ kind' = kind /\ left' = left /\ right' = right /\ value' = value
      /\ order' = order
  BY DEF fields
<1>2. \A n : Operand(n)' = Operand(n)
  BY <1>1 DEF Operand
<1>3. \A n, side : Child(n, side)' = Child(n, side)
  BY <1>1 DEF Child
<1>4. phase' = phase => \A n : Sides(n)' = Sides(n)
  BY <1>1 DEF Sides, IsOperation
<1>5. QED
  BY <1>1, <1>2, <1>3, <1>4

(* What a call of a pass returns that leaves its node alone.                       *)
LEMMA ReturnsOperand ==
  ASSUME IInv, ComputeLeaf \/ ComputeUnknown \/ CollapseNothing
  PROVE  /\ stack # <<>> /\ phase \in {"compute", "collapse"} /\ phase' = phase
         /\ UNCHANGED <<root, fields, order>> /\ changed' = changed
         /\ \E result \in Results : /\ Return(result)
                                    /\ phase = "compute" => result = Operand(Current)
<1>1. /\ stack # <<>> /\ phase \in {"compute", "collapse"} /\ phase' = phase
      /\ UNCHANGED <<root, fields, order>> /\ changed' = changed
  BY DEF ComputeLeaf, ComputeUnknown, CollapseNothing, Running
<1>2. PICK n \in Addresses : n = Current
  BY <1>1, CurrentIs
<1>3. n # NULL /\ Operand(n) \in Number
  BY NumberAssumption DEF Operand, IInv, AddressInv, TypeInv
<1>4. CASE ComputeLeaf
  <2>1. /\ phase = "compute" /\ ~IsOperation(n)
        /\ Return(IF kind[n] = "NUMERIC_NODE" THEN value[n] ELSE NaN)
    BY <1>2, <1>4 DEF ComputeLeaf, Running
  <2>2. Operand(n) = IF kind[n] = "NUMERIC_NODE" THEN value[n] ELSE NaN
    BY <1>3, <2>1 DEF Operand
  <2>3. QED
    BY <1>1, <1>2, <1>3, <2>1, <2>2 DEF Results
<1>5. CASE ComputeUnknown
  <2>1. phase = "compute" /\ IsOperation(n) /\ Return(NaN)
    BY <1>2, <1>5 DEF ComputeUnknown, Running
  <2>2. Operand(n) = NaN
    BY <2>1 DEF Operand, IsOperation, OperationNames, Brackets, BinaryOps, FunctionOps
  <2>3. QED
    BY <1>1, <1>2, <1>3, <2>1, <2>2 DEF Results
<1>6. CASE CollapseNothing
  <2>1. phase = "collapse" /\ Return(NULL)
    BY <1>6 DEF CollapseNothing, Running
  <2>2. QED
    BY <1>1, <2>1 DEF Results
<1>7. QED
  BY <1>4, <1>5, <1>6

(* Where a replacement changes what a link in the tree leads to.                    *)
LEMMA GivesWayIs ==
  ASSUME IInv, NEW new, NEW result, GivesWay(new, result), NEW n, n = Current
  PROVE  /\ n \in live \ manualDelete
         /\ \A a \in Addresses : /\ left'[a]  = NULL <=> left[a]  = NULL
                                 /\ right'[a] = NULL <=> right[a] = NULL
         /\ \A a \in live \ manualDelete : \A side :
              Child(a, side)' = IF Child(a, side) = n THEN new ELSE Child(a, side)
         /\ \A a \in live : LabelOf(a)' = LabelOf(a) /\ Operand(a)' = Operand(a)
<1>1. PICK p : p = parent[n]
  OBVIOUS
<1>2. Replaced(n, p, new) /\ Detaches(n, p, new) /\ \A a \in live : value'[a] = value[a]
  BY <1>1 DEF GivesWay
<1>3. HeapInv
  BY DEF IInv, HeapInv
<1>4. /\ n \in Addresses /\ p \in Addresses /\ new \in Addresses
      /\ NULL \notin Addresses /\ live \subseteq Addresses
  BY <1>2, <1>3, ReplacedIs DEF HeapInv, AddressInv, TypeInv, TypeOK
<1>5. /\ \A a \in Addresses : a # p => left'[a] = left[a] /\ right'[a] = right[a]
      /\ left'[p]  = IF left[p]  = n THEN new ELSE left[p]
      /\ right'[p] = IF right[p] = n THEN new ELSE right[p]
  BY <1>2, <1>3, LinksAfter
<1>6. ASSUME NEW a \in live \ manualDelete, a # p, NEW side
      PROVE  Child(a, side) # n
  <2>1. n \in Mine(p) /\ p \in live
    BY <1>2 DEF Replaced, Mine
  <2>2. n \notin Mine(a)
    BY <1>3, <1>6, <2>1 DEF HeapInv, ForestInv, OneOwner
  <2>3. QED
    BY <1>4, <1>6, <2>2 DEF Mine, Kids, Child
<1>7. ASSUME NEW a \in live \ manualDelete, NEW side
      PROVE  Child(a, side)' = IF Child(a, side) = n THEN new ELSE Child(a, side)
  <2>1. CASE a = p
    BY <1>5, <2>1 DEF Child
  <2>2. CASE a # p
    BY <1>4, <1>5, <1>6, <1>7, <2>2 DEF Child
  <2>3. QED
    BY <2>1, <2>2
<1>8. \A a \in live : LabelOf(a)' = LabelOf(a) /\ Operand(a)' = Operand(a)
  BY <1>2 DEF Detaches, LabelOf, Operand, IsOperation
<1>9. n \in live \ manualDelete
  BY <1>2 DEF Replaced
<1>10. QED
  BY <1>4, <1>5, <1>7, <1>8, <1>9

(* A new call is the last one, and has got nothing yet.                             *)
LEMMA DescendIs ==
  ASSUME IInv, Descend, NEW k, k = Len(stack)
  PROVE  /\ k \in Nat \ {0} /\ phase \in {"compute", "collapse"} /\ phase' = phase
         /\ UNCHANGED <<root, fields, order>> /\ changed' = changed
         /\ Len(stack') = k + 1
         /\ \A i \in 1..k : stack'[i] = stack[i]
         /\ stack'[k + 1].got = <<>> /\ stack'[k + 1].node = Visit(k, Len(stack[k].got) + 1)
<1>1. /\ stack # <<>> /\ phase \in {"compute", "collapse"} /\ phase' = phase
      /\ stack' = Append(stack, Frame(Child(Current, Sides(Current)[Len(Top.got) + 1])))
      /\ UNCHANGED <<root, fields, order>> /\ changed' = changed
  BY DEF Descend
<1>2. k \in Nat \ {0} /\ Top = stack[k] /\ Current = stack[k].node
  BY <1>1, CallsInTree, CurrentIs
<1> DEFINE c == Child(Current, Sides(Current)[Len(Top.got) + 1])
           frame == Frame(c)
           K == Range(stack) \cup {frame}
<1>3. frame.node = c /\ frame.got = <<>> /\ stack' = Append(stack, frame) /\ frame \in K
  BY <1>1 DEF Frame
<1>4. c = Visit(k, Len(stack[k].got) + 1)
  BY <1>2 DEF Visit
<1> HIDE DEF c, frame
<1>5. stack \in Seq(K)
  <2> DEFINE frames == [node : Addresses, got : Seq(Results)]
  <2>1. stack \in Seq(frames)
    BY DEF IInv, TypeInv, Results
  <2> HIDE DEF frames
  <2>2. DOMAIN stack = 1..k /\ stack = [i \in 1..k |-> stack[i]]
    BY <1>2, <2>1
  <2>3. stack \in [1..k -> K]
    BY <2>2 DEF Range
  <2>4. QED
    BY <1>2, <2>3
<1> HIDE DEF K
<1>6. /\ Len(stack') = k + 1 /\ stack'[k + 1] = frame
      /\ \A i \in 1..k : stack'[i] = stack[i]
  BY <1>2, <1>3, <1>5, AppendProperties
<1>7. QED
  BY <1>1, <1>2, <1>3, <1>4, <1>6

(* Every step keeps what the calls have got up to date: a new call has got nothing, and  *)
(* a call whose node gives way to a number returns the number.                      *)
LEMMA NextKeepsGot ==
  ASSUME IInv, GotInv, [Next]_vars
  PROVE  GotInv'
<1>1. CASE Descend
  <2>1. PICK k : k = Len(stack)
    OBVIOUS
  <2>2. /\ k \in Nat \ {0} /\ phase \in {"compute", "collapse"} /\ phase' = phase
        /\ UNCHANGED <<root, fields, order>>
        /\ Len(stack') = k + 1
        /\ \A i \in 1..k : stack'[i] = stack[i]
        /\ stack'[k + 1].got = <<>> /\ stack'[k + 1].node = Visit(k, Len(stack[k].got) + 1)
    BY <1>1, <2>1, DescendIs
  <2>3. /\ \A m : Sides(m)' = Sides(m) /\ \A side : Child(m, side)' = Child(m, side)
        /\ \A c : Operand(c)' = Operand(c)
    BY <2>2, LinksSame
  <2>4. \A i \in 1..k : \A j : Visit(i, j)' = Visit(i, j) /\ Operand(Visit(i, j))' = Operand(Visit(i, j))
    BY <2>2, <2>3 DEF Visit
  <2>5. ASSUME NEW i \in 2..(k + 1)
        PROVE  stack'[i].node = Visit(i - 1, Len(stack[i - 1].got) + 1)'
    <3>1. i - 1 \in 1..k /\ stack'[i - 1] = stack[i - 1]
      BY <2>2
    <3>2. Visit(i - 1, Len(stack[i - 1].got) + 1)' = Visit(i - 1, Len(stack[i - 1].got) + 1)
      BY <2>4, <3>1
    <3>3. CASE i = k + 1
      BY <2>2, <3>2, <3>3
    <3>4. CASE i # k + 1
      <4>1. i \in 2..k /\ i \in 1..k
        BY <2>2, <3>4
      <4>2. QED
        BY <2>1, <2>2, <3>2, <4>1 DEF GotInv
    <3>5. QED
      BY <3>3, <3>4
  <2>6. ASSUME phase = "compute", NEW i \in 1..(k + 1), NEW j \in 1..Len(stack'[i].got)
        PROVE  stack'[i].got[j] = Operand(Visit(i, j))'
    <3>1. i # k + 1
      <4> SUFFICES ASSUME i = k + 1 PROVE FALSE
        OBVIOUS
      <4>1. QED
        BY <2>2, <2>6
    <3>2. i \in 1..k /\ stack'[i] = stack[i]
      BY <2>2, <3>1
    <3>3. stack[i].got[j] = Operand(Visit(i, j))
      BY <2>1, <2>2, <2>6, <3>2 DEF GotInv
    <3>4. QED
      BY <2>4, <3>2, <3>3
  <2>7. QED
    BY <2>2, <2>5, <2>6 DEF GotInv
<1>2. CASE ComputeLeaf \/ ComputeUnknown \/ CollapseNothing
  <2>1. /\ stack # <<>> /\ phase' = phase /\ UNCHANGED <<root, fields, order>>
        /\ \E result \in Results : /\ Return(result)
                                   /\ phase = "compute" => result = Operand(Current)
    BY <1>2, ReturnsOperand
  <2>2. PICK result \in Results : /\ Return(result)
                                  /\ phase = "compute" => result = Operand(Current)
    BY <2>1
  <2>3. PICK n : n = Current
    OBVIOUS
  <2>4. /\ \A m, side : Child(m, side)' = IF Child(m, side) = n THEN n ELSE Child(m, side)
        /\ \A c : Operand(c)' = Operand(c)
        /\ kind' = kind /\ left' = left /\ right' = right /\ order' = order
    BY <2>1, LinksSame
  <2>5. phase = "compute" => result = Operand(n)'
    BY <2>2, <2>3, <2>4
  <2>6. QED
    BY <2>1, <2>2, <2>3, <2>4, <2>5, ReturnKeepsGot
<1>3. ASSUME NEW new, NEW result, GivesWay(new, result), phase = "compute" => result = Operand(new)'
      PROVE  GotInv'
  <2>1. PICK n : n = Current
    OBVIOUS
  <2>2. /\ stack # <<>> /\ result \in Results /\ Return(result)
        /\ phase' = phase /\ order' = order /\ kind' = kind
    BY <1>3 DEF GivesWay, Detaches
  <2>3. /\ \A a \in Addresses : /\ left'[a]  = NULL <=> left[a]  = NULL
                                /\ right'[a] = NULL <=> right[a] = NULL
        /\ \A a \in live \ manualDelete : \A side :
             Child(a, side)' = IF Child(a, side) = n THEN new ELSE Child(a, side)
        /\ \A a \in live : Operand(a)' = Operand(a)
    BY <1>3, <2>1, GivesWayIs
  <2>4. QED
    BY <1>3, <2>1, <2>2, <2>3, ReturnKeepsGot
<1>4. CASE ComputeFold
  <2>1. PICK v : GivesWay(Fresh(Current), v) /\ value'[Fresh(Current)] = v
    BY <1>4, FoldIs
  <2>2. PICK const : const = Fresh(Current)
    OBVIOUS
  <2>3. kind[const] = "NUMERIC_NODE" /\ const # NULL /\ kind' = kind
    BY <2>1, <2>2, CurrentReplaced DEF GivesWay, Detaches, IInv, AddressInv
  <2>4. Operand(const)' = v
    BY <2>1, <2>2, <2>3 DEF Operand
  <2>5. QED
    BY <1>3, <2>1, <2>2, <2>4
<1>5. CASE CollapseToConstant
  <2>1. phase # "compute"
    BY <1>5 DEF CollapseToConstant, Running
  <2>2. QED
    BY <1>3, <1>5, <2>1, ToConstantIs
<1>6. CASE CollapseToChild
  <2>1. phase # "compute"
    BY <1>6 DEF CollapseToChild, Running
  <2>2. QED
    BY <1>3, <1>6, <2>1, ToChildIs
<1>7. CASE BeginPass \/ BeginCollapse
  <2>1. stack' = <<Frame(left[root])>>
    BY <1>7 DEF BeginPass, BeginCollapse
  <2>2. Len(stack') = 1 /\ stack'[1].got = <<>>
    BY <2>1 DEF Frame
  <2>3. \A i \in 1..Len(stack') : 1..Len(stack'[i].got) = {}
    <3>1. \A i \in 1..Len(stack') : i = 1
      BY <2>2
    <3>2. Len(stack'[1].got) = 0
      BY <2>2
    <3>3. QED
      BY <3>1, <3>2
  <2>4. 2..Len(stack') = {}
    BY <2>2
  <2>5. QED
    BY <2>3, <2>4 DEF GotInv
<1>8. CASE RefuseTree \/ EndPass \/ WriteReport \/ UseFreed
  <2>1. phase' \notin {"compute", "collapse"}
    BY <1>8 DEF RefuseTree, EndPass, AfterPass, WriteReport, WriteExpression, DeleteReassignment,
       EndDelete, DestroyTree, UseFreed
  <2>2. QED
    BY <2>1 DEF GotInv
<1>9. CASE UNCHANGED vars
  <2>1. UNCHANGED <<root, fields, order>> /\ phase' = phase /\ stack' = stack
    BY <1>9 DEF vars
  <2>2. \A i, j : Visit(i, j)' = Visit(i, j) /\ Operand(Visit(i, j))' = Operand(Visit(i, j))
    BY <2>1, LinksSame DEF Visit
  <2>3. QED
    BY <2>1, <2>2 DEF GotInv
<1>10. QED
  BY <1>1, <1>2, <1>4, <1>5, <1>6, <1>7, <1>8, <1>9 DEF Next, OptimizeTree

(* The numbers a call got for its children are those the children are.              *)
LEMMA GotOperands ==
  ASSUME IInv, GotInv, stack # <<>>, phase = "compute", AllVisited, IsOperation(Current)
  PROVE  /\ Got("left")  = Operand(left[Current])
         /\ Got("right") = IF kind[Current] \in BinaryOps THEN Operand(right[Current]) ELSE NaN
<1>1. PICK n \in Addresses : n = Current
  BY CurrentIs
<1>2. PICK k \in Nat : k = Len(stack) /\ k \in 1..Len(stack) /\ Top = stack[k]
  <2>1. Len(stack) \in Nat \ {0} /\ Top = stack[Len(stack)]
    BY CallsInTree, CurrentIs
  <2>2. QED
    BY <2>1
<1>3. /\ stack[k].node = n /\ Top.got = stack[k].got /\ Len(stack[k].got) = Len(Sides(n))
      /\ \A j \in 1..Len(stack[k].got) : stack[k].got[j] = Operand(Child(n, Sides(n)[j]))
  BY <1>1, <1>2 DEF Current, AllVisited, GotInv, Visit
<1>4. Sides(n) \in Seq({"left", "right"})
  BY <1>1, CurrentIs, SidesAre DEF IInv
<1>5. ASSUME NEW side, \E i \in DOMAIN Sides(n) : Sides(n)[i] = side
      PROVE  Got(side) = Operand(Child(n, side))
  <2>1. PICK i : i = CHOOSE j \in DOMAIN Sides(n) : Sides(n)[j] = side
    OBVIOUS
  <2>2. i \in DOMAIN Sides(n) /\ Sides(n)[i] = side /\ Got(side) = Top.got[i]
    BY <1>1, <1>5, <2>1 DEF Got
  <2>3. i \in 1..Len(stack[k].got)
    BY <1>3, <1>4, <2>2
  <2>4. QED
    BY <1>3, <2>2, <2>3
<1>6. kind[n] \in BinaryOps \cup FunctionOps \cup {"EQUALS"}
  BY <1>1, CurrentIs
<1>7. \/ Sides(n) \in {<<"left", "right">>, <<"right", "left">>} /\ kind[n] \in BinaryOps
      \/ Sides(n) = <<"left">> /\ kind[n] \notin BinaryOps
  BY <1>1, <1>6 DEF Sides, IsOperation
<1>8. CASE Sides(n) \in {<<"left", "right">>, <<"right", "left">>} /\ kind[n] \in BinaryOps
  <2>1. \A side \in Both : \E i \in DOMAIN Sides(n) : Sides(n)[i] = side
    <3>1. CASE Sides(n) = <<"left", "right">>
      <4>1. DOMAIN Sides(n) = 1..2 /\ Sides(n)[1] = "left" /\ Sides(n)[2] = "right"
        BY <3>1
      <4>2. QED
        BY <4>1 DEF Both
    <3>2. CASE Sides(n) = <<"right", "left">>
      <4>1. DOMAIN Sides(n) = 1..2 /\ Sides(n)[1] = "right" /\ Sides(n)[2] = "left"
        BY <3>2
      <4>2. QED
        BY <4>1 DEF Both
    <3>3. QED
      BY <1>8, <3>1, <3>2
  <2>2. QED
    BY <1>1, <1>5, <1>8, <2>1 DEF Both, Child
<1>9. CASE Sides(n) = <<"left">> /\ kind[n] \notin BinaryOps
  <2>1. DOMAIN Sides(n) = 1..1 /\ Sides(n)[1] = "left"
    BY <1>9
  <2>2. \A i \in DOMAIN Sides(n) : Sides(n)[i] # "right"
    BY <2>1
  <2>3. Got("right") = NaN
    BY <1>1, <2>2 DEF Got
  <2>4. QED
    BY <1>1, <1>5, <1>9, <2>1, <2>3 DEF Child
<1>10. QED
  BY <1>7, <1>8, <1>9

-----------------------------------------------------------------------------
(* Nothing is left to do.                                                       *)

(* No operation of the derivative of a formula has an operand too many.             *)
ArityInv ==
  /\ right[root] = NULL
  /\ \A n \in Addresses :
       /\ ~IsOperation(n) => left[n] = NULL /\ right[n] = NULL
       /\ kind[n] \in FunctionOps \cup {"EQUALS"} => right[n] = NULL

(* What ComputeSubtree, and what CollapseNeutralElements, has nothing to do at.      *)
Computed(n) ==
  IsOperation(n) => NaN \in Evaluate(kind[n], Operand(left[n]), Operand(right[n]))

Collapsed(n) == IsOperation(n) => Neutral(n) = NULL

Settled(c) == \A a \in Subtree[c] : IF phase = "compute" THEN Computed(a) ELSE Collapsed(a)

(* As long as a pass has changed nothing, there was nothing to do below the nodes that *)
(* were visited.                                                               *)
QuietInv ==
  phase \in {"compute", "collapse"} /\ ~changed =>
    /\ \A i \in 1..Len(stack) : \A j \in 1..Len(stack[i].got) : Settled(Visit(i, j))
    /\ stack = <<>> => Settled(left[root])
    /\ phase = "collapse" => \A a \in Subtree[left[root]] : Computed(a)

PrintInv ==
  phase = "print" => \A n \in Subtree[root] : n # root => Computed(n) /\ Collapsed(n)

LInv == IInv /\ GotInv /\ ArityInv /\ QuietInv /\ PrintInv

(* Neither what is to be done at a node nor what is below it changes with the heap     *)
(* the same.                                                                  *)
LEMMA HeapSame ==
  ASSUME UNCHANGED <<root, fields, order>>
  PROVE  /\ root' = root /\ left' = left /\ Subtree' = Subtree
         /\ \A n : Computed(n)' = Computed(n) /\ Collapsed(n)' = Collapsed(n)
<1>1. root' = root /\ kind' = kind /\ left' = left /\ right' = right /\ value' = value
  BY DEF fields
<1>2. Subtree' = Subtree
  BY <1>1 DEF Subtree, Addresses
<1>3. \A n : Neutral(n)' = Neutral(n)
  BY <1>1 DEF Neutral, IsNeutral, Child
<1>4. \A n : Computed(n)' = Computed(n)
  BY <1>1 DEF Computed, Operand, IsOperation
<1>5. \A n : Collapsed(n)' = Collapsed(n)
  BY <1>1, <1>3 DEF Collapsed, IsOperation
<1>6. QED
  BY <1>1, <1>2, <1>4, <1>5

(* Replacing a child by another leaves no pointer empty and fills none.             *)
LEMMA ArityKept ==
  ASSUME IInv, ArityInv, [Next]_vars
  PROVE  ArityInv'
<1>1. root' = root /\ kind' = kind
  BY DEF Next, OptimizeTree, WriteReport, BeginPass, RefuseTree, BeginCollapse, EndPass,
         Descend, ComputeLeaf, ComputeUnknown, ComputeFold, CollapseNothing,
         CollapseToConstant, CollapseToChild, WriteExpression, DeleteReassignment,
         EndDelete, DestroyTree, UseFreed, vars, fields
<1>2. \/ left' = left /\ right' = right
      \/ stack # <<>> /\ \E new : Replace(Current, new)
  BY DEF Next, OptimizeTree, WriteReport, BeginPass, RefuseTree, BeginCollapse, EndPass,
         Descend, ComputeLeaf, ComputeUnknown, ComputeFold, CollapseNothing, Running,
         CollapseToConstant, CollapseToChild, WriteExpression, DeleteReassignment,
         EndDelete, DestroyTree, UseFreed, vars, fields
<1>3. NULL \notin Addresses /\ left \in [Addresses -> Links] /\ right \in [Addresses -> Links]
      /\ root \in Addresses
  BY DEF IInv, AddressInv, TypeInv, TypeOK
<1>4. \A a \in Addresses : /\ left[a] = NULL => left'[a] = NULL
                           /\ right[a] = NULL => right'[a] = NULL
  <2>1. ASSUME stack # <<>>, NEW new, Replace(Current, new), NEW a \in Addresses
        PROVE  /\ left[a] = NULL => left'[a] = NULL
               /\ right[a] = NULL => right'[a] = NULL
    <3>1. Current # NULL
      BY <1>3, <2>1, CurrentIs
    <3>2. PICK p : p = parent[Current]
      OBVIOUS
    <3>3. /\ left' = IF left[p] = Current THEN [left EXCEPT ![p] = new] ELSE left
          /\ right' = IF right[p] = Current THEN [right EXCEPT ![p] = new] ELSE right
      BY <2>1, <3>2 DEF Replace
    <3>4. QED
      BY <1>3, <2>1, <3>1, <3>3
  <2>2. QED
    BY <1>2, <2>1
<1>5. Addresses' = Addresses /\ \A n : IsOperation(n)' = IsOperation(n)
  BY <1>1 DEF Addresses, IsOperation
<1>6. QED
  BY <1>1, <1>3, <1>4, <1>5 DEF ArityInv

(* The topmost node of the derivative is the only child of its root.                *)
LEMMA RootIs ==
  ASSUME IInv, ArityInv
  PROVE  /\ left[root] = NULL => Subtree[root] = {root}
         /\ left[root] # NULL => Subtree[root] \subseteq {root} \cup Subtree[left[root]]
<1>1. root \in Addresses /\ TypeInv /\ AddressInv /\ ShapeInv /\ right[root] = NULL
      /\ left[root] \in Links
  BY DEF IInv, AddressInv, ArityInv, TypeInv, TypeOK
<1>2. CASE left[root] = NULL
  <2> DEFINE K == {root}
  <2>1. \A a \in Addresses \cap K : Kids(a) \subseteq K
    BY <1>1, <1>2 DEF Kids
  <2>2. Subtree[root] \subseteq K
    <3>1. root \in Addresses \cap K
      BY <1>1
    <3> HIDE DEF K
    <3>2. QED
      BY <1>1, <2>1, <3>1, SubtreeWithin
  <2>3. QED
    BY <1>1, <1>2, <2>2, SubtreeIs
<1>3. CASE left[root] # NULL
  <2>1. PICK top \in Addresses : top = left[root]
    BY <1>1, <1>3 DEF Links
  <2>2. top \in Subtree[top] /\ \A a \in Subtree[top] : Kids(a) \subseteq Subtree[top]
    BY <1>1, SubtreeIs
  <2> DEFINE K == {root} \cup Subtree[top]
  <2>3. \A a \in Addresses \cap K : Kids(a) \subseteq K
    BY <1>1, <2>1, <2>2 DEF Kids
  <2>4. Subtree[root] \subseteq K
    <3>1. root \in Addresses \cap K
      BY <1>1
    <3> HIDE DEF K
    <3>2. QED
      BY <1>1, <2>3, <3>1, SubtreeWithin
  <2>5. QED
    BY <1>3, <2>1, <2>4
<1>4. QED
  BY <1>2, <1>3

(* What is below a node is the node and what is below its children.                 *)
LEMMA SettledAbove ==
  ASSUME TypeInv, AddressInv, ShapeInv, NEW n \in Addresses,
         \A c \in Kids(n) : Settled(c),
         IF phase = "compute" THEN Computed(n) ELSE Collapsed(n)
  PROVE  Settled(n)
<1> DEFINE K == {n} \cup UNION {Subtree[c] : c \in Kids(n)}
<1>1. Kids(n) \subseteq Addresses
  BY DEF Kids, TypeInv, TypeOK, Links
<1>2. \A c \in Kids(n) : c \in Subtree[c] /\ \A a \in Subtree[c] : Kids(a) \subseteq Subtree[c]
  BY <1>1, SubtreeIs
<1>3. \A a \in Addresses \cap K : Kids(a) \subseteq K
  BY <1>2
<1>4. Subtree[n] \subseteq K
  <2>1. n \in Addresses \cap K
    OBVIOUS
  <2> HIDE DEF K
  <2>2. QED
    BY <1>3, <2>1, SubtreeWithin
<1>5. QED
  BY <1>4 DEF Settled

(* Once a call has made all its calls, they were for all children of its node.       *)
LEMMA VisitsAll ==
  ASSUME IInv, ArityInv, stack # <<>>, AllVisited, NEW c \in Kids(Current)
  PROVE  \E j \in 1..Len(Top.got) : c = Child(Current, Sides(Current)[j])
<1>1. PICK n \in Addresses : n = Current
  BY CurrentIs
<1>2. phase \in {"compute", "collapse"} /\ Len(Top.got) = Len(Sides(n)) /\ c \in Kids(n)
  BY <1>1, CallsInTree DEF AllVisited
<1>3. c # NULL /\ c \in {Child(n, "left"), Child(n, "right")}
  BY <1>2 DEF Kids, Child
<1>4. IsOperation(n) /\ (kind[n] \notin BinaryOps => right[n] = NULL)
      /\ kind[n] \in BinaryOps \cup FunctionOps \cup {"EQUALS"}
  BY <1>1, <1>2, CurrentIs DEF Kids, ArityInv
<1>5. \/ Sides(n) \in {<<"left", "right">>, <<"right", "left">>}
      \/ Sides(n) = <<"left">> /\ Child(n, "right") = NULL
      \/ Sides(n) = <<"right">> /\ Child(n, "left") = NULL
  BY <1>2, <1>3, <1>4 DEF Sides, Child
<1>6. \E j \in 1..Len(Sides(n)) : c = Child(n, Sides(n)[j])
  <2>1. CASE Sides(n) = <<"left", "right">>
    <3>1. Len(Sides(n)) = 2 /\ Sides(n)[1] = "left" /\ Sides(n)[2] = "right"
      BY <2>1
    <3>2. QED
      BY <1>3, <3>1
  <2>2. CASE Sides(n) = <<"right", "left">>
    <3>1. Len(Sides(n)) = 2 /\ Sides(n)[2] = "left" /\ Sides(n)[1] = "right"
      BY <2>2
    <3>2. QED
      BY <1>3, <3>1
  <2>3. CASE Sides(n) = <<"left">> /\ Child(n, "right") = NULL
    <3>1. Len(Sides(n)) = 1 /\ Sides(n)[1] = "left"
      BY <2>3
    <3>2. QED
      BY <1>3, <2>3, <3>1
  <2>4. CASE Sides(n) = <<"right">> /\ Child(n, "left") = NULL
    <3>1. Len(Sides(n)) = 1 /\ Sides(n)[1] = "right"
      BY <2>4
    <3>2. QED
      BY <1>3, <2>4, <3>1
  <2>5. QED
    BY <1>5, <2>1, <2>2, <2>3, <2>4
<1>7. QED
  BY <1>1, <1>2, <1>6

(* When a call returns without having replaced its node, there is nothing to do below  *)
(* it.                                                                         *)
LEMMA ReturnSettles ==
  ASSUME IInv, GotInv, ArityInv, QuietInv, ~changed, ComputeLeaf \/ ComputeUnknown \/ CollapseNothing
  PROVE  Settled(Current)
<1>1. stack # <<>> /\ phase \in {"compute", "collapse"}
  BY ReturnsOperand
<1>2. PICK n \in Addresses : n = Current
  BY <1>1, CurrentIs
<1>3. AllVisited
  <2>1. CASE ComputeLeaf
    <3>1. Sides(n) = <<>> /\ Len(Top.got) \in Nat
      BY <1>1, <1>2, <2>1, CurrentIs DEF ComputeLeaf, Sides
    <3>2. Len(Top.got) <= Len(Sides(n))
      BY <1>1, <1>2, CurrentIs, CallsInTree DEF IInv, CallInv
    <3>3. QED
      BY <1>2, <3>1, <3>2 DEF AllVisited
  <2>2. QED
    BY <2>1 DEF ComputeUnknown, CollapseNothing
<1>4. \A c \in Kids(n) : Settled(c)
  <2>1. PICK k \in Nat : k = Len(stack) /\ k \in 1..Len(stack) /\ Top = stack[k]
    <3>1. Len(stack) \in Nat \ {0} /\ Top = stack[Len(stack)]
      BY <1>1, CallsInTree, CurrentIs
    <3>2. QED
      BY <3>1
  <2>2. \A j \in 1..Len(Top.got) : Settled(Child(n, Sides(n)[j]))
    BY <1>1, <1>2, <2>1 DEF QuietInv, Visit, Current
  <2>3. QED
    BY <1>1, <1>2, <1>3, <2>2, VisitsAll
<1>5. IF phase = "compute" THEN Computed(n) ELSE Collapsed(n)
  <2>1. CASE ComputeLeaf
    BY <1>2, <2>1 DEF ComputeLeaf, Running, Computed
  <2>2. CASE ComputeUnknown
    <3>1. /\ phase = "compute" /\ IsOperation(n)
          /\ NaN \in Evaluate(kind[n], Got("left"), Got("right"))
      BY <1>2, <2>2 DEF ComputeUnknown, Running
    <3>2. /\ Got("left") = Operand(left[n])
          /\ Got("right") = IF kind[n] \in BinaryOps THEN Operand(right[n]) ELSE NaN
      BY <1>1, <1>2, <1>3, <3>1, GotOperands
    <3>3. kind[n] \notin BinaryOps => Operand(right[n]) = NaN
      BY <1>1, <1>2, <3>1, CurrentIs DEF ArityInv, Operand
    <3>4. QED
      BY <3>1, <3>2, <3>3 DEF Computed
  <2>3. CASE CollapseNothing
    BY <1>2, <2>3 DEF CollapseNothing, Running, Collapsed
  <2>4. QED
    BY <2>1, <2>2, <2>3
<1>6. QED
  BY <1>2, <1>4, <1>5, SettledAbove DEF IInv

(* A return leaves one more call settled.                                        *)
LEMMA ReturnKeepsQuiet ==
  ASSUME IInv, GotInv, ArityInv, QuietInv, ComputeLeaf \/ ComputeUnknown \/ CollapseNothing
  PROVE  QuietInv'
<1> SUFFICES ASSUME ~changed' PROVE QuietInv'
  BY DEF QuietInv
<1>1. /\ stack # <<>> /\ phase \in {"compute", "collapse"} /\ phase' = phase /\ ~changed
      /\ UNCHANGED <<root, fields, order>>
      /\ \E result \in Results : Return(result)
  BY ReturnsOperand
<1>2. PICK result \in Results : Return(result)
  BY <1>1
<1>3. PICK n \in Addresses : n = Current
  BY <1>1, CurrentIs
<1>4. Settled(n)
  BY <1>1, <1>3, ReturnSettles
<1>5. /\ \A c : Settled(c)' = Settled(c)
      /\ \A m : Sides(m)' = Sides(m) /\ \A side : Child(m, side)' = Child(m, side)
  BY <1>1, HeapSame, LinksSame DEF Settled
<1>6. PICK k \in Nat : k = Len(stack) /\ k # 0 /\ stack[k].node = n
  <2>1. Len(stack) \in Nat \ {0} /\ Current = stack[Len(stack)].node
    BY <1>1, CallsInTree, CurrentIs
  <2>2. QED
    BY <1>3, <2>1
<1>7. /\ Len(stack') = k - 1
      /\ \A i \in 1..(k - 1) :
           /\ i \in 1..k /\ stack'[i].node = stack[i].node
           /\ i < k - 1 => stack'[i].got = stack[i].got
           /\ i = k - 1 => Len(stack'[i].got) = Len(stack[i].got) + 1
           /\ Len(stack[i].got) \in Nat
  <2>1. \A i \in 1..(k - 1) : i \in 1..k
    BY <1>6
  <2>2. \A i \in 1..k : Len(stack[i].got) \in Nat
    BY <1>1, <1>6, GotTypes
  <2>3. QED
    BY <1>1, <1>2, <1>6, <2>1, <2>2, ReturnIs
<1>8. ASSUME NEW i \in 1..(k - 1), NEW j \in 1..Len(stack'[i].got)
      PROVE  Settled(Visit(i, j))'
  <2>1. Visit(i, j)' = Visit(i, j)
    BY <1>5, <1>7 DEF Visit
  <2>2. CASE j \in 1..Len(stack[i].got)
    <3>1. Settled(Visit(i, j))
      BY <1>1, <1>6, <1>7, <2>2 DEF QuietInv
    <3>2. QED
      BY <1>5, <2>1, <3>1
  <2>3. CASE j \notin 1..Len(stack[i].got)
    <3>1. i = k - 1 /\ k \in 2..k
      <4>1. ~ (i < k - 1)
        BY <1>7, <2>3
      <4>2. QED
        BY <1>6, <4>1
    <3>2. j = Len(stack[i].got) + 1
      BY <1>7, <2>3, <3>1
    <3>3. n = Visit(i, j)
      BY <1>1, <1>6, <3>1, <3>2 DEF GotInv
    <3>4. QED
      BY <1>4, <1>5, <2>1, <3>3
  <2>4. QED
    BY <2>2, <2>3
<1>9. ASSUME stack' = <<>>
      PROVE  Settled(left[root])'
  <2>1. k = 1
    <3>1. Len(stack') = 0
      BY <1>9
    <3>2. Len(stack') = k - 1 /\ k \in Nat
      BY <1>6, <1>7
    <3>3. QED
      BY <3>1, <3>2
  <2>2. n \in Kids(root)
    BY <1>1, <1>3, <1>6, <2>1, CurrentIs DEF Above
  <2>3. n = left[root]
    BY <2>2 DEF Kids, ArityInv
  <2>4. QED
    BY <1>1, <1>4, <1>5, <2>3, HeapSame
<1>10. phase' = "collapse" => \A a \in Subtree'[left'[root']] : Computed(a)'
  BY <1>1, HeapSame DEF QuietInv
<1>11. QED
  BY <1>7, <1>8, <1>9, <1>10 DEF QuietInv

(* A new call has seen nothing yet.                                              *)
LEMMA DescendKeepsQuiet ==
  ASSUME IInv, QuietInv, Descend
  PROVE  QuietInv'
<1> SUFFICES ASSUME ~changed' PROVE QuietInv'
  BY DEF QuietInv
<1>1. PICK k : k = Len(stack)
  OBVIOUS
<1>2. /\ k \in Nat \ {0} /\ phase \in {"compute", "collapse"} /\ phase' = phase
      /\ UNCHANGED <<root, fields, order>> /\ ~changed
      /\ Len(stack') = k + 1 /\ stack'[k + 1].got = <<>>
      /\ \A i \in 1..k : stack'[i] = stack[i]
  BY <1>1, DescendIs
<1>3. /\ \A c : Settled(c)' = Settled(c)
      /\ \A m : Sides(m)' = Sides(m) /\ \A side : Child(m, side)' = Child(m, side)
  BY <1>2, HeapSame, LinksSame DEF Settled
<1>4. ASSUME NEW i \in 1..(k + 1), NEW j \in 1..Len(stack'[i].got)
      PROVE  Settled(Visit(i, j))'
  <2>1. i # k + 1
    <3> SUFFICES ASSUME i = k + 1 PROVE FALSE
      OBVIOUS
    <3>1. QED
      BY <1>2, <1>4
  <2>2. i \in 1..k /\ stack'[i] = stack[i]
    BY <1>2, <2>1
  <2>3. Settled(Visit(i, j))
    BY <1>1, <1>2, <1>4, <2>2 DEF QuietInv
  <2>4. Visit(i, j)' = Visit(i, j)
    BY <1>3, <2>2 DEF Visit
  <2>5. QED
    BY <1>3, <2>3, <2>4
<1>5. stack' # <<>>
  BY <1>2
<1>6. phase' = "collapse" => \A a \in Subtree'[left'[root']] : Computed(a)'
  BY <1>2, HeapSame DEF QuietInv
<1>7. QED
  BY <1>2, <1>4, <1>5, <1>6 DEF QuietInv

(* When the loop of OptimizeTree is left, a pass has found nothing to do.             *)
LEMMA TurnKeepsQuiet ==
  ASSUME IInv, ArityInv, QuietInv, PrintInv,
         BeginPass \/ RefuseTree \/ BeginCollapse \/ EndPass
  PROVE  QuietInv' /\ PrintInv'
<1>1. UNCHANGED <<root, fields, order>> /\ root' = root /\ left' = left
  BY DEF BeginPass, RefuseTree, BeginCollapse, EndPass, fields
<1>2. /\ \A c : Computed(c)' = Computed(c) /\ Collapsed(c)' = Collapsed(c)
      /\ Subtree' = Subtree
  BY <1>1, HeapSame
<1>3. CASE BeginPass \/ BeginCollapse
  <2>1. /\ phase' \in {"compute", "collapse"} /\ stack' = <<Frame(left[root])>>
        /\ phase' = "collapse" => phase = "compute" /\ stack = <<>> /\ changed' = changed
    BY <1>3 DEF BeginPass, BeginCollapse
  <2>2. Len(stack') = 1 /\ stack'[1].got = <<>> /\ stack' # <<>>
    BY <2>1 DEF Frame
  <2>3. \A i \in 1..Len(stack') : 1..Len(stack'[i].got) = {}
    <3>1. \A i \in 1..Len(stack') : i = 1
      BY <2>2
    <3>2. Len(stack'[1].got) = 0
      BY <2>2
    <3>3. QED
      BY <3>1, <3>2
  <2>5. phase' = "collapse" /\ ~changed' => \A a \in Subtree'[left'[root']] : Computed(a)'
    BY <1>1, <1>2, <2>1 DEF QuietInv, Settled
  <2>6. QuietInv'
    BY <2>2, <2>3, <2>5 DEF QuietInv
  <2>7. QED
    BY <2>1, <2>6 DEF PrintInv
<1>4. CASE RefuseTree
  <2>1. phase' = "print" /\ left[root] = NULL
    BY <1>4 DEF RefuseTree
  <2>2. Subtree[root] = {root}
    BY <2>1, RootIs
  <2>3. QED
    BY <1>1, <1>2, <2>1, <2>2 DEF QuietInv, PrintInv
<1>5. CASE EndPass
  <2>1. phase = "collapse" /\ stack = <<>> /\ phase' = IF changed THEN "pass" ELSE "print"
    BY <1>5 DEF EndPass, AfterPass
  <2>2. left[root] # NULL
    BY <2>1 DEF IInv, CallInv
  <2>3. ASSUME ~changed, NEW a \in Subtree[root], a # root
        PROVE  Computed(a) /\ Collapsed(a)
    <3>1. a \in Subtree[left[root]]
      BY <2>2, <2>3, RootIs
    <3>2. QED
      BY <2>1, <2>3, <3>1 DEF QuietInv, Settled
  <2>4. QED
    BY <1>1, <1>2, <2>1, <2>3 DEF QuietInv, PrintInv
<1>6. QED
  BY <1>3, <1>4, <1>5

(* Every step keeps what the passes have found.                                  *)
LEMMA NextKeepsQuiet ==
  ASSUME IInv, GotInv, ArityInv, QuietInv, PrintInv, [Next]_vars
  PROVE  QuietInv' /\ PrintInv'
<1>1. CASE BeginPass \/ RefuseTree \/ BeginCollapse \/ EndPass
  BY <1>1, TurnKeepsQuiet
<1>2. CASE Descend
  <2>1. phase' # "print"
    BY <1>2 DEF Descend
  <2>2. QED
    BY <1>2, <2>1, DescendKeepsQuiet DEF PrintInv
<1>3. CASE ComputeLeaf \/ ComputeUnknown \/ CollapseNothing
  <2>1. phase' # "print"
    BY <1>3 DEF ComputeLeaf, ComputeUnknown, CollapseNothing, Running
  <2>2. QED
    BY <1>3, <2>1, ReturnKeepsQuiet DEF PrintInv
<1>4. CASE ComputeFold \/ CollapseToConstant \/ CollapseToChild
  <2>1. phase' # "print" /\ changed'
    BY <1>4 DEF ComputeFold, CollapseToConstant, CollapseToChild, Running
  <2>2. QED
    BY <2>1 DEF QuietInv, PrintInv
<1>5. CASE WriteReport \/ UseFreed
  <2>1. phase' \notin {"compute", "collapse"}
    BY <1>5 DEF WriteReport, WriteExpression, DeleteReassignment, EndDelete, DestroyTree,
         UseFreed
  <2>2. phase' = "print" => phase = "print" /\ UNCHANGED <<root, fields, order>>
    BY <1>5 DEF WriteReport, WriteExpression, DeleteReassignment, EndDelete, DestroyTree,
         UseFreed
  <2>3. PrintInv'
    BY <2>2, HeapSame DEF PrintInv
  <2>4. QED
    BY <2>1, <2>3 DEF QuietInv
<1>6. CASE UNCHANGED vars
  <2>1. UNCHANGED <<root, fields, order>> /\ phase' = phase /\ stack' = stack /\ changed' = changed
    BY <1>6 DEF vars
  <2>2. /\ \A c : Settled(c)' = Settled(c)
        /\ \A i, j : Visit(i, j)' = Visit(i, j)
    BY <2>1, HeapSame, LinksSame DEF Settled, Visit
  <2>3. QuietInv'
    BY <2>1, <2>2, HeapSame DEF QuietInv
  <2>4. PrintInv'
    BY <2>1, HeapSame DEF PrintInv
  <2>5. QED
    BY <2>3, <2>4
<1>7. QED
  BY <1>1, <1>2, <1>3, <1>4, <1>5, <1>6 DEF Next, OptimizeTree

(* The derivative of a formula has its operands in their places.                    *)
LEMMA InitArity ==
  ASSUME Init, \A d \in Derivatives : Proper(d)
  PROVE  ArityInv
<1>1. PICK d \in Derivatives :
        /\ root = d.root
        /\ kind   = Extended(d, d.kind, "NUMERIC_NODE")
        /\ left   = Extended(d, d.left, NULL)
        /\ right  = Extended(d, d.right, NULL)
  BY DEF Init
<1>2. LaidOut(d) /\ Proper(d)
  BY DerivativeAssumption
<1>3. /\ Addresses = AllAddresses(d) /\ root \in Nodes(d)
      /\ \A a \in Addresses :
           /\ kind[a]  = IF a \in Nodes(d) THEN d.kind[a] ELSE "NUMERIC_NODE"
           /\ left[a]  = IF a \in Nodes(d) THEN d.left[a] ELSE NULL
           /\ right[a] = IF a \in Nodes(d) THEN d.right[a] ELSE NULL
  BY <1>1, <1>2 DEF Extended, Addresses, LaidOut
<1>4. \A a \in Nodes(d) : a \in Addresses
  BY <1>3 DEF AllAddresses
<1>5. right[root] = NULL
  BY <1>1, <1>2, <1>3, <1>4 DEF Proper
<1>6. "NUMERIC_NODE" \notin FunctionOps
  BY DEF FunctionOps
<1>7. QED
  BY <1>2, <1>3, <1>5, <1>6 DEF ArityInv, Proper, IsOperation

(* Of formulas: when OptimizeTree leaves its loop and the report is printed, no operation of the    *)
(* derivative has a neutral operand, and none has a number as its value: a pass that   *)
(* reports no change has visited every node and found nothing to do.               *)
THEOREM OptimizesCompletely ==
  ASSUME \A d \in Derivatives : Proper(d)
  PROVE  Spec => []NothingLeft
<1>1. Init => LInv
  <2>1. ASSUME Init PROVE GotInv /\ QuietInv /\ PrintInv
    BY <2>1 DEF Init, GotInv, QuietInv, PrintInv
  <2>2. QED
    BY <2>1, InitIInv, InitArity DEF LInv
<1>2. LInv /\ [Next]_vars => LInv'
  BY NextKeepsInv, NextKeepsGot, ArityKept, NextKeepsQuiet DEF LInv
<1>3. LInv => NothingLeft
  BY DEF LInv, PrintInv, NothingLeft, InTree, Computed, Collapsed
<1>4. QED
  BY <1>1, <1>2, <1>3, PTL DEF Spec

-----------------------------------------------------------------------------
(* The derivative as a term.                                                    *)

(* The term below a link.                                                      *)
TermAt(n) == IF n = NULL THEN <<>> ELSE TermBelow[n]

(* The term below a node is made of those below its children.                      *)
TermInv ==
  /\ \A n \in Addresses : TermBelow[n] \in Terms(Labels)
  /\ \A n \in Addresses : TermBelow[n] = Joined(LabelOf(n), TermAt(left[n]), TermAt(right[n]))

LEMMA LabelIs ==
  ASSUME TypeInv, NEW n \in Addresses
  PROVE  LabelOf(n) \in Labels
<1>1. kind[n] \in Kinds /\ value[n] \in Number \cup Variables
  BY DEF TypeInv, TypeOK
<1>2. QED
  BY <1>1, NumberAssumption DEF LabelOf, Labels

(* The recursive definition has a solution.                                     *)
LEMMA TermIs ==
  ASSUME TypeInv, AddressInv, ShapeInv
  PROVE  TermInv
<1> DEFINE F(f) == f = [n \in Addresses |->
             Joined(LabelOf(n), IF left[n]  = NULL THEN <<>> ELSE f[left[n]],
                                IF right[n] = NULL THEN <<>> ELSE f[right[n]])]
           values == Terms(Labels)
           step == [t \in Addresses \X values \X values |-> Joined(LabelOf(t[1]), t[2], t[3])]
           term == CHOOSE f : F(f)
<1>1. PICK top \in Nat : \E rank \in [Addresses -> 0..top] : R!Ranked(Heap, rank, top)
  BY HeapIs
<1>2. PICK rank \in [Addresses -> 0..top] : R!Ranked(Heap, rank, top)
  BY <1>1
<1>3. /\ Heap.left = left /\ Heap.right = right /\ DOMAIN Heap.left = Addresses
      /\ \A n : R!Children(Heap, n) = Kids(n)
  BY HeapIs
<1>4. <<>> \in values
  BY TermsAre
<1>5. step \in [(DOMAIN Heap.left) \X values \X values -> values]
  <2>1. ASSUME NEW t \in Addresses \X values \X values
        PROVE  Joined(LabelOf(t[1]), t[2], t[3]) \in values
    <3>1. t[1] \in Addresses /\ t[2] \in values /\ t[3] \in values
      OBVIOUS
    <3>2. LabelOf(t[1]) \in Labels
      BY <3>1, LabelIs
    <3>3. QED
      BY <3>1, <3>2, JoinedTerm
  <2> HIDE DEF values
  <2>2. QED
    BY <1>3, <2>1
<1> HIDE DEF values
<1>6. PICK f : R!Computes(Heap, values, step, <<>>, f)
  <2> HIDE DEF step
  <2>1. QED
    BY <1>2, <1>4, <1>5, R!TreeRecursion
<1>7. f \in [Addresses -> values] /\ left \in [Addresses -> Links] /\ right \in [Addresses -> Links]
  BY <1>3, <1>6 DEF R!Computes, TypeInv, TypeOK
<1>8. ASSUME NEW n \in Addresses
      PROVE  f[n] = Joined(LabelOf(n), IF left[n]  = NULL THEN <<>> ELSE f[left[n]],
                                       IF right[n] = NULL THEN <<>> ELSE f[right[n]])
  <2> DEFINE l == R!Of(f, <<>>, left[n])
             r == R!Of(f, <<>>, right[n])
  <2>1. f[n] = step[<<n, l, r>>]
    <3> HIDE DEF step
    <3>1. QED
      BY <1>3, <1>6 DEF R!Computes
  <2>2. l \in values /\ r \in values
    BY <1>4, <1>7 DEF R!Of, Links
  <2>3. l = (IF left[n] = NULL THEN <<>> ELSE f[left[n]]) /\ r = (IF right[n] = NULL THEN <<>> ELSE f[right[n]])
    BY DEF R!Of
  <2> HIDE DEF l, r
  <2>4. step[<<n, l, r>>] = Joined(LabelOf(n), l, r)
    BY <2>2
  <2>5. QED
    BY <2>1, <2>3, <2>4
<1>9. F(f)
  BY <1>7, <1>8
<1>10. F(term)
  BY <1>9
<1>11. TermBelow = term
  BY DEF TermBelow, LabelOf
<1> HIDE DEF term
<1>12. \A n \in Addresses : TermBelow[n] = Joined(LabelOf(n), TermAt(left[n]), TermAt(right[n]))
  BY <1>10, <1>11 DEF TermAt
<1> DEFINE K == {n \in Addresses : TermBelow[n] \in values}
<1>13. ASSUME NEW n \in Addresses, R!Children(Heap, n) \subseteq K
       PROVE  n \in K
  <2>1. TermAt(left[n]) \in values /\ TermAt(right[n]) \in values
    BY <1>3, <1>4, <1>13 DEF Kids, TermAt
  <2>2. LabelOf(n) \in Labels
    BY LabelIs
  <2>3. TermBelow[n] \in values
    BY <1>12, <2>1, <2>2, JoinedTerm DEF values
  <2>4. QED
    BY <2>3
<1>14. Addresses \subseteq K
  <2> HIDE DEF K
  <2>1. QED
    BY <1>2, <1>3, <1>13, R!TreeInduction
<1>15. QED
  BY <1>12, <1>14 DEF TermInv, values

LEMMA TermIsNext == (TypeInv /\ AddressInv /\ ShapeInv)' => TermInv'
<1>1. TypeInv /\ AddressInv /\ ShapeInv => TermInv
  BY TermIs
<1>2. QED
  BY <1>1, PTL

(* Nothing is below its own child.                                              *)
LEMMA NotBelowChild ==
  ASSUME TypeInv, AddressInv, ShapeInv, NEW m \in Addresses, NEW c \in Kids(m)
  PROVE  c \in Addresses /\ m \notin Subtree[c]
<1>1. c \in Addresses /\ ~IsConstant(m) /\ (IsConstant(c) \/ Extends(c, m))
  BY DEF Kids, TypeInv, TypeOK, Links, AddressInv, ShapeInv
<1>2. CASE IsConstant(c)
  <2> DEFINE K == {c}
  <2>1. \A a \in Addresses \cap K : Kids(a) \subseteq K
    BY <1>2 DEF AddressInv, Kids
  <2>2. c \in Addresses \cap K
    BY <1>1
  <2> HIDE DEF K
  <2>3. Subtree[c] \subseteq K
    BY <2>1, <2>2, SubtreeWithin
  <2>4. QED
    BY <1>1, <1>2, <2>3 DEF K
<1>3. CASE Extends(c, m)
  <2>1. m \in Subtree[c] => m = c \/ Extends(m, c)
    BY <1>1, SubtreeIs
  <2>2. QED
    BY <1>1, <1>3, <2>1, ExtendsOrder DEF AddressInv
<1>4. QED
  BY <1>1, <1>2, <1>3

(* In the tree, nothing is below both children of a node.                           *)
LEMMA SiblingsApart ==
  ASSUME HeapInv, NEW m \in live \ manualDelete, left[m] # NULL, right[m] # NULL
  PROVE  Subtree[left[m]] \cap Subtree[right[m]] = {}
<1> USE DEF HeapInv
<1>1. PICK l : l = left[m]
  OBVIOUS
<1>2. PICK r : r = right[m]
  OBVIOUS
<1>3. /\ m \in Addresses /\ l \in Kids(m) /\ r \in Kids(m) /\ Kids(m) = Mine(m)
      /\ l \in live \ manualDelete /\ r \in live \ manualDelete /\ l # r /\ live \subseteq Addresses
  BY <1>1, <1>2 DEF Kids, Mine, ForestInv, OwnedLive, TopsFree, ShapeInv, TypeInv, TypeOK
<1>4. m \notin Subtree[l] /\ m \notin Subtree[r] /\ r \in Subtree[r] /\ r \in Addresses
  BY <1>3, NotBelowChild, SubtreeIs
<1>5. \A a \in live \ Subtree[l] : \A c \in Mine(a) : c \in Subtree[l] => c = l
  BY <1>3, TreeAllocated
<1>6. Subtree[r] \subseteq live \ manualDelete
  BY <1>3, TreeAllocated
<1> DEFINE K == Subtree[r] \ Subtree[l]
<1>7. r \in K
  BY <1>3, <1>4, <1>5
<1>8. ASSUME NEW a \in Addresses \cap K, NEW c \in Kids(a)
      PROVE  c \in K
  <2>1. c \in Subtree[r] /\ a \in live \ manualDelete /\ c \in Mine(a) /\ a # m
    BY <1>4, <1>6, <1>8, SubtreeIs DEF Mine
  <2>2. c # l
    BY <1>3, <2>1 DEF ForestInv, OneOwner
  <2>3. QED
    BY <1>5, <1>8, <2>1, <2>2
<1>9. Subtree[r] \subseteq K
  <2>1. r \in Addresses \cap K
    BY <1>4, <1>7
  <2> HIDE DEF K
  <2>2. QED
    BY <1>8, <2>1, SubtreeWithin
<1>10. QED
  BY <1>1, <1>2, <1>9

(* The calls work on nodes of the tree.                                          *)
LEMMA CallsBelowRoot ==
  ASSUME IInv, stack # <<>>
  PROVE  Current \in Subtree[root]
<1>1. root \in Addresses /\ TypeInv /\ AddressInv /\ ShapeInv
  BY DEF IInv, AddressInv
<1>2. root \in Subtree[root] /\ \A a \in Subtree[root] : Kids(a) \subseteq Subtree[root]
  BY <1>1, SubtreeIs
<1>3. Len(stack) \in Nat \ {0} /\ Current = stack[Len(stack)].node
  BY CallsInTree, CurrentIs
<1>4. ASSUME NEW i \in 1..Len(stack), i # 1 => stack[i - 1].node \in Subtree[root]
      PROVE  stack[i].node \in Subtree[root]
  <2>1. stack[i].node \in Kids(Above(i))
    BY CallsInTree
  <2>2. Above(i) \in Subtree[root]
    BY <1>2, <1>4 DEF Above
  <2>3. QED
    BY <1>2, <2>1, <2>2
<1> DEFINE Bad == {i \in 1..Len(stack) : stack[i].node \notin Subtree[root]}
<1>5. Bad = {}
  <2> SUFFICES ASSUME Bad # {} PROVE FALSE
    OBVIOUS
  <2>1. Bad \subseteq Nat
    OBVIOUS
  <2>2. PICK i \in Bad : \A j \in Bad : i <= j
    <3> HIDE DEF Bad
    <3>1. QED
      BY <2>1, SmallestNat
  <2>3. i # 1 => i - 1 \in 1..Len(stack) /\ i - 1 \notin Bad
    BY <1>3, <2>2
  <2>4. i # 1 => stack[i - 1].node \in Subtree[root]
    BY <2>3
  <2>5. QED
    BY <1>4, <2>2, <2>4
<1>6. QED
  BY <1>3, <1>5

LEMMA SubtreeJoins ==
  ASSUME TypeInv, AddressInv, ShapeInv, NEW n \in Addresses
  PROVE  Subtree[n] = {n} \cup UNION {Subtree[c] : c \in Kids(n)}
<1>1. R!IsBelow(Heap, Subtree) /\ Heap.left = left /\ Heap.right = right /\ DOMAIN Heap.left = Addresses
  BY SubtreeIsBelow, HeapIs
<1>2. Subtree[n] = {n} \cup R!Of(Subtree, {}, left[n]) \cup R!Of(Subtree, {}, right[n])
  BY <1>1 DEF R!IsBelow
<1>3. QED
  BY <1>2 DEF R!Of, Kids

(* A replacement is a graft: the term below what replaces a node takes the place of the   *)
(* term below the node, and nothing else of the term changes.                         *)
LEMMA ReplacementGrafts ==
  ASSUME IInv, IInv', NEW new, NEW result, GivesWay(new, result), NEW n, n = Current
  PROVE  /\ \E path \in Path :
              /\ HasBelow(TermBelow[root], path, TermBelow[n])
              /\ TermBelow'[root'] = Grafted(TermBelow[root], path, TermBelow'[new])
         /\ \A m \in Subtree[root] : n \notin Subtree[m] => TermBelow'[m] = TermBelow[m]
<1>1. /\ stack # <<>> /\ Addresses' = Addresses /\ root' = root /\ NULL \notin Addresses
      /\ root \in live \ manualDelete /\ n \in Addresses /\ new \in Addresses
      /\ HeapInv /\ TypeInv /\ AddressInv /\ ShapeInv
  <2>1. stack # <<>> /\ Replaced(n, parent[n], new) /\ Detaches(n, parent[n], new) /\ HeapInv
    BY DEF GivesWay, IInv, HeapInv
  <2>2. PICK p : p = parent[n]
    OBVIOUS
  <2>3. n \in Addresses /\ new \in Addresses
    BY <2>1, <2>2, ReplacedIs
  <2>4. Addresses' = Addresses /\ root' = root
    BY <2>1 DEF Detaches, Addresses
  <2>5. root \in live \ manualDelete
    BY <2>1, CallsInTree DEF IInv, ForestInv
  <2>6. QED
    BY <2>1, <2>3, <2>4, <2>5 DEF IInv, AddressInv
<1>2. PICK u : u = TermBelow'[new]
  OBVIOUS
<1>3. TermInv /\ TermInv'
  BY TermIs, TermIsNext DEF IInv
<1>4. /\ \A a \in Addresses : TermBelow[a] \in Terms(Labels)
      /\ \A a \in Addresses : TermBelow[a] = Joined(LabelOf(a), TermAt(left[a]), TermAt(right[a]))
  BY <1>3 DEF TermInv
<1>5. /\ \A a \in Addresses : TermBelow'[a] \in Terms(Labels)
      /\ \A a \in Addresses : TermBelow'[a] = Joined(LabelOf(a)', TermAt(left[a])', TermAt(right[a])')
  <2>1. Labels' = Labels
    BY DEF Labels
  <2>2. QED
    BY <1>1, <1>3, <2>1 DEF TermInv
<1>6. u \in Terms(Labels) /\ <<>> \in Terms(Labels)
  BY <1>1, <1>2, <1>5, TermsAre
<1>7. /\ n \in Subtree[root] /\ Subtree[root] \subseteq live \ manualDelete
      /\ live \subseteq Addresses /\ root \in Subtree[root]
      /\ \A a \in Subtree[root] : Kids(a) \subseteq Subtree[root]
  <2>1. live \subseteq Addresses
    BY DEF IInv, TypeInv, TypeOK
  <2>2. QED
    BY <1>1, <2>1, CallsBelowRoot, TreeAllocated, SubtreeIs
<1>8. /\ \A a \in Addresses : /\ left'[a]  = NULL <=> left[a]  = NULL
                              /\ right'[a] = NULL <=> right[a] = NULL
      /\ \A a \in live \ manualDelete : \A side :
           Child(a, side)' = IF Child(a, side) = n THEN new ELSE Child(a, side)
      /\ \A a \in live : LabelOf(a)' = LabelOf(a)
  BY GivesWayIs
<1> DEFINE W(c) == IF c = n THEN u ELSE TermBelow'[c]
           V(c) == IF c = NULL THEN <<>> ELSE W(c)
<1>9. ASSUME NEW m \in Subtree[root], m # n
      PROVE  /\ W(m) = Joined(LabelOf(m), V(left[m]), V(right[m]))
             /\ TermBelow[m] = Joined(LabelOf(m), TermAt(left[m]), TermAt(right[m]))
             /\ V(left[m]) \in Terms(Labels) /\ V(right[m]) \in Terms(Labels)
             /\ TermAt(left[m]) \in Terms(Labels) /\ TermAt(right[m]) \in Terms(Labels)
  <2>1. m \in Addresses /\ m \in live \ manualDelete
    BY <1>7
  <2>2. left[m] \in Addresses \cup {NULL} /\ right[m] \in Addresses \cup {NULL}
    BY <2>1 DEF IInv, TypeInv, TypeOK, Links
  <2>3. /\ left'[m]  = IF left[m]  = n THEN new ELSE left[m]
        /\ right'[m] = IF right[m] = n THEN new ELSE right[m]
    <3>1. Child(m, "left")' = left'[m] /\ Child(m, "right")' = right'[m]
      BY DEF Child
    <3>2. Child(m, "left") = left[m] /\ Child(m, "right") = right[m]
      BY DEF Child
    <3>3. QED
      BY <1>8, <2>1, <3>1, <3>2
  <2>4. TermAt(left[m])' = V(left[m]) /\ TermAt(right[m])' = V(right[m])
    <3>1. /\ TermAt(left[m])' = IF left'[m] = NULL THEN <<>> ELSE TermBelow'[left'[m]]
          /\ TermAt(right[m])' = IF right'[m] = NULL THEN <<>> ELSE TermBelow'[right'[m]]
      BY DEF TermAt
    <3>2. n # NULL /\ new # NULL
      BY <1>1
    <3>3. QED
      BY <1>2, <2>3, <3>1, <3>2
  <2>5. LabelOf(m)' = LabelOf(m)
    BY <1>8, <2>1
  <2>6. TermBelow'[m] = Joined(LabelOf(m), V(left[m]), V(right[m]))
    <3>1. TermBelow'[m] = Joined(LabelOf(m)', TermAt(left[m])', TermAt(right[m])')
      BY <1>5, <2>1
    <3> HIDE DEF V
    <3>2. QED
      BY <2>4, <2>5, <3>1
  <2>7. V(left[m]) \in Terms(Labels) /\ V(right[m]) \in Terms(Labels)
    BY <1>5, <1>6, <2>2
  <2>8. TermAt(left[m]) \in Terms(Labels) /\ TermAt(right[m]) \in Terms(Labels)
    BY <1>4, <1>6, <2>2 DEF TermAt
  <2>9. W(m) = TermBelow'[m]
    BY <1>9
  <2>10. QED
    BY <1>4, <2>1, <2>6, <2>7, <2>8, <2>9
<1> HIDE DEF V
<1> DEFINE Grafts(m) == \E path \in Path : /\ HasBelow(TermBelow[m], path, TermBelow[n])
                                           /\ W(m) = Grafted(TermBelow[m], path, u)
           Same(m) == W(m) = TermBelow[m]
           K == {m \in Addresses : m \in Subtree[root] => IF n \in Subtree[m] THEN Grafts(m) ELSE Same(m)}
<1>10. ASSUME NEW c, c = NULL \/ Same(c)
       PROVE  V(c) = TermAt(c)
  BY <1>10 DEF V, TermAt
<1>11. \A c : c # NULL => V(c) = W(c) /\ TermAt(c) = TermBelow[c]
  BY DEF V, TermAt
<1>12. Grafts(n)
  <2>1. HasBelow(TermBelow[n], <<>>, TermBelow[n])
    BY BelowRoot
  <2>2. W(n) = Grafted(TermBelow[n], <<>>, u)
    BY <1>1, <1>4, <1>6, GraftRoot
  <2>3. <<>> \in Path
    BY DEF Path
  <2>4. QED
    BY <2>1, <2>2, <2>3
<1> HIDE DEF W
<1>13. ASSUME NEW m \in Addresses, Kids(m) \subseteq K
       PROVE  m \in K
  <2> SUFFICES ASSUME m \in Subtree[root], m # n
               PROVE  IF n \in Subtree[m] THEN Grafts(m) ELSE Same(m)
    <3>1. n \in Subtree[n]
      BY <1>1, SubtreeIs
    <3>2. QED
      BY <1>12, <3>1
  <2>1. Subtree[m] = {m} \cup UNION {Subtree[c] : c \in Kids(m)}
    BY <1>1, SubtreeJoins
  <2>2. \A c \in Kids(m) : IF n \in Subtree[c] THEN Grafts(c) ELSE Same(c)
    BY <1>7, <1>13
  <2>3. /\ left[m]  # NULL => left[m]  \in Kids(m)
        /\ right[m] # NULL => right[m] \in Kids(m)
        /\ Kids(m) \subseteq {left[m], right[m]} /\ NULL \notin Kids(m)
    BY DEF Kids
  <2>4. /\ W(m) = Joined(LabelOf(m), V(left[m]), V(right[m]))
        /\ TermBelow[m] = Joined(LabelOf(m), TermAt(left[m]), TermAt(right[m]))
        /\ V(left[m]) \in Terms(Labels) /\ V(right[m]) \in Terms(Labels)
        /\ TermAt(left[m]) \in Terms(Labels) /\ TermAt(right[m]) \in Terms(Labels)
    BY <1>9
  <2> HIDE DEF Grafts, Same, K
  <2>5. ASSUME NEW c \in {left[m], right[m]}, c = NULL \/ n \notin Subtree[c]
        PROVE  V(c) = TermAt(c)
    BY <1>10, <2>2, <2>3, <2>5
  <2>6. CASE n \notin Subtree[m]
    <3>1. V(left[m]) = TermAt(left[m]) /\ V(right[m]) = TermAt(right[m])
      BY <2>1, <2>3, <2>5, <2>6
    <3>2. QED
      BY <2>4, <2>6, <3>1 DEF Same
  <2>7. m \in live \ manualDelete
    BY <1>7
  <2>8. CASE left[m] # NULL /\ n \in Subtree[left[m]]
    <3>1. right[m] = NULL \/ n \notin Subtree[right[m]]
      BY <1>1, <2>7, <2>8, SiblingsApart
    <3>2. V(right[m]) = TermAt(right[m])
      BY <2>5, <3>1
    <3>3. PICK path \in Path : /\ HasBelow(TermBelow[left[m]], path, TermBelow[n])
                               /\ W(left[m]) = Grafted(TermBelow[left[m]], path, u)
      BY <2>2, <2>3, <2>8 DEF Grafts
    <3>4. PICK l : l \in Terms(Labels) /\ l = TermAt(left[m])
      BY <2>4
    <3>5. PICK r : r \in Terms(Labels) /\ r = TermAt(right[m])
      BY <2>4
    <3>6. V(left[m]) = Grafted(l, path, u) /\ HasBelow(Branch(l, r, 1), path, TermBelow[n])
      BY <1>11, <2>8, <3>3, <3>4 DEF Branch
    <3>7. W(m) = Joined(LabelOf(m), Grafted(l, path, u), r) /\ TermBelow[m] = Joined(LabelOf(m), l, r)
      BY <2>4, <3>2, <3>4, <3>5, <3>6
    <3>8. << 1 >> \o path \in Path
      BY PushIs
    <3>9. HasBelow(TermBelow[m], << 1 >> \o path, TermBelow[n])
      BY <3>4, <3>5, <3>6, <3>7, BelowBranch
    <3>10. W(m) = Grafted(TermBelow[m], << 1 >> \o path, u)
      <4>1. PICK top : top = LabelOf(m)
        OBVIOUS
      <4>2. PICK labels : labels = Labels
        OBVIOUS
      <4>3. l \in Terms(labels) /\ r \in Terms(labels) /\ u \in Terms(labels) /\ path \in Path
        BY <1>6, <3>4, <3>5, <4>2
      <4>4. Grafted(Joined(top, l, r), Pushed(1, path), u) = Joined(top, Grafted(l, path, u), r)
        BY <4>3, GraftLeft
      <4>5. QED
        BY <3>7, <4>1, <4>4 DEF Pushed
    <3>11. Grafts(m)
      BY <3>8, <3>9, <3>10 DEF Grafts
    <3>12. n \in Subtree[m]
      BY <2>1, <2>3, <2>8
    <3>13. QED
      BY <3>11, <3>12
  <2>9. CASE right[m] # NULL /\ n \in Subtree[right[m]]
    <3>1. left[m] = NULL \/ n \notin Subtree[left[m]]
      BY <1>1, <2>7, <2>9, SiblingsApart
    <3>2. V(left[m]) = TermAt(left[m])
      BY <2>5, <3>1
    <3>3. PICK path \in Path : /\ HasBelow(TermBelow[right[m]], path, TermBelow[n])
                               /\ W(right[m]) = Grafted(TermBelow[right[m]], path, u)
      BY <2>2, <2>3, <2>9 DEF Grafts
    <3>4. PICK l : l \in Terms(Labels) /\ l = TermAt(left[m])
      BY <2>4
    <3>5. PICK r : r \in Terms(Labels) /\ r = TermAt(right[m])
      BY <2>4
    <3>6. V(right[m]) = Grafted(r, path, u) /\ HasBelow(Branch(l, r, 2), path, TermBelow[n])
      BY <1>11, <2>9, <3>3, <3>5 DEF Branch
    <3>7. W(m) = Joined(LabelOf(m), l, Grafted(r, path, u)) /\ TermBelow[m] = Joined(LabelOf(m), l, r)
      BY <2>4, <3>2, <3>4, <3>5, <3>6
    <3>8. << 2 >> \o path \in Path
      BY PushIs
    <3>9. HasBelow(TermBelow[m], << 2 >> \o path, TermBelow[n])
      BY <3>4, <3>5, <3>6, <3>7, BelowBranch
    <3>10. W(m) = Grafted(TermBelow[m], << 2 >> \o path, u)
      <4>1. PICK top : top = LabelOf(m)
        OBVIOUS
      <4>2. PICK labels : labels = Labels
        OBVIOUS
      <4>3. l \in Terms(labels) /\ r \in Terms(labels) /\ u \in Terms(labels) /\ path \in Path
        BY <1>6, <3>4, <3>5, <4>2
      <4>4. Grafted(Joined(top, l, r), Pushed(2, path), u) = Joined(top, l, Grafted(r, path, u))
        BY <4>3, GraftRight
      <4>5. QED
        BY <3>7, <4>1, <4>4 DEF Pushed
    <3>11. Grafts(m)
      BY <3>8, <3>9, <3>10 DEF Grafts
    <3>12. n \in Subtree[m]
      BY <2>1, <2>3, <2>9
    <3>13. QED
      BY <3>11, <3>12
  <2>10. QED
    BY <2>1, <2>3, <2>6, <2>8, <2>9
<1>14. Addresses \subseteq K
  <2>1. PICK top \in Nat : \E rank \in [Addresses -> 0..top] : R!Ranked(Heap, rank, top)
    BY <1>1, HeapIs
  <2>2. PICK rank \in [Addresses -> 0..top] : R!Ranked(Heap, rank, top)
    BY <2>1
  <2>3. DOMAIN Heap.left = Addresses /\ \A a : R!Children(Heap, a) = Kids(a)
    BY <1>1, HeapIs
  <2>4. \A a \in DOMAIN Heap.left : R!Children(Heap, a) \subseteq K => a \in K
    BY <1>13, <2>3
  <2> HIDE DEF K
  <2>5. QED
    BY <2>2, <2>3, <2>4, R!TreeInduction
<1>15. Grafts(root)
  BY <1>1, <1>7, <1>14
<1>16. root # n
  BY <1>1, CurrentIs
<1>17. W(root) = TermBelow'[root']
  BY <1>1, <1>16 DEF W
<1>18. ASSUME NEW m \in Subtree[root], n \notin Subtree[m]
       PROVE  TermBelow'[m] = TermBelow[m]
  <2>1. m \in K /\ m # n
    BY <1>1, <1>7, <1>14, <1>18, SubtreeIs
  <2>2. W(m) = TermBelow[m]
    BY <1>18, <2>1
  <2>3. QED
    BY <2>1, <2>2 DEF W
<1>19. QED
  BY <1>2, <1>15, <1>17, <1>18

(* The simplifier's trees are those of the lemmas.                                 *)
LEMMA SimplifierTrees ==
  /\ \A tree, path, u : S!Grafted(tree, path, u) = Grafted(tree, path, u)
  /\ \A tree, path : S!SubtreeAt(tree, path) = SubtreeAt(tree, path)
  /\ \A v : S!Constant(v) = Joined([kind |-> "NUMERIC_NODE", value |-> v], <<>>, <<>>)
  /\ \A path : S!Left(path) = Append(path, 1) /\ S!Right(path) = Append(path, 2)
  /\ S!OperationNames = OperationNames /\ S!BinaryOps = BinaryOps
<1>1. \A p, q : S!IsPrefix(p, q) <=> IsPrefix(p, q)
  BY DEF S!IsPrefix, IsPrefix
<1>2. \A tree, path, u : S!Grafted(tree, path, u) = Grafted(tree, path, u)
  BY <1>1 DEF S!Grafted, Grafted
<1>3. \A tree, path : S!SubtreeAt(tree, path) = SubtreeAt(tree, path)
  BY <1>1 DEF S!SubtreeAt, SubtreeAt
<1>4. \A v : S!Constant(v) = Joined([kind |-> "NUMERIC_NODE", value |-> v], <<>>, <<>>)
  BY DEF S!Constant, S!Joined, Joined, S!Under, Under
<1>5. \A path : S!Left(path) = Append(path, 1) /\ S!Right(path) = Append(path, 2)
  BY DEF S!Left, S!Right
<1>6. S!OperationNames = OperationNames /\ S!BinaryOps = BinaryOps
  BY DEF S!OperationNames, OperationNames, S!BinaryOps, BinaryOps, S!Brackets, Brackets,
         S!FunctionOps, FunctionOps
<1>7. QED
  BY <1>2, <1>3, <1>4, <1>5, <1>6

(* What a term that has a node's term at a path says of the node and its children.   *)
LEMMA ChildIs ==
  ASSUME TypeInv, AddressInv, ShapeInv, NEW c \in Links, NEW tree, tree \in Terms(Labels),
         NEW path \in Path, HasBelow(tree, path, TermAt(c))
  PROVE  /\ S!Value(tree, path) = Operand(c)
         /\ S!SubtreeAt(tree, path) = TermAt(c)
<1>1. TermInv
  BY TermIs
<1>2. TermAt(c) \in Terms(Labels)
  <2>1. <<>> \in Terms(Labels)
    BY TermsAre
  <2>2. QED
    BY <1>1, <2>1 DEF TermInv, TermAt, Links
<1>3. S!SubtreeAt(tree, path) = TermAt(c)
  BY <1>2, BelowIsSubtree, SimplifierTrees
<1>4. CASE c = NULL
  <2> DEFINE empty == <<>>
  <2>1. empty \in Path /\ path \o empty = path /\ empty \notin DOMAIN TermAt(c)
    BY <1>4 DEF TermAt, Path
  <2> HIDE DEF empty
  <2>2. path \notin DOMAIN tree
    BY <2>1 DEF HasBelow
  <2>3. QED
    BY <1>3, <1>4, <2>2 DEF S!Value, Operand
<1>5. CASE c # NULL
  <2>1. c \in Addresses
    BY <1>5 DEF Links
  <2>2. PICK l : l \in Terms(Labels) /\ l = TermAt(left[c])
    <3>1. left[c] \in Links /\ <<>> \in Terms(Labels)
      BY <2>1, TermsAre DEF TypeInv, TypeOK
    <3>2. QED
      BY <1>1, <3>1 DEF TermInv, TermAt, Links
  <2>3. PICK r : r \in Terms(Labels) /\ r = TermAt(right[c])
    <3>1. right[c] \in Links /\ <<>> \in Terms(Labels)
      BY <2>1, TermsAre DEF TypeInv, TypeOK
    <3>2. QED
      BY <1>1, <3>1 DEF TermInv, TermAt, Links
  <2>4. HasBelow(tree, path, Joined(LabelOf(c), l, r))
    BY <1>1, <1>5, <2>1, <2>2, <2>3 DEF TermInv, TermAt
  <2>5. path \in DOMAIN tree /\ tree[path] = LabelOf(c)
    BY <2>2, <2>3, <2>4, BelowJoined
  <2>6. LabelOf(c).kind = kind[c] /\ (kind[c] = "NUMERIC_NODE" => LabelOf(c).value = value[c])
    BY DEF LabelOf, IsOperation, OperationNames, BinaryOps, FunctionOps, Brackets
  <2>7. QED
    BY <1>3, <1>5, <2>5, <2>6 DEF S!Value, Operand
<1>6. QED
  BY <1>4, <1>5

LEMMA NodeIs ==
  ASSUME TypeInv, AddressInv, ShapeInv, NEW n \in Addresses, NEW tree, tree \in Terms(Labels),
         NEW path \in Path, HasBelow(tree, path, TermBelow[n])
  PROVE  /\ path \in DOMAIN tree /\ tree[path].kind = kind[n]
         /\ S!Value(tree, S!Left(path))  = Operand(left[n])
         /\ S!Value(tree, S!Right(path)) = Operand(right[n])
         /\ S!SubtreeAt(tree, S!Left(path))  = TermAt(left[n])
         /\ S!SubtreeAt(tree, S!Right(path)) = TermAt(right[n])
<1>1. TermInv
  BY TermIs
<1>2. left[n] \in Links /\ right[n] \in Links
  BY DEF TypeInv, TypeOK
<1>3. TermAt(left[n]) \in Terms(Labels) /\ TermAt(right[n]) \in Terms(Labels)
  <2>1. <<>> \in Terms(Labels)
    BY TermsAre
  <2>2. QED
    BY <1>1, <1>2, <2>1 DEF TermInv, TermAt, Links
<1>4. PICK l : l \in Terms(Labels) /\ l = TermAt(left[n])
  BY <1>3
<1>5. PICK r : r \in Terms(Labels) /\ r = TermAt(right[n])
  BY <1>3
<1>6. HasBelow(tree, path, Joined(LabelOf(n), l, r))
  BY <1>1, <1>4, <1>5 DEF TermInv
<1>7. /\ path \in DOMAIN tree /\ tree[path] = LabelOf(n)
      /\ HasBelow(tree, Append(path, 1), l) /\ HasBelow(tree, Append(path, 2), r)
  BY <1>4, <1>5, <1>6, BelowJoined
<1>8. Append(path, 1) \in Path /\ Append(path, 2) \in Path
  BY DEF Path
<1>9. S!Value(tree, Append(path, 1)) = Operand(left[n]) /\ S!SubtreeAt(tree, Append(path, 1)) = TermAt(left[n])
  BY <1>2, <1>4, <1>7, <1>8, ChildIs
<1>10. S!Value(tree, Append(path, 2)) = Operand(right[n]) /\ S!SubtreeAt(tree, Append(path, 2)) = TermAt(right[n])
  BY <1>2, <1>5, <1>7, <1>8, ChildIs
<1>11. tree[path].kind = kind[n]
  BY <1>7 DEF LabelOf
<1>12. QED
  BY <1>7, <1>9, <1>10, <1>11, SimplifierTrees

(* The term of a constant.                                                      *)
LEMMA ConstantIs ==
  TypeInv /\ AddressInv /\ ShapeInv =>
    \A c \in Addresses : IsConstant(c) => TermBelow[c] = S!Constant(value[c])
<1>1. ASSUME TypeInv, AddressInv, ShapeInv, NEW c \in Addresses, IsConstant(c)
      PROVE  TermBelow[c] = S!Constant(value[c])
  <2>1. TermBelow[c] = Joined(LabelOf(c), TermAt(left[c]), TermAt(right[c]))
    BY <1>1, TermIs DEF TermInv
  <2>2. kind[c] = "NUMERIC_NODE" /\ left[c] = NULL /\ right[c] = NULL
    BY <1>1 DEF AddressInv
  <2>3. LabelOf(c) = [kind |-> "NUMERIC_NODE", value |-> value[c]]
    BY <2>2 DEF LabelOf, IsOperation, OperationNames, BinaryOps, FunctionOps, Brackets
  <2>4. TermAt(left[c]) = <<>> /\ TermAt(right[c]) = <<>>
    BY <2>2 DEF TermAt
  <2>5. QED
    BY <2>1, <2>3, <2>4, SimplifierTrees
<1>2. QED
  BY <1>1

LEMMA ConstantIsNext ==
  ASSUME IInv'
  PROVE  \A c \in Addresses' : IsConstant(c) => TermBelow'[c] = S!Constant(value'[c])
<1>1. (TypeInv /\ AddressInv /\ ShapeInv)'
        => (\A c \in Addresses : IsConstant(c) => TermBelow[c] = S!Constant(value[c]))'
  BY ConstantIs, PTL
<1>2. QED
  BY <1>1 DEF IInv

(* A replacement rewrites the term if the rules let the node's term give way to what  *)
(* replaces it, wherever they find it.                                             *)
LEMMA ReplacementRewrites ==
  ASSUME IInv, IInv', NEW new, NEW result, GivesWay(new, result), NEW n, n = Current,
         ASSUME NEW tree, tree \in Terms(Labels), NEW path \in Path, HasBelow(tree, path, TermBelow[n])
         PROVE  TermBelow'[new] \in S!Folded(tree, path) \cup S!Collapsed(tree, path)
  PROVE  TermBelow'[root'] \in S!Rewritten(TermBelow[root])
<1>1. PICK tree : tree = TermBelow[root]
  OBVIOUS
<1>2. TypeInv /\ AddressInv /\ ShapeInv /\ root \in Addresses /\ n \in Addresses
  <2>1. stack # <<>>
    BY DEF GivesWay
  <2>2. QED
    BY <2>1, CurrentIs DEF IInv, AddressInv
<1>3. tree \in Terms(Labels)
  BY <1>1, <1>2, TermIs DEF TermInv
<1>4. PICK path \in Path : /\ HasBelow(tree, path, TermBelow[n])
                           /\ TermBelow'[root'] = Grafted(tree, path, TermBelow'[new])
  BY <1>1, ReplacementGrafts
<1>5. path \in DOMAIN tree
  BY <1>2, <1>3, <1>4, NodeIs
<1>6. TermBelow'[new] \in S!Folded(tree, path) \cup S!Collapsed(tree, path)
  BY <1>3, <1>4
<1>7. TermBelow'[root'] = S!Grafted(tree, path, TermBelow'[new])
  BY <1>4, SimplifierTrees
<1>8. QED
  BY <1>1, <1>5, <1>6, <1>7 DEF S!Rewritten

(* ComputeSubtreeInternal folds by the rule: the results it was given are the operands. *)
LEMMA FoldRewrites ==
  ASSUME IInv, IInv', GotInv, ComputeFold
  PROVE  TermBelow'[root'] \in S!Rewritten(TermBelow[root])
<1>1. PICK n : n = Current
  OBVIOUS
<1>2. stack # <<>> /\ phase = "compute" /\ IsOperation(n) /\ AllVisited
  BY <1>1 DEF ComputeFold, Running
<1>3. PICK v \in Evaluate(kind[n], Got("left"), Got("right")) \ {NaN} :
        GivesWay(Fresh(n), v) /\ value'[Fresh(n)] = v
  BY <1>1, FoldIs
<1>4. /\ Got("left")  = Operand(left[n])
      /\ Got("right") = IF kind[n] \in BinaryOps THEN Operand(right[n]) ELSE NaN
  BY <1>1, <1>2, GotOperands
<1>5. TypeInv /\ AddressInv /\ ShapeInv /\ n \in Addresses
  BY <1>1, <1>2, CurrentIs DEF IInv
<1>6. TermBelow'[Fresh(n)] = S!Constant(v)
  <2>1. Fresh(n) \in Addresses /\ IsConstant(Fresh(n))
    <3>1. ~IsConstant(n)
      BY <1>1, <1>2, CurrentIs
    <3>2. n \in Seq({1, 2}) /\ Fresh(n) \in Addresses
      BY <1>5, <3>1 DEF AddressInv
    <3>3. QED
      BY <3>2, FreshIs
  <2>2. Addresses' = Addresses
    BY DEF ComputeFold, Addresses
  <2>3. QED
    BY <1>3, <2>1, <2>2, ConstantIsNext
<1>7. ASSUME NEW tree, tree \in Terms(Labels), NEW path \in Path, HasBelow(tree, path, TermBelow[n])
      PROVE  TermBelow'[Fresh(n)] \in S!Folded(tree, path) \cup S!Collapsed(tree, path)
  <2>1. /\ tree[path].kind = kind[n]
        /\ S!Value(tree, S!Left(path))  = Operand(left[n])
        /\ S!Value(tree, S!Right(path)) = Operand(right[n])
    BY <1>5, <1>7, NodeIs
  <2>2. kind[n] \in OperationNames
    BY <1>2 DEF IsOperation
  <2>3. S!Constant(v) \in S!Folded(tree, path)
    BY <1>3, <1>4, <2>1, <2>2, SimplifierTrees DEF S!Folded
  <2>4. QED
    BY <1>6, <2>3
<1>8. QED
  BY <1>1, <1>3, <1>7, ReplacementRewrites

(* What the identities say of a node with a number as an operand.                    *)
LEMMA CollapsedIs ==
  ASSUME NEW tree, NEW path, NEW op, op = tree[path].kind,
         NEW l, l = S!SubtreeAt(tree, S!Left(path)), NEW r, r = S!SubtreeAt(tree, S!Right(path)),
         NEW x, x = S!Value(tree, S!Left(path)), NEW y, y = S!Value(tree, S!Right(path))
  PROVE  /\ op \in {"ADD", "SUB"} /\ x = Zero => r \in S!Collapsed(tree, path)
         /\ op \in {"ADD", "SUB"} /\ y = Zero => l \in S!Collapsed(tree, path)
         /\ op = "MUL" /\ (x = Zero \/ y = Zero) => S!Constant(Zero) \in S!Collapsed(tree, path)
         /\ op = "MUL" /\ x = One => r \in S!Collapsed(tree, path)
         /\ op = "MUL" /\ y = One => l \in S!Collapsed(tree, path)
         /\ op = "DIV" /\ x = Zero => S!Constant(Zero) \in S!Collapsed(tree, path)
         /\ op = "DIV" /\ y = One => l \in S!Collapsed(tree, path)
         /\ op = "POW" /\ y = Zero => S!Constant(One) \in S!Collapsed(tree, path)
         /\ op = "POW" /\ x = Zero => S!Constant(Zero) \in S!Collapsed(tree, path)
         /\ op = "POW" /\ y = One => l \in S!Collapsed(tree, path)
<1>1. CASE op \in {"ADD", "SUB"}
  <2>1. S!Collapsed(tree, path) = S!If(x = Zero, r) \cup S!If(y = Zero, l)
    BY <1>1 DEF S!Collapsed
  <2>2. QED
    BY <1>1, <2>1 DEF S!If
<1>2. CASE op = "MUL"
  <2>1. S!Collapsed(tree, path) = S!If(x = Zero \/ y = Zero, S!Constant(Zero)) \cup S!If(x = One, r) \cup S!If(y = One, l)
    BY <1>2 DEF S!Collapsed
  <2>2. QED
    BY <1>2, <2>1 DEF S!If
<1>3. CASE op = "DIV"
  <2>1. S!Collapsed(tree, path) = S!If(x = Zero, S!Constant(Zero)) \cup S!If(y = One, l)
    BY <1>3 DEF S!Collapsed
  <2>2. QED
    BY <1>3, <2>1 DEF S!If
<1>4. CASE op = "POW"
  <2>1. S!Collapsed(tree, path) = S!If(y = Zero, S!Constant(One)) \cup S!If(x = Zero, S!Constant(Zero)) \cup S!If(y = One, l)
    BY <1>4 DEF S!Collapsed
  <2>2. QED
    BY <1>4, <2>1 DEF S!If
<1>5. CASE op \notin {"ADD", "SUB", "MUL", "DIV", "POW"}
  BY <1>5
<1>6. QED
  BY <1>1, <1>2, <1>3, <1>4, <1>5

(* What ProcessNeutralElement finds is one of the identities.                       *)
LEMMA NeutralCollapses ==
  ASSUME TypeInv, AddressInv, ShapeInv, NEW n \in Addresses, Neutral(n) # NULL,
         NEW tree, tree \in Terms(Labels), NEW path \in Path, HasBelow(tree, path, TermBelow[n])
  PROVE  IF Neutral(n).result = NULL
         THEN TermBelow[Neutral(n).other] \in S!Collapsed(tree, path)
         ELSE S!Constant(Neutral(n).result) \in S!Collapsed(tree, path)
<1>1. PICK elements : elements = NeutralElements(kind[n])
  OBVIOUS
<1>2. PICK i \in DOMAIN elements, side \in Both :
        /\ IsNeutral(elements[i], n, side)
        /\ Neutral(n).result = elements[i].result
        /\ Neutral(n).other = Child(n, IF side = "left" THEN "right" ELSE "left")
  BY <1>1, NeutralIs
<1>3. PICK op : op = kind[n]
  OBVIOUS
<1>4. PICK x : x = Operand(left[n])
  OBVIOUS
<1>5. PICK y : y = Operand(right[n])
  OBVIOUS
<1>6. PICK l : l = TermAt(left[n])
  OBVIOUS
<1>7. PICK r : r = TermAt(right[n])
  OBVIOUS
<1>8. /\ op = tree[path].kind
      /\ l = S!SubtreeAt(tree, S!Left(path)) /\ r = S!SubtreeAt(tree, S!Right(path))
      /\ x = S!Value(tree, S!Left(path)) /\ y = S!Value(tree, S!Right(path))
  BY <1>3, <1>4, <1>5, <1>6, <1>7, NodeIs
<1>9. (IF side = "left" THEN x ELSE y) = elements[i].at /\ side \in elements[i].sides
  BY <1>2, <1>4, <1>5 DEF IsNeutral, Operand, Child
<1>10. TermBelow[Neutral(n).other] = IF side = "left" THEN r ELSE l
  <2>1. Neutral(n).other # NULL
    BY NeutralIs DEF Kids
  <2>2. QED
    BY <1>2, <1>6, <1>7, <2>1 DEF TermAt, Child, Both
<1>11. NULL \notin {Zero, One}
  BY NumberAssumption
<1> DEFINE found == IF elements[i].result = NULL THEN IF side = "left" THEN r ELSE l
                    ELSE S!Constant(elements[i].result)
<1>12. found \in S!Collapsed(tree, path)
  <2>1. CASE op \in {"ADD", "SUB"}
    <3>1. elements[i] = [at |-> Zero, sides |-> Both, result |-> NULL]
      BY <1>1, <1>2, <1>3, <2>1 DEF NeutralElements
    <3>2. QED
      BY <1>8, <1>9, <2>1, <3>1, CollapsedIs
  <2>2. CASE op = "MUL"
    <3>1. elements[i] \in {[at |-> Zero, sides |-> Both, result |-> Zero],
                           [at |-> One,  sides |-> Both, result |-> NULL]}
      BY <1>1, <1>2, <1>3, <2>2 DEF NeutralElements
    <3>2. CASE elements[i] = [at |-> Zero, sides |-> Both, result |-> Zero]
      <4>1. elements[i].at = Zero /\ elements[i].result = Zero /\ elements[i].sides = Both
        BY <3>2
      <4>2. QED
        BY <1>8, <1>9, <1>11, <2>2, <4>1, CollapsedIs
    <3>3. CASE elements[i] = [at |-> One, sides |-> Both, result |-> NULL]
      <4>1. elements[i].at = One /\ elements[i].result = NULL /\ elements[i].sides = Both
        BY <3>3
      <4>2. QED
        BY <1>8, <1>9, <1>11, <2>2, <4>1, CollapsedIs
    <3>4. QED
      BY <3>1, <3>2, <3>3
  <2>3. CASE op = "DIV"
    <3>1. elements[i] \in {[at |-> Zero, sides |-> {"left"}, result |-> Zero],
                           [at |-> One,  sides |-> RightOperand, result |-> NULL]}
      BY <1>1, <1>2, <1>3, <2>3 DEF NeutralElements
    <3>2. CASE elements[i] = [at |-> Zero, sides |-> {"left"}, result |-> Zero]
      <4>1. elements[i].at = Zero /\ elements[i].result = Zero /\ elements[i].sides = {"left"}
        BY <3>2
      <4>2. QED
        BY <1>8, <1>9, <1>11, <2>3, <4>1, CollapsedIs DEF RightOperand
    <3>3. CASE elements[i] = [at |-> One, sides |-> RightOperand, result |-> NULL]
      <4>1. elements[i].at = One /\ elements[i].result = NULL /\ elements[i].sides = RightOperand
        BY <3>3
      <4>2. QED
        BY <1>8, <1>9, <1>11, <2>3, <4>1, CollapsedIs DEF RightOperand
    <3>4. QED
      BY <3>1, <3>2, <3>3
  <2>4. CASE op = "POW"
    <3>1. elements[i] \in {[at |-> Zero, sides |-> RightOperand, result |-> One],
                           [at |-> Zero, sides |-> {"left"}, result |-> Zero],
                           [at |-> One,  sides |-> RightOperand, result |-> NULL]}
      BY <1>1, <1>2, <1>3, <2>4 DEF NeutralElements
    <3>2. CASE elements[i] = [at |-> Zero, sides |-> RightOperand, result |-> One]
      <4>1. elements[i].at = Zero /\ elements[i].result = One /\ elements[i].sides = RightOperand
        BY <3>2
      <4>2. QED
        BY <1>8, <1>9, <1>11, <2>4, <4>1, CollapsedIs DEF RightOperand
    <3>3. CASE elements[i] = [at |-> Zero, sides |-> {"left"}, result |-> Zero]
      <4>1. elements[i].at = Zero /\ elements[i].result = Zero /\ elements[i].sides = {"left"}
        BY <3>3
      <4>2. QED
        BY <1>8, <1>9, <1>11, <2>4, <4>1, CollapsedIs DEF RightOperand
    <3>4. CASE elements[i] = [at |-> One, sides |-> RightOperand, result |-> NULL]
      <4>1. elements[i].at = One /\ elements[i].result = NULL /\ elements[i].sides = RightOperand
        BY <3>4
      <4>2. QED
        BY <1>8, <1>9, <1>11, <2>4, <4>1, CollapsedIs DEF RightOperand
    <3>5. QED
      BY <3>1, <3>2, <3>3, <3>4
  <2>5. CASE op \notin {"ADD", "SUB", "MUL", "DIV", "POW"}
    <3>1. elements = <<>>
      BY <1>1, <1>3, <2>5 DEF NeutralElements
    <3>2. QED
      BY <1>2, <3>1
  <2>6. QED
    BY <2>1, <2>2, <2>3, <2>4, <2>5
<1>13. QED
  BY <1>2, <1>10, <1>12

(* The two ways CollapseNeutralElementsInternal replaces a node.                      *)
LEMMA CollapseRewrites ==
  ASSUME IInv, IInv', CollapseToConstant \/ CollapseToChild
  PROVE  TermBelow'[root'] \in S!Rewritten(TermBelow[root])
<1>1. PICK n : n = Current
  OBVIOUS
<1>2. stack # <<>> /\ phase = "collapse" /\ IsOperation(n) /\ Neutral(n) # NULL
  BY <1>1 DEF CollapseToConstant, CollapseToChild, Running
<1>3. TypeInv /\ AddressInv /\ ShapeInv /\ n \in Addresses /\ ~IsConstant(n)
  BY <1>1, <1>2, CurrentIs DEF IInv
<1>4. CASE CollapseToConstant
  <2>1. GivesWay(Fresh(n), NULL) /\ value'[Fresh(n)] = Neutral(n).result /\ Neutral(n).result # NULL
    BY <1>1, <1>4, ToConstantIs DEF CollapseToConstant
  <2>2. Fresh(n) \in Addresses /\ IsConstant(Fresh(n))
    <3>1. n \in Seq({1, 2}) /\ Fresh(n) \in Addresses
      BY <1>3 DEF AddressInv
    <3>2. QED
      BY <3>1, FreshIs
  <2>3. Addresses' = Addresses
    BY <1>4 DEF CollapseToConstant, Addresses
  <2>4. TermBelow'[Fresh(n)] = S!Constant(Neutral(n).result)
    BY <2>1, <2>2, <2>3, ConstantIsNext
  <2>5. ASSUME NEW tree, tree \in Terms(Labels), NEW path \in Path, HasBelow(tree, path, TermBelow[n])
        PROVE  TermBelow'[Fresh(n)] \in S!Folded(tree, path) \cup S!Collapsed(tree, path)
    BY <1>2, <1>3, <2>1, <2>4, <2>5, NeutralCollapses
  <2>6. QED
    BY <1>1, <2>1, <2>5, ReplacementRewrites
<1>5. CASE CollapseToChild
  <2>1. PICK other : other = Neutral(n).other
    OBVIOUS
  <2>2. GivesWay(other, NULL) /\ Neutral(n).result = NULL
    BY <1>1, <1>5, <2>1, ToChildIs DEF CollapseToChild
  <2>3. other \in Kids(n)
    BY <1>2, <1>3, <2>1, NeutralIs
  <2>4. TermBelow'[other] = TermBelow[other]
    <3>1. n \in Subtree[root]
      BY <1>1, <1>2, CallsBelowRoot
    <3>2. other \in Subtree[root]
      BY <1>3, <2>3, <3>1, SubtreeIs DEF AddressInv
    <3>3. n \notin Subtree[other]
      BY <1>3, <2>3, NotBelowChild
    <3>4. QED
      BY <1>1, <2>2, <3>2, <3>3, ReplacementGrafts
  <2>5. ASSUME NEW tree, tree \in Terms(Labels), NEW path \in Path, HasBelow(tree, path, TermBelow[n])
        PROVE  TermBelow'[other] \in S!Folded(tree, path) \cup S!Collapsed(tree, path)
    BY <1>2, <1>3, <2>1, <2>2, <2>4, <2>5, NeutralCollapses
  <2>6. QED
    BY <1>1, <2>2, <2>5, ReplacementRewrites
<1>6. QED
  BY <1>4, <1>5

(* Every other step leaves the links, the kinds and the values alone.                 *)
LEMMA StepRewrites ==
  ASSUME IInv, IInv', GotInv, [Next]_vars
  PROVE  TermBelow'[root'] \in S!Rewritten(TermBelow[root])
<1>1. CASE ComputeFold
  BY <1>1, FoldRewrites
<1>2. CASE CollapseToConstant \/ CollapseToChild
  BY <1>2, CollapseRewrites
<1>3. CASE UNCHANGED <<root, kind, value, left, right>>
  <2>1. TermBelow' = TermBelow
    BY <1>3 DEF TermBelow, Addresses, IsOperation
  <2>2. TermBelow'[root'] = TermBelow[root]
    BY <1>3, <2>1
  <2>3. QED
    BY <2>2 DEF S!Rewritten
<1>4. CASE UNCHANGED vars
  BY <1>3, <1>4 DEF vars, fields
<1>5. CASE BeginPass \/ RefuseTree \/ BeginCollapse \/ EndPass \/ Descend
  BY <1>3, <1>5 DEF BeginPass, RefuseTree, BeginCollapse, EndPass, Descend, fields
<1>6. CASE ComputeLeaf \/ ComputeUnknown \/ CollapseNothing
  BY <1>3, <1>6 DEF ComputeLeaf, ComputeUnknown, CollapseNothing, fields
<1>7. CASE WriteReport \/ UseFreed
  BY <1>3, <1>7 DEF WriteReport, WriteExpression, DeleteReassignment, EndDelete, DestroyTree, UseFreed, fields
<1>8. QED
  BY <1>1, <1>2, <1>4, <1>5, <1>6, <1>7 DEF Next, OptimizeTree

(* Whatever the passes detach and free, and whatever the report frees afterwards, the  *)
(* derivative as a term only changes by the rules of the table: an operation on         *)
(* numbers gives way to its value, one with a neutral operand to what the table says.    *)
THEOREM RewritesByTheRules == Spec => ImplementsSimplifier
<1>1. Init => GotInv
  BY DEF Init, GotInv
<1>2. IInv /\ GotInv /\ [Next]_vars => GotInv'
  BY NextKeepsGot
<1>3. IInv /\ IInv' /\ GotInv /\ [Next]_vars => [S!Next]_(TermBelow[root])
  BY StepRewrites DEF S!Next
<1>4. QED
  BY <1>1, <1>2, <1>3, Invariant, PTL DEF Spec, ImplementsSimplifier, S!Spec

-----------------------------------------------------------------------------
(* The value of the derivative.                                                 *)

(* The value below a link.                                                     *)
ValueAt(env, n) == IF n = NULL THEN NaN ELSE EvalInternal(env)[n]

(* The value of a node is made of those of its operands.                           *)
ValueInv ==
  \A env \in Environments :
    /\ EvalInternal(env) \in [Addresses -> Number]
    /\ \A n \in Addresses :
         EvalInternal(env)[n] = NodeValue(env, n, ValueAt(env, left[n]), ValueAt(env, right[n]))

(* An operation has a number or NaN as its result ...                             *)
LEMMA ResultIs == \A op \in Applicable : \A l, r \in Number : Result(op, l, r) \in Number
<1> SUFFICES ASSUME NEW op \in Applicable, NEW l \in Number, NEW r \in Number
             PROVE  Result(op, l, r) \in Number
  OBVIOUS
<1>1. Evaluate(op, l, r) = {Result(op, l, r)} /\ Evaluate(op, l, r) \subseteq Number
  BY ResultAssumption, EvaluateAssumption DEF Applicable
<1>2. QED
  BY <1>1

(* ... and what is known of it when an operand is not stays when it is.              *)
LEMMA ResultKept ==
  ASSUME NEW op \in Applicable, NEW l \in Number, NEW r \in Number,
         NEW x \in Number, NEW y \in Number, Preserved(l, x), Preserved(r, y)
  PROVE  Preserved(Result(op, l, r), Result(op, x, y))
<1>1. NaN \in Number
  BY NumberAssumption
<1>2. Preserved(Result(op, l, r), Result(op, x, r))
  BY NaNAssumption DEF Preserved
<1>3. Preserved(Result(op, x, r), Result(op, x, y))
  BY NaNAssumption DEF Preserved
<1>4. QED
  BY <1>2, <1>3 DEF Preserved

LEMMA KindIs ==
  ASSUME TypeInv, ShapeInv, NEW n \in Addresses
  PROVE  /\ kind[n] \in Operands \cup Applicable
         /\ IsOperation(n) <=> kind[n] \in Applicable
         /\ Operands \cap Applicable = {}
<1>1. kind[n] \in Kinds /\ kind[n] \notin Brackets
  BY DEF TypeInv, TypeOK, ShapeInv
<1>2. QED
  BY <1>1 DEF Kinds, Applicable, OperationNames, IsOperation, Operands, BinaryOps, FunctionOps, Brackets

LEMMA NodeValueIs ==
  ASSUME TypeInv, ShapeInv, NEW n \in Addresses, NEW env \in Environments,
         NEW l \in Number, NEW r \in Number
  PROVE  /\ NodeValue(env, n, l, r) \in Number
         /\ kind[n] = "NUMERIC_NODE" => NodeValue(env, n, l, r) = value[n]
         /\ IsOperation(n) => NodeValue(env, n, l, r) = Result(kind[n], l, r)
<1>1. /\ kind[n] \in Operands \cup Applicable /\ (IsOperation(n) <=> kind[n] \in Applicable)
      /\ Operands \cap Applicable = {}
  BY KindIs
<1>2. CASE kind[n] = "NUMERIC_NODE"
  <2>1. NodeValue(env, n, l, r) = value[n] /\ ~IsOperation(n)
    BY <1>1, <1>2 DEF NodeValue, Operands
  <2>2. QED
    BY <1>2, <2>1 DEF TypeInv
<1>3. CASE kind[n] = "VARIABLE_NODE"
  <2>1. NodeValue(env, n, l, r) = IF value[n] \in DOMAIN env THEN env[value[n]] ELSE NaN
    BY <1>3 DEF NodeValue
  <2>2. env \in [Variables -> Number] /\ NaN \in Number
    BY NumberAssumption DEF Environments
  <2>3. QED
    BY <1>1, <1>3, <2>1, <2>2 DEF Operands
<1>4. CASE kind[n] \in Applicable
  <2>1. kind[n] \notin {"NUMERIC_NODE", "VARIABLE_NODE"}
    BY <1>1, <1>4 DEF Operands
  <2>2. NodeValue(env, n, l, r) = Result(kind[n], l, r)
    BY <2>1 DEF NodeValue
  <2>3. QED
    BY <1>4, <2>1, <2>2, ResultIs
<1>5. QED
  BY <1>1, <1>2, <1>3, <1>4 DEF Operands

(* The recursive definition has a solution.                                     *)
LEMMA ValueIs ==
  ASSUME TypeInv, AddressInv, ShapeInv
  PROVE  ValueInv
<1> SUFFICES ASSUME NEW env \in Environments
             PROVE  /\ EvalInternal(env) \in [Addresses -> Number]
                    /\ \A n \in Addresses :
                         EvalInternal(env)[n] = NodeValue(env, n, ValueAt(env, left[n]), ValueAt(env, right[n]))
  BY DEF ValueInv
<1> DEFINE F(f) == f = [n \in Addresses |->
             NodeValue(env, n, IF left[n]  = NULL THEN NaN ELSE f[left[n]],
                               IF right[n] = NULL THEN NaN ELSE f[right[n]])]
           step == [t \in Addresses \X Number \X Number |-> NodeValue(env, t[1], t[2], t[3])]
           evalValue == CHOOSE f : F(f)
<1>1. PICK top \in Nat : \E rank \in [Addresses -> 0..top] : R!Ranked(Heap, rank, top)
  BY HeapIs
<1>2. PICK rank \in [Addresses -> 0..top] : R!Ranked(Heap, rank, top)
  BY <1>1
<1>3. Heap.left = left /\ Heap.right = right /\ DOMAIN Heap.left = Addresses
  BY HeapIs
<1>4. NaN \in Number
  BY NumberAssumption
<1>5. step \in [(DOMAIN Heap.left) \X Number \X Number -> Number]
  <2>1. ASSUME NEW t \in Addresses \X Number \X Number
        PROVE  NodeValue(env, t[1], t[2], t[3]) \in Number
    <3>1. t[1] \in Addresses /\ t[2] \in Number /\ t[3] \in Number
      OBVIOUS
    <3>2. QED
      BY <3>1, NodeValueIs
  <2>2. QED
    BY <1>3, <2>1
<1>6. PICK f : R!Computes(Heap, Number, step, NaN, f)
  <2> HIDE DEF step
  <2>1. QED
    BY <1>2, <1>4, <1>5, R!TreeRecursion
<1>7. f \in [Addresses -> Number] /\ left \in [Addresses -> Links] /\ right \in [Addresses -> Links]
  BY <1>3, <1>6 DEF R!Computes, TypeInv, TypeOK
<1>8. ASSUME NEW n \in Addresses
      PROVE  f[n] = NodeValue(env, n, IF left[n]  = NULL THEN NaN ELSE f[left[n]],
                                      IF right[n] = NULL THEN NaN ELSE f[right[n]])
  <2> DEFINE l == R!Of(f, NaN, left[n])
             r == R!Of(f, NaN, right[n])
  <2>1. f[n] = step[<<n, l, r>>]
    <3> HIDE DEF step
    <3>1. QED
      BY <1>3, <1>6 DEF R!Computes
  <2>2. l \in Number /\ r \in Number
    BY <1>4, <1>7 DEF R!Of, Links
  <2>3. l = (IF left[n] = NULL THEN NaN ELSE f[left[n]]) /\ r = (IF right[n] = NULL THEN NaN ELSE f[right[n]])
    BY DEF R!Of
  <2> HIDE DEF l, r
  <2>4. step[<<n, l, r>>] = NodeValue(env, n, l, r)
    BY <2>2
  <2>5. QED
    BY <2>1, <2>3, <2>4
<1>9. F(f)
  BY <1>7, <1>8
<1>10. F(evalValue)
  BY <1>9
<1>11. EvalInternal(env) = evalValue
  BY DEF EvalInternal
<1> HIDE DEF evalValue
<1>12. \A n \in Addresses :
         EvalInternal(env)[n] = NodeValue(env, n, ValueAt(env, left[n]), ValueAt(env, right[n]))
  BY <1>10, <1>11 DEF ValueAt
<1> DEFINE K == {n \in Addresses : EvalInternal(env)[n] \in Number}
<1>13. ASSUME NEW n \in Addresses, R!Children(Heap, n) \subseteq K
       PROVE  n \in K
  <2>1. ValueAt(env, left[n]) \in Number /\ ValueAt(env, right[n]) \in Number
    BY <1>4, <1>13, HeapIs DEF Kids, ValueAt
  <2>2. EvalInternal(env)[n] \in Number
    BY <1>12, <2>1, NodeValueIs
  <2>3. QED
    BY <2>2
<1>14. Addresses \subseteq K
  <2> HIDE DEF K
  <2>1. QED
    BY <1>2, <1>3, <1>13, R!TreeInduction
<1>15. EvalInternal(env) \in [Addresses -> Number]
  BY <1>10, <1>11, <1>14
<1>16. QED
  BY <1>12, <1>15

LEMMA ValueIsNext == (TypeInv /\ AddressInv /\ ShapeInv)' => ValueInv'
<1>1. TypeInv /\ AddressInv /\ ShapeInv => ValueInv
  BY ValueIs
<1>2. QED
  BY <1>1, PTL

(* A replacement that keeps the value of a node keeps that of the whole tree.          *)
LEMMA ReplacementPreserves ==
  ASSUME IInv, IInv', NEW new, NEW result, GivesWay(new, result), NEW n, n = Current,
         NEW env \in Environments
  PROVE  /\ Preserved(EvalInternal(env)[n], EvalInternal(env)'[new])
              => Preserved(EvalTree(env), EvalTree(env)')
         /\ \A m \in Subtree[root] : n \notin Subtree[m] => EvalInternal(env)'[m] = EvalInternal(env)[m]
<1>1. /\ stack # <<>> /\ Addresses' = Addresses /\ kind' = kind /\ root' = root /\ NULL \notin Addresses
      /\ root \in live \ manualDelete /\ n \in Addresses /\ new \in Addresses
      /\ TypeInv /\ AddressInv /\ ShapeInv
  <2>1. stack # <<>> /\ Replaced(n, parent[n], new) /\ Detaches(n, parent[n], new) /\ HeapInv
    BY DEF GivesWay, IInv, HeapInv
  <2>2. PICK p : p = parent[n]
    OBVIOUS
  <2>3. n \in Addresses /\ new \in Addresses
    BY <2>1, <2>2, ReplacedIs
  <2>4. Addresses' = Addresses /\ kind' = kind /\ root' = root
    BY <2>1 DEF Detaches, Addresses
  <2>5. root \in live \ manualDelete
    BY <2>1, CallsInTree DEF IInv, ForestInv
  <2>6. QED
    BY <2>1, <2>3, <2>4, <2>5 DEF IInv, AddressInv
<1>2. PICK e : e = EvalInternal(env)
  OBVIOUS
<1>3. PICK f : f = EvalInternal(env)'
  OBVIOUS
<1>4. ValueInv /\ ValueInv' /\ Environments' = Environments
  BY ValueIs, ValueIsNext DEF IInv, Environments
<1>5. /\ e \in [Addresses -> Number]
      /\ \A a \in Addresses : e[a] = NodeValue(env, a, ValueAt(env, left[a]), ValueAt(env, right[a]))
  BY <1>2, <1>4 DEF ValueInv
<1>6. /\ f \in [Addresses -> Number]
      /\ \A a \in Addresses : f[a] = NodeValue(env, a, ValueAt(env, left[a]), ValueAt(env, right[a]))'
  BY <1>1, <1>3, <1>4 DEF ValueInv
<1>7. /\ Subtree[root] \subseteq live \ manualDelete
      /\ live \subseteq Addresses /\ root \in Subtree[root]
      /\ \A a \in Subtree[root] : Kids(a) \subseteq Subtree[root]
  <2>1. live \subseteq Addresses
    BY DEF IInv, TypeInv, TypeOK
  <2>2. HeapInv
    BY DEF IInv, HeapInv
  <2>3. QED
    BY <1>1, <2>1, <2>2, TreeAllocated, SubtreeIs
<1>8. /\ \A a \in Addresses : /\ left'[a]  = NULL <=> left[a]  = NULL
                              /\ right'[a] = NULL <=> right[a] = NULL
      /\ \A a \in live \ manualDelete : \A side :
           Child(a, side)' = IF Child(a, side) = n THEN new ELSE Child(a, side)
      /\ \A a \in live : value'[a] = value[a]
  BY GivesWayIs DEF GivesWay
<1> DEFINE W(c) == IF c = n THEN f[new] ELSE f[c]
           V(c) == IF c = NULL THEN NaN ELSE W(c)
           At(c) == IF c = NULL THEN NaN ELSE e[c]
<1>9. ASSUME NEW m \in Subtree[root], m # n
      PROVE  /\ V(left[m]) \in Number /\ V(right[m]) \in Number
             /\ At(left[m]) \in Number /\ At(right[m]) \in Number
             /\ W(m) = NodeValue(env, m, V(left[m]), V(right[m]))
             /\ e[m] = NodeValue(env, m, At(left[m]), At(right[m]))
  <2>1. m \in Addresses /\ m \in live \ manualDelete /\ NaN \in Number
    BY <1>7, NumberAssumption
  <2>2. left[m] \in Addresses \cup {NULL} /\ right[m] \in Addresses \cup {NULL}
    BY <1>1, <2>1 DEF TypeInv, TypeOK, Links
  <2>3. /\ left'[m]  = IF left[m]  = n THEN new ELSE left[m]
        /\ right'[m] = IF right[m] = n THEN new ELSE right[m]
    <3>1. Child(m, "left")' = left'[m] /\ Child(m, "right")' = right'[m]
      BY DEF Child
    <3>2. Child(m, "left") = left[m] /\ Child(m, "right") = right[m]
      BY DEF Child
    <3>3. QED
      BY <1>8, <2>1, <3>1, <3>2
  <2>4. ValueAt(env, left[m])' = V(left[m]) /\ ValueAt(env, right[m])' = V(right[m])
    <3>1. /\ ValueAt(env, left[m])' = IF left'[m] = NULL THEN NaN ELSE f[left'[m]]
          /\ ValueAt(env, right[m])' = IF right'[m] = NULL THEN NaN ELSE f[right'[m]]
      BY <1>3 DEF ValueAt
    <3>2. n # NULL /\ new # NULL
      BY <1>1
    <3>3. QED
      BY <2>3, <3>1, <3>2
  <2>5. V(left[m]) \in Number /\ V(right[m]) \in Number /\ At(left[m]) \in Number /\ At(right[m]) \in Number
    BY <1>1, <1>5, <1>6, <2>1, <2>2
  <2>6. PICK l : l = V(left[m])
    OBVIOUS
  <2>7. PICK r : r = V(right[m])
    OBVIOUS
  <2>8. f[m] = NodeValue(env, m, l, r)
    <3>1. f[m] = NodeValue(env, m, ValueAt(env, left[m]), ValueAt(env, right[m]))'
      BY <1>6, <2>1
    <3>2. ValueAt(env, left[m])' = l /\ ValueAt(env, right[m])' = r
      BY <2>4, <2>6, <2>7
    <3> HIDE DEF V
    <3>3. value'[m] = value[m] /\ kind' = kind
      BY <1>1, <1>8, <2>1
    <3>4. QED
      BY <3>1, <3>2, <3>3 DEF NodeValue
  <2>9. ValueAt(env, left[m]) = At(left[m]) /\ ValueAt(env, right[m]) = At(right[m])
    BY <1>2 DEF ValueAt
  <2>10. W(m) = NodeValue(env, m, V(left[m]), V(right[m]))
    BY <1>9, <2>6, <2>7, <2>8
  <2>11. e[m] = NodeValue(env, m, At(left[m]), At(right[m]))
    BY <1>5, <2>1, <2>9
  <2>12. QED
    BY <2>5, <2>10, <2>11
<1>10. \A c : c # NULL => V(c) = W(c) /\ At(c) = e[c]
  OBVIOUS
<1>11. V(NULL) = NaN /\ At(NULL) = NaN
  OBVIOUS
<1>12. W(n) = f[new]
  OBVIOUS
<1>13. \A c : c # n => W(c) = f[c]
  OBVIOUS
<1> HIDE DEF V, At, W
<1> DEFINE Kept == Preserved(e[n], f[new])
           K == {m \in Addresses : m \in Subtree[root] =>
                   /\ n \notin Subtree[m] => W(m) = e[m]
                   /\ Kept => Preserved(e[m], W(m))}
<1>14. ASSUME NEW m \in Addresses, Kids(m) \subseteq K
       PROVE  m \in K
  <2> SUFFICES ASSUME m \in Subtree[root], m # n
               PROVE  /\ n \notin Subtree[m] => W(m) = e[m]
                      /\ Kept => Preserved(e[m], W(m))
    <3>1. n \in Subtree[n]
      BY <1>1, SubtreeIs
    <3>2. QED
      BY <1>12, <3>1
  <2>1. Subtree[m] = {m} \cup UNION {Subtree[c] : c \in Kids(m)}
    BY <1>1, SubtreeJoins
  <2>2. \A c \in Kids(m) : /\ n \notin Subtree[c] => W(c) = e[c]
                           /\ Kept => Preserved(e[c], W(c))
    BY <1>7, <1>14
  <2> HIDE DEF Kept, K
  <2>3. \A c \in {left[m], right[m]} : c # NULL => c \in Kids(m)
    BY DEF Kids
  <2>4. ASSUME NEW c \in {left[m], right[m]}
        PROVE  /\ n \notin Subtree[m] => V(c) = At(c)
               /\ Kept => Preserved(At(c), V(c))
    <3>1. CASE c = NULL
      BY <1>11, <3>1 DEF Preserved
    <3>2. CASE c # NULL
      <4>1. c \in Kids(m) /\ V(c) = W(c) /\ At(c) = e[c]
        BY <1>10, <2>3, <3>2
      <4>2. n \notin Subtree[m] => n \notin Subtree[c]
        BY <2>1, <4>1
      <4>3. QED
        BY <2>2, <4>1, <4>2
    <3>3. QED
      BY <3>1, <3>2
  <2>5. /\ V(left[m]) \in Number /\ V(right[m]) \in Number
        /\ At(left[m]) \in Number /\ At(right[m]) \in Number
        /\ W(m) = NodeValue(env, m, V(left[m]), V(right[m]))
        /\ e[m] = NodeValue(env, m, At(left[m]), At(right[m]))
    BY <1>9
  <2>6. ASSUME n \notin Subtree[m]
        PROVE  W(m) = e[m]
    BY <2>4, <2>5, <2>6
  <2>7. ASSUME Kept
        PROVE  Preserved(e[m], W(m))
    <3>1. Preserved(At(left[m]), V(left[m])) /\ Preserved(At(right[m]), V(right[m]))
      BY <2>4, <2>7
    <3>2. CASE IsOperation(m)
      <4>1. kind[m] \in Applicable
        BY <1>1, <3>2, KindIs
      <4>2. Preserved(Result(kind[m], At(left[m]), At(right[m])), Result(kind[m], V(left[m]), V(right[m])))
        BY <2>5, <3>1, <4>1, ResultKept
      <4>3. /\ W(m) = Result(kind[m], V(left[m]), V(right[m]))
            /\ e[m] = Result(kind[m], At(left[m]), At(right[m]))
        BY <1>1, <2>5, <3>2, NodeValueIs
      <4>4. QED
        BY <4>2, <4>3
    <3>3. CASE ~IsOperation(m)
      <4>1. kind[m] \in {"NUMERIC_NODE", "VARIABLE_NODE"}
        BY <1>1, <3>3, KindIs DEF Operands
      <4>2. W(m) = e[m]
        BY <2>5, <4>1 DEF NodeValue
      <4>3. QED
        BY <4>2 DEF Preserved
    <3>4. QED
      BY <3>2, <3>3
  <2>8. QED
    BY <2>6, <2>7
<1>15. Addresses \subseteq K
  <2>1. PICK top \in Nat : \E rank \in [Addresses -> 0..top] : R!Ranked(Heap, rank, top)
    BY <1>1, HeapIs
  <2>2. PICK rank \in [Addresses -> 0..top] : R!Ranked(Heap, rank, top)
    BY <2>1
  <2>3. DOMAIN Heap.left = Addresses /\ \A a : R!Children(Heap, a) = Kids(a)
    BY <1>1, HeapIs
  <2>4. \A a \in DOMAIN Heap.left : R!Children(Heap, a) \subseteq K => a \in K
    BY <1>14, <2>3
  <2> HIDE DEF K
  <2>5. QED
    BY <2>2, <2>3, <2>4, R!TreeInduction
<1>16. root # n /\ root \in Addresses
  BY <1>1, CurrentIs DEF AddressInv
<1>17. Kept => Preserved(EvalTree(env), EvalTree(env)')
  <2>1. EvalTree(env) = e[root] /\ EvalTree(env)' = f[root]
    BY <1>1, <1>2, <1>3 DEF EvalTree
  <2>2. W(root) = f[root]
    BY <1>13, <1>16
  <2>3. Kept => Preserved(e[root], W(root))
    BY <1>7, <1>15, <1>16
  <2>4. QED
    BY <2>1, <2>2, <2>3
<1>18. ASSUME NEW m \in Subtree[root], n \notin Subtree[m]
       PROVE  f[m] = e[m]
  <2>1. m \in K /\ m # n
    BY <1>1, <1>7, <1>15, <1>18, SubtreeIs
  <2>2. W(m) = e[m]
    BY <1>18, <2>1
  <2>3. QED
    BY <1>13, <2>1, <2>2
<1>19. QED
  BY <1>2, <1>3, <1>17, <1>18

(* A number is its own value; what an operand is not a number of stays open.            *)
LEMMA OperandValue ==
  ASSUME TypeInv, AddressInv, ShapeInv, NEW c \in Links, NEW env \in Environments
  PROVE  /\ Operand(c) \in Number /\ ValueAt(env, c) \in Number
         /\ Preserved(Operand(c), ValueAt(env, c))
         /\ c # NULL => (IsConstant(c) => EvalInternal(env)[c] = value[c])
<1>1. NaN \in Number /\ ValueInv
  BY NumberAssumption, ValueIs
<1>2. CASE c = NULL
  BY <1>1, <1>2 DEF Operand, ValueAt, Preserved
<1>3. CASE c # NULL
  <2>1. c \in Addresses
    BY <1>3 DEF Links
  <2>2. PICK l : l = ValueAt(env, left[c])
    OBVIOUS
  <2>3. PICK r : r = ValueAt(env, right[c])
    OBVIOUS
  <2>4. EvalInternal(env) \in [Addresses -> Number] /\ EvalInternal(env)[c] = NodeValue(env, c, l, r)
    BY <1>1, <2>1, <2>2, <2>3 DEF ValueInv
  <2>5. ValueAt(env, c) = EvalInternal(env)[c] /\ ValueAt(env, c) \in Number
    BY <1>3, <2>1, <2>4 DEF ValueAt
  <2>6. kind[c] = "NUMERIC_NODE" => NodeValue(env, c, l, r) = value[c] /\ value[c] \in Number
    BY <2>1 DEF NodeValue, TypeInv
  <2>7. IsConstant(c) => kind[c] = "NUMERIC_NODE"
    BY <2>1 DEF AddressInv
  <2>8. QED
    BY <1>1, <1>3, <2>4, <2>5, <2>6, <2>7 DEF Operand, Preserved
<1>4. QED
  BY <1>2, <1>3

LEMMA OperationValue ==
  ASSUME TypeInv, AddressInv, ShapeInv, NEW n \in Addresses, IsOperation(n), NEW env \in Environments
  PROVE  /\ kind[n] \in Applicable
         /\ EvalInternal(env)[n] = Result(kind[n], ValueAt(env, left[n]), ValueAt(env, right[n]))
<1>1. left[n] \in Links /\ right[n] \in Links
  BY DEF TypeInv, TypeOK
<1>2. ValueAt(env, left[n]) \in Number /\ ValueAt(env, right[n]) \in Number
  BY <1>1, OperandValue
<1>3. EvalInternal(env)[n] = NodeValue(env, n, ValueAt(env, left[n]), ValueAt(env, right[n]))
  BY ValueIs DEF ValueInv
<1>4. NodeValue(env, n, ValueAt(env, left[n]), ValueAt(env, right[n]))
        = Result(kind[n], ValueAt(env, left[n]), ValueAt(env, right[n]))
  BY <1>2, NodeValueIs
<1>5. QED
  BY <1>3, <1>4, KindIs

(* A constant of the optimizer has its number as its value.                            *)
ConstantsKnown ==
  \A env \in Environments : \A c \in Addresses : IsConstant(c) => EvalInternal(env)[c] = value[c]

LEMMA ConstantValue == TypeInv /\ AddressInv /\ ShapeInv => ConstantsKnown
<1>1. ASSUME TypeInv, AddressInv, ShapeInv, NEW env \in Environments, NEW c \in Addresses, IsConstant(c)
      PROVE  EvalInternal(env)[c] = value[c]
  <2>1. c \in Links /\ c # NULL
    BY <1>1 DEF Links, AddressInv
  <2>2. QED
    BY <1>1, <2>1, OperandValue
<1>2. QED
  BY <1>1 DEF ConstantsKnown

LEMMA ConstantValueNext ==
  ASSUME IInv', NEW env \in Environments
  PROVE  \A c \in Addresses' : IsConstant(c) => EvalInternal(env)'[c] = value'[c]
<1>1. (TypeInv /\ AddressInv /\ ShapeInv)' => ConstantsKnown'
  BY ConstantValue, PTL
<1>2. Environments' = Environments
  BY DEF Environments
<1>3. QED
  BY <1>1, <1>2 DEF IInv, ConstantsKnown

(* ComputeSubtreeInternal folds an operation to its value.                           *)
LEMMA FoldPreserves ==
  ASSUME IInv, IInv', GotInv, ComputeFold, NEW env \in Environments
  PROVE  Preserved(EvalTree(env), EvalTree(env)')
<1>1. PICK n : n = Current
  OBVIOUS
<1>2. stack # <<>> /\ phase = "compute" /\ IsOperation(n) /\ AllVisited
  BY <1>1 DEF ComputeFold, Running
<1>3. PICK v \in Evaluate(kind[n], Got("left"), Got("right")) \ {NaN} :
        GivesWay(Fresh(n), v) /\ value'[Fresh(n)] = v
  BY <1>1, FoldIs
<1>4. /\ Got("left")  = Operand(left[n])
      /\ Got("right") = IF kind[n] \in BinaryOps THEN Operand(right[n]) ELSE NaN
  BY <1>1, <1>2, GotOperands
<1>5. TypeInv /\ AddressInv /\ ShapeInv /\ n \in Addresses /\ ~IsConstant(n)
  BY <1>1, <1>2, CurrentIs DEF IInv
<1>6. EvalInternal(env)'[Fresh(n)] = v
  <2>1. n \in Seq({1, 2}) /\ Fresh(n) \in Addresses
    BY <1>5 DEF AddressInv
  <2>2. IsConstant(Fresh(n))
    BY <2>1, FreshIs
  <2>3. Addresses' = Addresses
    BY DEF ComputeFold, Addresses
  <2>4. QED
    BY <1>3, <2>1, <2>2, <2>3, ConstantValueNext
<1>7. EvalInternal(env)[n] = v
  <2>1. PICK op : op = kind[n] /\ op \in Applicable
    BY <1>2, <1>5, OperationValue
  <2>2. PICK l : l = Operand(left[n])
    OBVIOUS
  <2>3. PICK r : r = IF kind[n] \in BinaryOps THEN Operand(right[n]) ELSE NaN
    OBVIOUS
  <2>4. PICK x : x = ValueAt(env, left[n])
    OBVIOUS
  <2>5. PICK y : y = ValueAt(env, right[n])
    OBVIOUS
  <2>6. left[n] \in Links /\ right[n] \in Links /\ NaN \in Number
    BY <1>5, NumberAssumption DEF TypeInv, TypeOK
  <2>7. /\ l \in Number /\ r \in Number /\ x \in Number /\ y \in Number
        /\ Preserved(l, x) /\ Preserved(r, y)
    <3>1. /\ Operand(left[n]) \in Number /\ ValueAt(env, left[n]) \in Number
          /\ Preserved(Operand(left[n]), ValueAt(env, left[n]))
      BY <1>5, <2>6, OperandValue
    <3>2. /\ Operand(right[n]) \in Number /\ ValueAt(env, right[n]) \in Number
          /\ Preserved(Operand(right[n]), ValueAt(env, right[n]))
      BY <1>5, <2>6, OperandValue
    <3>3. QED
      BY <2>2, <2>3, <2>4, <2>5, <2>6, <3>1, <3>2 DEF Preserved
  <2>8. Evaluate(op, l, r) = {Result(op, l, r)}
    BY <2>1, <2>7, ResultAssumption
  <2>9. v = Result(op, l, r) /\ v # NaN
    BY <1>3, <1>4, <2>1, <2>2, <2>3, <2>8
  <2>10. Preserved(Result(op, l, r), Result(op, x, y))
    BY <2>1, <2>7, ResultKept
  <2>11. EvalInternal(env)[n] = Result(op, x, y)
    BY <1>2, <1>5, <2>1, <2>4, <2>5, OperationValue
  <2>12. QED
    BY <2>9, <2>10, <2>11 DEF Preserved
<1>8. QED
  BY <1>1, <1>3, <1>6, <1>7, ReplacementPreserves DEF Preserved

(* What ProcessNeutralElement finds has the value of the node, but for the two zeros.   *)
LEMMA NeutralPreserves ==
  ASSUME TypeInv, AddressInv, ShapeInv, NEW n \in Addresses, IsOperation(n), Neutral(n) # NULL,
         ~(kind[n] \in {"SUB", "POW"} /\ Operand(left[n]) = Zero), NEW env \in Environments
  PROVE  Preserved(EvalInternal(env)[n],
                   IF Neutral(n).result = NULL THEN EvalInternal(env)[Neutral(n).other]
                   ELSE Neutral(n).result)
<1>1. PICK elements : elements = NeutralElements(kind[n])
  OBVIOUS
<1>2. PICK i \in DOMAIN elements, side \in Both :
        /\ IsNeutral(elements[i], n, side)
        /\ Neutral(n).result = elements[i].result
        /\ Neutral(n).other = Child(n, IF side = "left" THEN "right" ELSE "left")
  BY <1>1, NeutralIs
<1>3. PICK op : op = kind[n]
  OBVIOUS
<1>4. PICK x : x = ValueAt(env, left[n])
  OBVIOUS
<1>5. PICK y : y = ValueAt(env, right[n])
  OBVIOUS
<1>6. x \in Number /\ y \in Number /\ left[n] \in Links /\ right[n] \in Links
  BY <1>4, <1>5, OperandValue DEF TypeInv, TypeOK
<1>7. (IF side = "left" THEN Operand(left[n]) ELSE Operand(right[n])) = elements[i].at
      /\ side \in elements[i].sides
  BY <1>2 DEF IsNeutral, Operand, Child
<1>8. elements[i].at \in {Zero, One}
  <2>1. CASE op \in {"ADD", "SUB"}
    BY <1>1, <1>2, <1>3, <2>1 DEF NeutralElements
  <2>2. CASE op = "MUL"
    BY <1>1, <1>2, <1>3, <2>2 DEF NeutralElements
  <2>3. CASE op = "DIV"
    BY <1>1, <1>2, <1>3, <2>3 DEF NeutralElements
  <2>4. CASE op = "POW"
    BY <1>1, <1>2, <1>3, <2>4 DEF NeutralElements
  <2>5. CASE op \notin {"ADD", "SUB", "MUL", "DIV", "POW"}
    <3>1. elements = <<>>
      BY <1>1, <1>3, <2>5 DEF NeutralElements
    <3>2. QED
      BY <1>2, <3>1
  <2>6. QED
    BY <2>1, <2>2, <2>3, <2>4, <2>5
<1>9. (IF side = "left" THEN x ELSE y) = elements[i].at
  <2>1. NaN \notin {Zero, One}
    BY NumberAssumption
  <2>2. Preserved(Operand(left[n]), x) /\ Preserved(Operand(right[n]), y)
    BY <1>4, <1>5, <1>6, OperandValue
  <2>3. QED
    BY <1>7, <1>8, <2>1, <2>2 DEF Preserved
<1>10. EvalInternal(env)[n] = Result(op, x, y)
  BY <1>3, <1>4, <1>5, OperationValue
<1>11. EvalInternal(env)[Neutral(n).other] = IF side = "left" THEN y ELSE x
  <2>1. Neutral(n).other # NULL
    BY NeutralIs DEF Kids
  <2>2. QED
    BY <1>2, <1>4, <1>5, <2>1 DEF ValueAt, Child, Both
<1>12. NULL \notin {Zero, One} /\ Zero \in Number /\ One \in Number
  BY NumberAssumption
<1>13. op \in {"SUB", "POW"} /\ side = "left" => elements[i].at # Zero
  BY <1>3, <1>7
<1> DEFINE found == IF elements[i].result = NULL THEN IF side = "left" THEN y ELSE x
                    ELSE elements[i].result
<1>14. Preserved(Result(op, x, y), found)
  <2>1. CASE op = "ADD"
    <3>1. elements[i] = [at |-> Zero, sides |-> Both, result |-> NULL]
      BY <1>1, <1>2, <1>3, <2>1 DEF NeutralElements
    <3>2. QED
      BY <1>6, <1>9, <2>1, <3>1, NeutralAssumption DEF Preserved
  <2>2. CASE op = "SUB"
    <3>1. elements[i] = [at |-> Zero, sides |-> Both, result |-> NULL]
      BY <1>1, <1>2, <1>3, <2>2 DEF NeutralElements
    <3>2. QED
      BY <1>6, <1>9, <1>13, <2>2, <3>1, NeutralAssumption DEF Preserved
  <2>3. CASE op = "MUL"
    <3>1. elements[i] \in {[at |-> Zero, sides |-> Both, result |-> Zero],
                           [at |-> One,  sides |-> Both, result |-> NULL]}
      BY <1>1, <1>2, <1>3, <2>3 DEF NeutralElements
    <3>2. CASE elements[i] = [at |-> Zero, sides |-> Both, result |-> Zero]
      <4>1. elements[i].at = Zero /\ elements[i].result = Zero
        BY <3>2
      <4>2. Result("MUL", x, y) \in {Zero, NaN} /\ found = Zero
        BY <1>6, <1>9, <1>12, <4>1, NeutralAssumption
      <4>3. QED
        BY <2>3, <4>2 DEF Preserved
    <3>3. CASE elements[i] = [at |-> One, sides |-> Both, result |-> NULL]
      BY <1>6, <1>9, <2>3, <3>3, NeutralAssumption DEF Preserved
    <3>4. QED
      BY <3>1, <3>2, <3>3
  <2>4. CASE op = "DIV"
    <3>1. elements[i] \in {[at |-> Zero, sides |-> {"left"}, result |-> Zero],
                           [at |-> One,  sides |-> RightOperand, result |-> NULL]}
      BY <1>1, <1>2, <1>3, <2>4 DEF NeutralElements
    <3>2. CASE elements[i] = [at |-> Zero, sides |-> {"left"}, result |-> Zero]
      <4>1. elements[i].at = Zero /\ elements[i].result = Zero /\ side = "left"
        BY <1>7, <3>2
      <4>2. Result("DIV", x, y) \in {Zero, NaN} /\ found = Zero
        BY <1>6, <1>9, <1>12, <4>1, NeutralAssumption
      <4>3. QED
        BY <2>4, <4>2 DEF Preserved
    <3>3. CASE elements[i] = [at |-> One, sides |-> RightOperand, result |-> NULL]
      <4>1. elements[i].at = One /\ elements[i].result = NULL /\ side = "right"
        BY <1>7, <3>3 DEF RightOperand
      <4>2. QED
        BY <1>6, <1>9, <2>4, <4>1, NeutralAssumption DEF Preserved
    <3>4. QED
      BY <3>1, <3>2, <3>3
  <2>5. CASE op = "POW"
    <3>1. elements[i] \in {[at |-> Zero, sides |-> RightOperand, result |-> One],
                           [at |-> Zero, sides |-> {"left"}, result |-> Zero],
                           [at |-> One,  sides |-> RightOperand, result |-> NULL]}
      BY <1>1, <1>2, <1>3, <2>5 DEF NeutralElements
    <3>2. CASE elements[i] = [at |-> Zero, sides |-> RightOperand, result |-> One]
      <4>1. elements[i].at = Zero /\ elements[i].result = One /\ side = "right"
        BY <1>7, <3>2 DEF RightOperand
      <4>2. Result("POW", x, y) = One /\ found = One
        BY <1>6, <1>9, <1>12, <4>1, NeutralAssumption
      <4>3. QED
        BY <2>5, <4>2 DEF Preserved
    <3>3. CASE elements[i] = [at |-> Zero, sides |-> {"left"}, result |-> Zero]
      <4>1. elements[i].at = Zero /\ side = "left"
        BY <1>7, <3>3
      <4>2. QED
        BY <1>13, <2>5, <4>1
    <3>4. CASE elements[i] = [at |-> One, sides |-> RightOperand, result |-> NULL]
      <4>1. elements[i].at = One /\ elements[i].result = NULL /\ side = "right"
        BY <1>7, <3>4 DEF RightOperand
      <4>2. QED
        BY <1>6, <1>9, <2>5, <4>1, NeutralAssumption DEF Preserved
    <3>5. QED
      BY <3>1, <3>2, <3>3, <3>4
  <2>6. CASE op \notin {"ADD", "SUB", "MUL", "DIV", "POW"}
    <3>1. elements = <<>>
      BY <1>1, <1>3, <2>6 DEF NeutralElements
    <3>2. QED
      BY <1>2, <3>1
  <2>7. QED
    BY <2>1, <2>2, <2>3, <2>4, <2>5, <2>6
<1>15. QED
  BY <1>2, <1>10, <1>11, <1>14

LEMMA CollapsePreserves ==
  ASSUME IInv, IInv', CollapseToConstant \/ CollapseToChild, NEW env \in Environments,
         ~(kind[Current] \in {"SUB", "POW"} /\ Operand(left[Current]) = Zero)
  PROVE  Preserved(EvalTree(env), EvalTree(env)')
<1>1. PICK n : n = Current
  OBVIOUS
<1>2. stack # <<>> /\ phase = "collapse" /\ IsOperation(n) /\ Neutral(n) # NULL
  BY <1>1 DEF CollapseToConstant, CollapseToChild, Running
<1>3. TypeInv /\ AddressInv /\ ShapeInv /\ n \in Addresses /\ ~IsConstant(n)
  BY <1>1, <1>2, CurrentIs DEF IInv
<1>4. Preserved(EvalInternal(env)[n],
                IF Neutral(n).result = NULL THEN EvalInternal(env)[Neutral(n).other]
                ELSE Neutral(n).result)
  BY <1>1, <1>2, <1>3, NeutralPreserves
<1>5. CASE CollapseToConstant
  <2>1. GivesWay(Fresh(n), NULL) /\ value'[Fresh(n)] = Neutral(n).result /\ Neutral(n).result # NULL
    BY <1>1, <1>5, ToConstantIs DEF CollapseToConstant
  <2>2. Fresh(n) \in Addresses /\ IsConstant(Fresh(n))
    <3>1. n \in Seq({1, 2}) /\ Fresh(n) \in Addresses
      BY <1>3 DEF AddressInv
    <3>2. QED
      BY <3>1, FreshIs
  <2>3. Addresses' = Addresses
    BY <1>5 DEF CollapseToConstant, Addresses
  <2>4. EvalInternal(env)'[Fresh(n)] = Neutral(n).result
    BY <2>1, <2>2, <2>3, ConstantValueNext
  <2>5. QED
    BY <1>1, <1>4, <2>1, <2>4, ReplacementPreserves
<1>6. CASE CollapseToChild
  <2>1. PICK other : other = Neutral(n).other
    OBVIOUS
  <2>2. GivesWay(other, NULL) /\ Neutral(n).result = NULL
    BY <1>1, <1>6, <2>1, ToChildIs DEF CollapseToChild
  <2>3. other \in Kids(n)
    BY <1>2, <1>3, <2>1, NeutralIs
  <2>4. EvalInternal(env)'[other] = EvalInternal(env)[other]
    <3>1. n \in Subtree[root]
      BY <1>1, <1>2, CallsBelowRoot
    <3>2. other \in Subtree[root]
      BY <1>3, <2>3, <3>1, SubtreeIs DEF AddressInv
    <3>3. n \notin Subtree[other]
      BY <1>3, <2>3, NotBelowChild
    <3>4. QED
      BY <1>1, <2>2, <3>2, <3>3, ReplacementPreserves
  <2>5. QED
    BY <1>1, <1>4, <2>1, <2>2, <2>4, ReplacementPreserves
<1>7. QED
  BY <1>5, <1>6

(* Where the derivative has a value it keeps it, whatever a pass folds, collapses,       *)
(* detaches or frees: only a zero on the left of a difference or a power, which the      *)
(* table calls neutral though it is not, changes it.                                 *)
THEOREM ValueKept == Spec => OnlyZeroOnTheLeftChangesValue
<1> DEFINE ZeroOnTheLeft == /\ phase = "collapse" /\ stack # <<>>
                            /\ kind[Current] \in {"SUB", "POW"}
                            /\ Operand(left[Current]) = Zero
           Allowed == \/ UNCHANGED <<root, fields>>
                      \/ ZeroOnTheLeft
                      \/ \A env \in Environments : Preserved(EvalTree(env), EvalTree(env)')
<1>1. Init => GotInv
  BY DEF Init, GotInv
<1>2. IInv /\ GotInv /\ [Next]_vars => GotInv'
  BY NextKeepsGot
<1>3. ASSUME IInv, IInv', GotInv, [Next]_vars
      PROVE  [Allowed]_vars
  <2>1. CASE ComputeFold
    BY <1>3, <2>1, FoldPreserves
  <2>2. CASE CollapseToConstant \/ CollapseToChild
    <3>1. stack # <<>> /\ phase = "collapse"
      BY <2>2 DEF CollapseToConstant, CollapseToChild, Running
    <3>2. QED
      BY <1>3, <2>2, <3>1, CollapsePreserves
  <2>3. CASE UNCHANGED vars
    BY <2>3
  <2>4. CASE BeginPass \/ RefuseTree \/ BeginCollapse \/ EndPass \/ Descend
    BY <2>4 DEF BeginPass, RefuseTree, BeginCollapse, EndPass, Descend
  <2>5. CASE ComputeLeaf \/ ComputeUnknown \/ CollapseNothing
    BY <2>5 DEF ComputeLeaf, ComputeUnknown, CollapseNothing
  <2>6. CASE WriteReport \/ UseFreed
    BY <2>6 DEF WriteReport, WriteExpression, DeleteReassignment, EndDelete, DestroyTree, UseFreed
  <2>7. QED
    BY <1>3, <2>1, <2>2, <2>3, <2>4, <2>5, <2>6 DEF Next, OptimizeTree
<1>4. QED
  BY <1>1, <1>2, <1>3, Invariant, PTL DEF Spec, OnlyZeroOnTheLeftChangesValue

=============================================================================
