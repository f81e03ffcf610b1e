------------------------ MODULE ReassignmentsProofs ------------------------
(***************************************************************************)
(* What GetReassignments computes, for every heap without cycles in which no   *)
(* node has two owners, however large.  The recursive functions of             *)
(* Reassignments are shown to exist, and their properties are shown by          *)
(* induction over the tree.                                                   *)
(***************************************************************************)
EXTENDS Reassignments, Extrema, SequenceTheorems

Children(heap, n) == {heap.left[n], heap.right[n]} \ {NULL}

(* Links lead to nodes, and a child's rank is lower than its owner's: there is  *)
(* no cycle.                                                                  *)
Ranked(heap, rank, top) ==
  LET nodes == DOMAIN heap.left
  IN  /\ NULL \notin nodes
      /\ heap.left \in [nodes -> nodes \cup {NULL}]
      /\ heap.right \in [nodes -> nodes \cup {NULL}]
      /\ top \in Nat
      /\ rank \in [nodes -> 0..top]
      /\ \A n \in nodes : \A child \in Children(heap, n) : rank[child] < rank[n]

(* What a recursive function has for a child, and what there is without one.    *)
Of(f, none, n) == IF n = NULL THEN none ELSE f[n]

(* f is the function that is computed from the children's results by step.      *)
Computes(heap, values, step, none, f) ==
  LET nodes == DOMAIN heap.left
  IN  /\ f \in [nodes -> values]
      /\ \A n \in nodes :
           f[n] = step[<<n, Of(f, none, heap.left[n]), Of(f, none, heap.right[n])>>]

(* What holds for a node if it holds for its children holds for all nodes: the   *)
(* node of lowest rank it does not hold for would have a child of lower rank.   *)
LEMMA TreeInduction ==
  ASSUME NEW heap, NEW rank, NEW top, Ranked(heap, rank, top),
         NEW S, \A n \in DOMAIN heap.left : Children(heap, n) \subseteq S => n \in S
  PROVE  DOMAIN heap.left \subseteq S
<1> DEFINE nodes == DOMAIN heap.left
           T == {rank[n] : n \in nodes \ S}
<1> SUFFICES ASSUME NEW a \in nodes, a \notin S
             PROVE  FALSE
  OBVIOUS
<1>1. T \subseteq Nat /\ T # {}
  BY DEF Ranked
<1>2. PICK n \in nodes \ S : \A m \in nodes \ S : rank[n] <= rank[m]
  <2>1. PICK r \in T : \A s \in T : r <= s
    <3> HIDE DEF T
    <3>1. QED
      BY <1>1, SmallestNat
  <2>2. QED
    BY <2>1
<1>3. PICK child \in Children(heap, n) : child \notin S
  BY <1>2
<1>4. child \in nodes /\ rank[child] < rank[n] /\ rank[child] \in Nat /\ rank[n] \in Nat
  BY <1>2, <1>3 DEF Ranked, Children
<1>5. QED
  BY <1>2, <1>3, <1>4

(* Such a function exists: one that is right below some rank gives one that is   *)
(* right up to it.                                                            *)
LEMMA TreeRecursion ==
  ASSUME NEW heap, NEW rank, NEW top, Ranked(heap, rank, top),
         NEW values, NEW none \in values,
         NEW step \in [(DOMAIN heap.left) \X values \X values -> values]
  PROVE  \E f : Computes(heap, values, step, none, f)
<1> DEFINE nodes == DOMAIN heap.left
           Value(f, n) == step[<<n, Of(f, none, heap.left[n]), Of(f, none, heap.right[n])>>]
           RightBelow(f, k) == \A n \in nodes : rank[n] < k => f[n] = Value(f, n)
           T == {k \in Nat : ~ \E f \in [nodes -> values] : RightBelow(f, k)}
<1>1. \A n \in nodes : /\ heap.left[n] \in nodes \cup {NULL}
                       /\ heap.right[n] \in nodes \cup {NULL}
                       /\ rank[n] \in 0..top
  BY DEF Ranked
<1>2. \A f \in [nodes -> values], n \in nodes : Value(f, n) \in values
  <2> SUFFICES ASSUME NEW f \in [nodes -> values], NEW n \in nodes
               PROVE  Value(f, n) \in values
    OBVIOUS
  <2>1. Of(f, none, heap.left[n]) \in values /\ Of(f, none, heap.right[n]) \in values
    BY <1>1 DEF Of
  <2>2. <<n, Of(f, none, heap.left[n]), Of(f, none, heap.right[n])>> \in nodes \X values \X values
    BY <2>1
  <2>3. \A t \in nodes \X values \X values : step[t] \in values
    OBVIOUS
  <2>4. QED
    BY <2>2, <2>3
<1>3. T = {}
  <2> SUFFICES ASSUME T # {} PROVE FALSE
    OBVIOUS
  <2>1. PICK k \in T : \A j \in T : k <= j
    <3>1. T \subseteq Nat
      OBVIOUS
    <3> HIDE DEF T
    <3>2. QED
      BY <3>1, SmallestNat
  <2>2. CASE k = 0
    <3> DEFINE f == [n \in nodes |-> none]
    <3>1. f \in [nodes -> values]
      OBVIOUS
    <3>2. \A n \in nodes : ~ (rank[n] < 0)
      BY <1>1 DEF Ranked
    <3>3. RightBelow(f, 0)
      BY <3>2
    <3> HIDE DEF f
    <3>4. QED
      BY <2>1, <2>2, <3>1, <3>3
  <2>3. CASE k # 0
    <3>1. k - 1 \in Nat /\ ~ (k <= k - 1)
      BY <2>1, <2>3
    <3>2. PICK f \in [nodes -> values] : RightBelow(f, k - 1)
      BY <2>1, <3>1
    <3> DEFINE g == [n \in nodes |-> Value(f, n)]
    <3>3. g \in [nodes -> values]
      BY <1>2
    <3>4. ASSUME NEW n \in nodes, rank[n] < k
          PROVE  g[n] = Value(g, n)
      <4>1. ASSUME NEW child \in {heap.left[n], heap.right[n]}, child # NULL
            PROVE  g[child] = f[child]
        <5>1. child \in nodes /\ rank[child] < rank[n]
          BY <1>1, <4>1 DEF Ranked, Children
        <5>2. rank[child] < k - 1
          BY <1>1, <2>1, <3>4, <5>1 DEF Ranked
        <5>3. f[child] = Value(f, child)
          BY <3>2, <5>1, <5>2
        <5>4. QED
          BY <5>1, <5>3
      <4>2. Of(g, none, heap.left[n]) = Of(f, none, heap.left[n])
        BY <4>1 DEF Of
      <4>3. Of(g, none, heap.right[n]) = Of(f, none, heap.right[n])
        BY <4>1 DEF Of
      <4>4. QED
        BY <4>2, <4>3
    <3> HIDE DEF g
    <3>5. RightBelow(g, k)
      BY <3>4
    <3>6. QED
      BY <2>1, <3>3, <3>5
  <2>4. QED
    BY <2>2, <2>3
<1>4. top + 1 \in Nat
  BY DEF Ranked
<1>5. PICK f \in [nodes -> values] : RightBelow(f, top + 1)
  BY <1>3, <1>4
<1>6. \A n \in nodes : rank[n] < top + 1
  BY <1>1 DEF Ranked
<1>7. Computes(heap, values, step, none, f)
  BY <1>5, <1>6 DEF Computes
<1>8. QED
  BY <1>7

-----------------------------------------------------------------------------
(* The nodes below a node.                                                     *)

IsBelow(heap, below) ==
  LET nodes == DOMAIN heap.left
  IN  /\ below \in [nodes -> SUBSET nodes]
      /\ \A n \in nodes :
           below[n] = {n} \cup Of(below, {}, heap.left[n]) \cup Of(below, {}, heap.right[n])

(* No node is the child of two nodes, nor twice the child of one.               *)
OneOwner(heap) ==
  LET nodes == DOMAIN heap.left
  IN  /\ \A m, n \in nodes : Children(heap, m) \cap Children(heap, n) # {} => m = n
      /\ \A n \in nodes : heap.left[n] # NULL => heap.left[n] # heap.right[n]

(* The function the modules define by recursion exists.                        *)
LEMMA BelowExists ==
  ASSUME NEW heap, NEW rank, NEW top, Ranked(heap, rank, top)
  PROVE  \E below :
           /\ IsBelow(heap, below)
           /\ below = [n \in DOMAIN heap.left |->
                {n} \cup (IF heap.left[n]  = NULL THEN {} ELSE below[heap.left[n]])
                    \cup (IF heap.right[n] = NULL THEN {} ELSE below[heap.right[n]])]
<1> DEFINE nodes == DOMAIN heap.left
           values == SUBSET nodes
           step == [t \in nodes \X values \X values |-> {t[1]} \cup t[2] \cup t[3]]
<1>1. step \in [(DOMAIN heap.left) \X values \X values -> values]
  OBVIOUS
<1>2. \A n \in nodes, l, r \in values : step[<<n, l, r>>] = {n} \cup l \cup r
  OBVIOUS
<1>3. PICK f : Computes(heap, values, step, {}, f)
  <2> HIDE DEF step
  <2>1. {} \in values
    OBVIOUS
  <2>2. QED
    BY <1>1, <2>1, TreeRecursion
<1>4. /\ f \in [nodes -> values]
      /\ \A n \in nodes :
           f[n] = step[<<n, Of(f, {}, heap.left[n]), Of(f, {}, heap.right[n])>>]
  BY <1>3 DEF Computes
<1> HIDE DEF step
<1>5. ASSUME NEW n \in nodes
      PROVE  f[n] = {n} \cup Of(f, {}, heap.left[n]) \cup Of(f, {}, heap.right[n])
  <2>1. Of(f, {}, heap.left[n]) \in values /\ Of(f, {}, heap.right[n]) \in values
    BY <1>4 DEF Ranked, Of
  <2>2. step[<<n, Of(f, {}, heap.left[n]), Of(f, {}, heap.right[n])>>]
          = {n} \cup Of(f, {}, heap.left[n]) \cup Of(f, {}, heap.right[n])
    BY <1>2, <2>1
  <2>3. QED
    BY <1>4, <2>2
<1>6. IsBelow(heap, f)
  BY <1>4, <1>5 DEF IsBelow
<1>7. f = [n \in nodes |->
             {n} \cup (IF heap.left[n]  = NULL THEN {} ELSE f[heap.left[n]])
                 \cup (IF heap.right[n] = NULL THEN {} ELSE f[heap.right[n]])]
  BY <1>4, <1>5 DEF Of
<1>8. QED
  BY <1>6, <1>7

(* The facts about a node and its children that the proofs below start from.     *)
LEMMA BelowIs ==
  ASSUME NEW heap, NEW rank, NEW top, Ranked(heap, rank, top),
         NEW below, IsBelow(heap, below), NEW n \in DOMAIN heap.left
  PROVE  /\ below[n] \subseteq DOMAIN heap.left
         /\ n \in below[n]
         /\ \A m \in below[n] : m = n \/ \E child \in Children(heap, n) : m \in below[child]
         /\ \A child \in Children(heap, n) :
              /\ child \in DOMAIN heap.left
              /\ below[child] \subseteq below[n]
              /\ rank[child] < rank[n]
         /\ rank[n] \in Nat /\ rank[n] <= top
<1> DEFINE nodes == DOMAIN heap.left
<1>1. /\ heap.left[n] \in nodes \cup {NULL} /\ heap.right[n] \in nodes \cup {NULL}
      /\ rank[n] \in Nat /\ rank[n] <= top
      /\ \A child \in Children(heap, n) : child \in nodes /\ rank[child] < rank[n]
  <2>1. rank[n] \in 0..top /\ top \in Nat
    BY DEF Ranked
  <2>2. QED
    BY <2>1 DEF Ranked, Children
<1>2. below[n] = {n} \cup Of(below, {}, heap.left[n]) \cup Of(below, {}, heap.right[n])
      /\ below[n] \subseteq nodes
  BY DEF IsBelow
<1>3. QED
  BY <1>1, <1>2 DEF Children, Of

(* What is below a node below n is below n.                                     *)
LEMMA BelowTransitive ==
  ASSUME NEW heap, NEW rank, NEW top, Ranked(heap, rank, top),
         NEW below, IsBelow(heap, below)
  PROVE  \A n \in DOMAIN heap.left : \A m \in below[n] : below[m] \subseteq below[n]
<1> DEFINE nodes == DOMAIN heap.left
           S == {n \in nodes : \A m \in below[n] : below[m] \subseteq below[n]}
<1>1. ASSUME NEW n \in nodes, Children(heap, n) \subseteq S
      PROVE  n \in S
  <2> SUFFICES ASSUME NEW m \in below[n]
               PROVE  below[m] \subseteq below[n]
    OBVIOUS
  <2>1. CASE m = n
    BY <2>1
  <2>2. CASE m # n
    <3>1. PICK child \in Children(heap, n) : m \in below[child]
      BY <2>2, BelowIs
    <3>2. below[m] \subseteq below[child] /\ below[child] \subseteq below[n]
      BY <1>1, <3>1, BelowIs
    <3>3. QED
      BY <3>2
  <2>3. QED
    BY <2>1, <2>2
<1>2. nodes \subseteq S
  <2> HIDE DEF S
  <2>1. QED
    BY <1>1, TreeInduction
<1>3. QED
  BY <1>2

(* Below a node the ranks are lower.                                           *)
LEMMA BelowLower ==
  ASSUME NEW heap, NEW rank, NEW top, Ranked(heap, rank, top),
         NEW below, IsBelow(heap, below)
  PROVE  \A n \in DOMAIN heap.left : \A m \in below[n] :
           /\ rank[m] <= rank[n]
           /\ m # n => rank[m] < rank[n]
<1> DEFINE nodes == DOMAIN heap.left
           S == {n \in nodes : \A m \in below[n] : /\ rank[m] <= rank[n]
                                                   /\ m # n => rank[m] < rank[n]}
<1>1. ASSUME NEW n \in nodes, Children(heap, n) \subseteq S
      PROVE  n \in S
  <2> SUFFICES ASSUME NEW m \in below[n]
               PROVE  rank[m] <= rank[n] /\ (m # n => rank[m] < rank[n])
    OBVIOUS
  <2>1. m \in nodes /\ rank[m] \in Nat /\ rank[n] \in Nat
    BY BelowIs
  <2>2. CASE m = n
    BY <2>1, <2>2
  <2>3. CASE m # n
    <3>1. PICK child \in Children(heap, n) : m \in below[child]
      BY <2>3, BelowIs
    <3>2. rank[m] <= rank[child] /\ rank[child] < rank[n] /\ rank[child] \in Nat
      BY <1>1, <3>1, BelowIs
    <3>3. QED
      BY <2>1, <3>2
  <2>4. QED
    BY <2>2, <2>3
<1>2. nodes \subseteq S
  <2> HIDE DEF S
  <2>1. QED
    BY <1>1, TreeInduction
<1>3. QED
  BY <1>2

(* The owner of a node below n, other than n, is below n.                        *)
LEMMA OwnerBelow ==
  ASSUME NEW heap, NEW rank, NEW top, Ranked(heap, rank, top),
         NEW below, IsBelow(heap, below)
  PROVE  \A n \in DOMAIN heap.left : \A m \in below[n] :
           m # n => \E owner \in below[n] : m \in Children(heap, owner)
<1> DEFINE nodes == DOMAIN heap.left
           S == {n \in nodes : \A m \in below[n] :
                   m # n => \E owner \in below[n] : m \in Children(heap, owner)}
<1>1. ASSUME NEW n \in nodes, Children(heap, n) \subseteq S
      PROVE  n \in S
  <2> SUFFICES ASSUME NEW m \in below[n], m # n
               PROVE  \E owner \in below[n] : m \in Children(heap, owner)
    OBVIOUS
  <2>1. PICK child \in Children(heap, n) : m \in below[child]
    BY BelowIs
  <2>2. n \in below[n] /\ below[child] \subseteq below[n]
    BY <2>1, BelowIs
  <2>3. QED
    BY <1>1, <2>1, <2>2
<1>2. nodes \subseteq S
  <2> HIDE DEF S
  <2>1. QED
    BY <1>1, TreeInduction
<1>3. QED
  BY <1>2

(* The subtrees of two children have no node in common: of the common nodes, one   *)
(* of highest rank would be one of the children, and below its sibling, and then  *)
(* their owner would be below a child of its own.                              *)
LEMMA SubtreesApart ==
  ASSUME NEW heap, NEW rank, NEW top, Ranked(heap, rank, top), OneOwner(heap),
         NEW below, IsBelow(heap, below),
         NEW n \in DOMAIN heap.left, heap.left[n] # NULL, heap.right[n] # NULL
  PROVE  below[heap.left[n]] \cap below[heap.right[n]] = {}
<1> DEFINE nodes == DOMAIN heap.left
           l == heap.left[n]
           r == heap.right[n]
           common == below[l] \cap below[r]
           T == {rank[m] : m \in common}
<1>1. /\ l \in nodes /\ r \in nodes /\ l # r
      /\ l \in Children(heap, n) /\ r \in Children(heap, n)
  BY DEF Ranked, OneOwner, Children
<1>2. SUFFICES ASSUME common # {} PROVE FALSE
  OBVIOUS
<1>3. common \subseteq nodes /\ \A m \in common : rank[m] \in Nat /\ rank[m] <= top
  BY <1>1, BelowIs
<1>4. PICK m \in common : \A k \in common : rank[k] <= rank[m]
  <2>1. T \subseteq Nat /\ T # {} /\ top \in Nat /\ \A x \in T : x <= top
    BY <1>2, <1>3 DEF Ranked
  <2>2. PICK x \in T : \A y \in T : x >= y
    <3> HIDE DEF T
    <3>1. QED
      BY <2>1, LargestNat
  <2>3. PICK k \in common : x = rank[k]
    BY <2>2
  <2>4. ASSUME NEW j \in common
        PROVE  rank[j] <= rank[k]
    <3>1. rank[j] \in T /\ rank[j] \in Nat /\ rank[k] \in Nat
      BY <1>3
    <3>2. QED
      BY <2>2, <2>3, <3>1
  <2>5. QED
    BY <2>4
(* A child of n is not below its sibling.                                      *)
<1>5. ASSUME NEW a \in {l, r}, NEW b \in {l, r}, a # b
      PROVE  a \notin below[b]
  <2> SUFFICES ASSUME a \in below[b] PROVE FALSE
    OBVIOUS
  <2>1. PICK owner \in below[b] : a \in Children(heap, owner)
    BY <1>1, <1>5, OwnerBelow
  <2>2. owner \in nodes /\ a \in Children(heap, n) /\ b \in Children(heap, n)
    BY <1>1, <2>1, BelowIs
  <2>3. owner = n
    BY <2>1, <2>2 DEF OneOwner
  <2>4. rank[n] <= rank[b] /\ rank[b] < rank[n] /\ rank[b] \in Nat /\ rank[n] \in Nat
    BY <1>1, <2>1, <2>2, <2>3, BelowLower, BelowIs
  <2>5. QED
    BY <2>4
<1>6. m # l /\ m # r
  BY <1>1, <1>4, <1>5
<1>7. PICK ol \in below[l] : m \in Children(heap, ol)
  BY <1>1, <1>4, <1>6, OwnerBelow
<1>8. PICK or \in below[r] : m \in Children(heap, or)
  BY <1>1, <1>4, <1>6, OwnerBelow
<1>9. ol \in nodes /\ or \in nodes
  BY <1>1, <1>7, <1>8, BelowIs
<1>10. ol = or
  BY <1>7, <1>8, <1>9 DEF OneOwner
<1>11. ol \in common /\ rank[m] < rank[ol] /\ rank[m] \in Nat /\ rank[ol] \in Nat
  BY <1>3, <1>4, <1>7, <1>8, <1>9, <1>10, BelowIs
<1>12. QED
  BY <1>4, <1>11

-----------------------------------------------------------------------------
(* What GetReassignments returns.                                              *)

(* Gather in terms of the children's results.                                  *)
LEMMA GatherIs ==
  ASSUME NEW heap, NEW weight, NEW n
  PROVE  Gather(heap, weight, n) =
           1 + Of(weight, 0, heap.left[n]) + Of(weight, 0, heap.right[n])
  BY DEF Gather, Of

(* The recursive definition has a solution: every node gets a depth of at most     *)
(* MAX_DEPTH.                                                                 *)
LEMMA WeightIs ==
  ASSUME NEW heap, NEW rank, NEW top, Ranked(heap, rank, top)
  PROVE  /\ Weight(heap) \in [DOMAIN heap.left -> 1..MAX_DEPTH]
         /\ \A n \in DOMAIN heap.left :
              /\ Gather(heap, Weight(heap), n) \in Nat \ {0}
              /\ Weight(heap)[n] = IF Shallow(heap, n) \/ Gather(heap, Weight(heap), n) > MAX_DEPTH
                                   THEN 1 ELSE Gather(heap, Weight(heap), n)
<1> DEFINE nodes == DOMAIN heap.left
           values == Nat
           step == [t \in nodes \X values \X values |->
                      IF Shallow(heap, t[1]) THEN 1
                      ELSE IF 1 + t[2] + t[3] > MAX_DEPTH THEN 1 ELSE 1 + t[2] + t[3]]
           F(w) == w = [n \in nodes |->
                          IF Shallow(heap, n) THEN 1
                          ELSE IF Gather(heap, w, n) > MAX_DEPTH THEN 1 ELSE Gather(heap, w, n)]
           weight == CHOOSE w : F(w)
<1>1. step \in [(DOMAIN heap.left) \X values \X values -> values]
  OBVIOUS
<1>2. \A n \in nodes, l, r \in values :
        step[<<n, l, r>>] = IF Shallow(heap, n) THEN 1
                            ELSE IF 1 + l + r > MAX_DEPTH THEN 1 ELSE 1 + l + r
  OBVIOUS
<1>3. PICK f : Computes(heap, values, step, 0, f)
  <2> HIDE DEF step
  <2>1. 0 \in values
    OBVIOUS
  <2>2. QED
    BY <1>1, <2>1, TreeRecursion
<1>4. /\ f \in [nodes -> values]
      /\ \A n \in nodes :
           f[n] = step[<<n, Of(f, 0, heap.left[n]), Of(f, 0, heap.right[n])>>]
  BY <1>3 DEF Computes
<1> HIDE DEF step
<1>5. ASSUME NEW n \in nodes
      PROVE  f[n] = IF Shallow(heap, n) THEN 1
                    ELSE IF Gather(heap, f, n) > MAX_DEPTH THEN 1 ELSE Gather(heap, f, n)
  <2> DEFINE l == Of(f, 0, heap.left[n])
             r == Of(f, 0, heap.right[n])
  <2>1. l \in values /\ r \in values
    BY <1>4 DEF Ranked, Of
  <2>2. f[n] = step[<<n, l, r>>] /\ Gather(heap, f, n) = 1 + l + r
    BY <1>4, GatherIs
  <2> HIDE DEF l, r
  <2>3. QED
    BY <1>2, <2>1, <2>2
<1>6. F(f)
  BY <1>4, <1>5
<1>7. Weight(heap) = weight
  BY DEF Weight
<1>8. F(weight)
  BY <1>6
<1> HIDE DEF weight
<1>9. ASSUME NEW w, F(w), \A n \in nodes : Gather(heap, w, n) \in Nat \ {0}
      PROVE  w \in [nodes -> 1..MAX_DEPTH]
  <2>1. \A n \in nodes : w[n] \in 1..MAX_DEPTH
    BY <1>9 DEF MAX_DEPTH
  <2>2. QED
    BY <1>9, <2>1
(* Two solutions are the same, so what holds for f holds for the one chosen.      *)
<1>10. \A n \in nodes : weight[n] = f[n]
  <2> DEFINE S == {n \in nodes : weight[n] = f[n]}
  <2>1. ASSUME NEW n \in nodes, Children(heap, n) \subseteq S
        PROVE  n \in S
    <3>1. Gather(heap, weight, n) = Gather(heap, f, n)
      BY <2>1 DEF Gather, Children
    <3>2. weight[n] = f[n]
      BY <1>6, <1>8, <3>1
    <3>3. QED
      BY <3>2
  <2>2. nodes \subseteq S
    <3> HIDE DEF S
    <3>1. QED
      BY <2>1, TreeInduction
  <2>3. QED
    BY <2>2
<1>11. ASSUME NEW n \in nodes
       PROVE  Gather(heap, weight, n) \in Nat \ {0}
  <2>1. Of(weight, 0, heap.left[n]) \in Nat /\ Of(weight, 0, heap.right[n]) \in Nat
    BY <1>4, <1>10 DEF Ranked, Of
  <2>2. QED
    BY <2>1, GatherIs
<1>12. QED
  BY <1>7, <1>8, <1>9, <1>11

(* The traversal visits a node, and what is below it unless the node is shallow.  *)
LEMMA VisitedIs ==
  ASSUME NEW heap, NEW rank, NEW top, Ranked(heap, rank, top)
  PROVE  /\ Visited(heap) \in [DOMAIN heap.left -> SUBSET (DOMAIN heap.left)]
         /\ \A n \in DOMAIN heap.left :
              Visited(heap)[n] =
                {n} \cup (IF Shallow(heap, n) THEN {}
                          ELSE Of(Visited(heap), {}, heap.left[n])
                               \cup Of(Visited(heap), {}, heap.right[n]))
<1> DEFINE nodes == DOMAIN heap.left
           values == SUBSET nodes
           step == [t \in nodes \X values \X values |->
                      {t[1]} \cup (IF Shallow(heap, t[1]) THEN {} ELSE t[2] \cup t[3])]
           F(v) == v = [n \in nodes |->
                          {n} \cup
                          (IF Shallow(heap, n) THEN {}
                           ELSE   (IF heap.left[n]  = NULL THEN {} ELSE v[heap.left[n]])
                             \cup (IF heap.right[n] = NULL THEN {} ELSE v[heap.right[n]]))]
           visited == CHOOSE v : F(v)
<1>1. step \in [(DOMAIN heap.left) \X values \X values -> values]
  OBVIOUS
<1>2. \A n \in nodes, l, r \in values :
        step[<<n, l, r>>] = {n} \cup (IF Shallow(heap, n) THEN {} ELSE l \cup r)
  OBVIOUS
<1>3. PICK f : Computes(heap, values, step, {}, f)
  <2> HIDE DEF step
  <2>1. {} \in values
    OBVIOUS
  <2>2. QED
    BY <1>1, <2>1, TreeRecursion
<1>4. /\ f \in [nodes -> values]
      /\ \A n \in nodes :
           f[n] = step[<<n, Of(f, {}, heap.left[n]), Of(f, {}, heap.right[n])>>]
  BY <1>3 DEF Computes
<1> HIDE DEF step
<1>5. ASSUME NEW n \in nodes
      PROVE  f[n] = {n} \cup (IF Shallow(heap, n) THEN {}
                              ELSE Of(f, {}, heap.left[n]) \cup Of(f, {}, heap.right[n]))
  <2>1. Of(f, {}, heap.left[n]) \in values /\ Of(f, {}, heap.right[n]) \in values
    BY <1>4 DEF Ranked, Of
  <2>2. step[<<n, Of(f, {}, heap.left[n]), Of(f, {}, heap.right[n])>>]
          = {n} \cup (IF Shallow(heap, n) THEN {}
                      ELSE Of(f, {}, heap.left[n]) \cup Of(f, {}, heap.right[n]))
    BY <1>2, <2>1
  <2>3. QED
    BY <1>4, <2>2
<1>6. F(f)
  BY <1>4, <1>5 DEF Of
<1>7. Visited(heap) = visited
  BY DEF Visited
<1>8. F(visited)
  BY <1>6
<1> HIDE DEF visited
<1>9. nodes \subseteq {n \in nodes : visited[n] \subseteq nodes}
  <2> DEFINE S == {n \in nodes : visited[n] \subseteq nodes}
  <2>1. ASSUME NEW n \in nodes, Children(heap, n) \subseteq S
        PROVE  n \in S
    <3> DEFINE l == IF heap.left[n]  = NULL THEN {} ELSE visited[heap.left[n]]
               r == IF heap.right[n] = NULL THEN {} ELSE visited[heap.right[n]]
    <3>1. l \subseteq nodes /\ r \subseteq nodes
      BY <2>1 DEF Children
    <3>2. visited[n] = {n} \cup (IF Shallow(heap, n) THEN {} ELSE l \cup r)
      BY <1>8
    <3> HIDE DEF l, r
    <3>3. visited[n] \subseteq nodes
      BY <3>1, <3>2
    <3>4. QED
      BY <3>3
  <2> HIDE DEF S
  <2>2. nodes \subseteq S
    BY <2>1, TreeInduction
  <2>3. QED
    BY <2>2 DEF S
<1>10. visited \in [nodes -> values]
  BY <1>8, <1>9
<1>11. QED
  BY <1>7, <1>8, <1>10 DEF Of

(* It never leaves the subtree.                                                *)
LEMMA VisitedWithin ==
  ASSUME NEW heap, NEW rank, NEW top, Ranked(heap, rank, top),
         NEW below, IsBelow(heap, below)
  PROVE  \A n \in DOMAIN heap.left : n \in Visited(heap)[n] /\ Visited(heap)[n] \subseteq below[n]
<1> DEFINE nodes == DOMAIN heap.left
           S == {n \in nodes : Visited(heap)[n] \subseteq below[n]}
<1>1. ASSUME NEW n \in nodes, Children(heap, n) \subseteq S
      PROVE  n \in S
  <2> SUFFICES ASSUME NEW m \in Visited(heap)[n]
               PROVE  m \in below[n]
    OBVIOUS
  <2>1. CASE m = n
    BY <2>1, BelowIs
  <2>2. CASE m # n
    <3>1. PICK child \in Children(heap, n) : m \in Visited(heap)[child]
      BY <2>2, VisitedIs DEF Of, Children
    <3>2. m \in below[child] /\ below[child] \subseteq below[n]
      BY <1>1, <3>1, BelowIs
    <3>3. QED
      BY <3>2
  <2>3. QED
    BY <2>1, <2>2
<1>2. nodes \subseteq S
  <2> HIDE DEF S
  <2>1. QED
    BY <1>1, TreeInduction
<1>3. QED
  BY <1>2, VisitedIs

(* It does not go below a node at which it returns.                              *)
LEMMA VisitedAbove ==
  ASSUME NEW heap, NEW rank, NEW top, Ranked(heap, rank, top), OneOwner(heap),
         NEW below, IsBelow(heap, below)
  PROVE  \A n \in DOMAIN heap.left : \A x \in below[n], y \in Visited(heap)[n] :
           Shallow(heap, x) /\ y \in below[x] => y = x
<1> DEFINE nodes == DOMAIN heap.left
           Stops(n) == \A x \in below[n], y \in Visited(heap)[n] :
                         Shallow(heap, x) /\ y \in below[x] => y = x
           S == {n \in nodes : Stops(n)}
<1>1. ASSUME NEW n \in nodes, Children(heap, n) \subseteq S,
             NEW x \in below[n], NEW y \in Visited(heap)[n],
             Shallow(heap, x), y \in below[x]
      PROVE  y = x
  <2>1. x \in nodes /\ y \in below[n] /\ rank[n] \in Nat
    BY <1>1, BelowIs, VisitedWithin
  <2>2. rank[x] \in Nat /\ rank[x] <= rank[n] /\ (x # n => rank[x] < rank[n])
    BY <2>1, BelowIs, BelowLower
  <2>3. CASE y = n
    <3>1. rank[y] <= rank[x]
      BY <1>1, <2>1, BelowLower
    <3>2. QED
      BY <2>1, <2>2, <2>3, <3>1
  <2>4. CASE y # n
    <3>1. ~Shallow(heap, n)
      BY <1>1, <2>4, VisitedIs
    <3>2. PICK child \in Children(heap, n) : y \in Visited(heap)[child]
      BY <1>1, <2>4, VisitedIs DEF Of, Children
    <3>3. PICK other \in Children(heap, n) : x \in below[other]
      BY <1>1, <3>1, BelowIs
    <3>4. child \in nodes /\ other \in nodes
      BY BelowIs
    <3>5. CASE child = other
      BY <1>1, <3>2, <3>3, <3>5
    <3>6. CASE child # other
      <4>1. y \in below[child] /\ y \in below[other]
        BY <1>1, <3>2, <3>3, <3>4, VisitedWithin, BelowTransitive
      <4>2. heap.left[n] # NULL /\ heap.right[n] # NULL /\ {child, other} = {heap.left[n], heap.right[n]}
        BY <3>6 DEF Children
      <4>3. below[heap.left[n]] \cap below[heap.right[n]] = {}
        BY <4>2, SubtreesApart
      <4>4. QED
        BY <4>1, <4>2, <4>3
    <3>7. QED
      BY <3>5, <3>6
  <2>5. QED
    BY <2>3, <2>4
<1>2. nodes \subseteq S
  <2>1. ASSUME NEW n \in nodes, Children(heap, n) \subseteq S
        PROVE  n \in S
    BY <1>1, <2>1
  <2> HIDE DEF S
  <2>2. QED
    BY <2>1, TreeInduction
<1>3. QED
  BY <1>2

-----------------------------------------------------------------------------
(* What GetReassignments registers.                                            *)

Elements(s) == {s[i] : i \in DOMAIN s}

(* The sequences the traversal starts from.                                  *)
LEMMA ShortSequences ==
  ASSUME NEW S
  PROVE  <<>> \in Seq(S) /\ \A x \in S : <<x>> \in Seq(S)
<1>1. <<>> \in Seq(S)
  BY EmptySeq
<1>2. ASSUME NEW x \in S
      PROVE  <<x>> \in Seq(S)
  OBVIOUS
<1>3. QED
  BY <1>1, <1>2

(* The elements of two sequences, one after the other.                       *)
LEMMA ConcatElements ==
  ASSUME NEW S, NEW s \in Seq(S), NEW t \in Seq(S)
  PROVE  Elements(s \o t) = Elements(s) \cup Elements(t)
<1>1. /\ DOMAIN s = 1..Len(s) /\ DOMAIN t = 1..Len(t)
      /\ Len(s) \in Nat /\ Len(t) \in Nat
  BY LenProperties
<1>2. /\ s \o t \in Seq(S) /\ Len(s \o t) = Len(s) + Len(t)
      /\ \A i \in 1..(Len(s) + Len(t)) :
           (s \o t)[i] = IF i <= Len(s) THEN s[i] ELSE t[i - Len(s)]
  BY ConcatProperties
<1>3. DOMAIN (s \o t) = 1..(Len(s) + Len(t))
  BY <1>2, LenProperties
<1>4. ASSUME NEW x \in Elements(s \o t)
      PROVE  x \in Elements(s) \cup Elements(t)
  <2>1. PICK i \in 1..(Len(s) + Len(t)) : x = (s \o t)[i]
    BY <1>3, <1>4 DEF Elements
  <2>2. CASE i <= Len(s)
    BY <1>1, <1>2, <2>1, <2>2 DEF Elements
  <2>3. CASE ~ (i <= Len(s))
    <3>1. i - Len(s) \in 1..Len(t) /\ x = t[i - Len(s)]
      BY <1>1, <1>2, <2>1, <2>3
    <3>2. QED
      BY <1>1, <3>1 DEF Elements
  <2>4. QED
    BY <2>2, <2>3
<1>5. ASSUME NEW x \in Elements(s)
      PROVE  x \in Elements(s \o t)
  <2>1. PICK i \in 1..Len(s) : x = s[i]
    BY <1>1, <1>5 DEF Elements
  <2>2. i \in 1..(Len(s) + Len(t)) /\ (s \o t)[i] = x
    BY <1>1, <1>2, <2>1
  <2>3. QED
    BY <1>3, <2>2 DEF Elements
<1>6. ASSUME NEW x \in Elements(t)
      PROVE  x \in Elements(s \o t)
  <2>1. PICK i \in 1..Len(t) : x = t[i]
    BY <1>1, <1>6 DEF Elements
  <2>2. i + Len(s) \in 1..(Len(s) + Len(t)) /\ ~ (i + Len(s) <= Len(s)) /\ i + Len(s) - Len(s) = i
    BY <1>1, <2>1
  <2>3. (s \o t)[i + Len(s)] = x
    BY <1>2, <2>1, <2>2
  <2>4. QED
    BY <1>3, <2>2, <2>3 DEF Elements
<1>7. QED
  BY <1>4, <1>5, <1>6

(* The children first, then the node itself if it is too deep.                   *)
LEMMA RegisteredIs ==
  ASSUME NEW heap, NEW rank, NEW top, Ranked(heap, rank, top)
  PROVE  /\ Registered(heap) \in [DOMAIN heap.left -> Seq(DOMAIN heap.left)]
         /\ \A n \in DOMAIN heap.left :
              Registered(heap)[n] =
                IF Shallow(heap, n) THEN <<>>
                ELSE Of(Registered(heap), <<>>, heap.left[n])
                     \o Of(Registered(heap), <<>>, heap.right[n])
                     \o (IF Gather(heap, Weight(heap), n) > MAX_DEPTH THEN <<n>> ELSE <<>>)
<1> DEFINE nodes == DOMAIN heap.left
           values == Seq(nodes)
           last(n) == IF Gather(heap, Weight(heap), n) > MAX_DEPTH THEN <<n>> ELSE <<>>
           step == [t \in nodes \X values \X values |->
                      IF Shallow(heap, t[1]) THEN <<>> ELSE t[2] \o t[3] \o last(t[1])]
           F(f) == f = [n \in nodes |->
                          IF Shallow(heap, n) THEN <<>>
                          ELSE   (IF heap.left[n]  = NULL THEN <<>> ELSE f[heap.left[n]])
                              \o (IF heap.right[n] = NULL THEN <<>> ELSE f[heap.right[n]])
                              \o (IF Gather(heap, Weight(heap), n) > MAX_DEPTH
                                  THEN <<n>> ELSE <<>>)]
           registered == CHOOSE f : F(f)
<1>1. ASSUME NEW n \in nodes, NEW l \in values, NEW r \in values
      PROVE  l \o r \o last(n) \in values
  <2>1. last(n) \in values
    BY ShortSequences
  <2> HIDE DEF last
  <2>2. l \o r \in values
    BY ConcatProperties
  <2>3. QED
    BY <2>1, <2>2, ConcatProperties
<1>2. step \in [(DOMAIN heap.left) \X values \X values -> values]
  <2> HIDE DEF last
  <2>1. ASSUME NEW t \in nodes \X values \X values
        PROVE  (IF Shallow(heap, t[1]) THEN <<>> ELSE t[2] \o t[3] \o last(t[1])) \in values
    <3>1. t[1] \in nodes /\ t[2] \in values /\ t[3] \in values
      OBVIOUS
    <3>2. t[2] \o t[3] \o last(t[1]) \in values
      BY <1>1, <3>1
    <3>3. <<>> \in values
      BY ShortSequences
    <3>4. QED
      BY <3>2, <3>3
  <2>2. QED
    BY <2>1
<1>3. \A n \in nodes, l, r \in values :
        step[<<n, l, r>>] = IF Shallow(heap, n) THEN <<>> ELSE l \o r \o last(n)
  <2> HIDE DEF last
  <2>1. QED
    OBVIOUS
<1>4. PICK f : Computes(heap, values, step, <<>>, f)
  <2> HIDE DEF step
  <2>1. <<>> \in values
    OBVIOUS
  <2>2. QED
    BY <1>2, <2>1, TreeRecursion
<1>5. /\ f \in [nodes -> values]
      /\ \A n \in nodes :
           f[n] = step[<<n, Of(f, <<>>, heap.left[n]), Of(f, <<>>, heap.right[n])>>]
  BY <1>4 DEF Computes
<1> HIDE DEF step
<1>6. ASSUME NEW n \in nodes
      PROVE  f[n] = IF Shallow(heap, n) THEN <<>>
                    ELSE Of(f, <<>>, heap.left[n]) \o Of(f, <<>>, heap.right[n]) \o last(n)
  <2> DEFINE l == Of(f, <<>>, heap.left[n])
             r == Of(f, <<>>, heap.right[n])
  <2>1. l \in values /\ r \in values
    BY <1>5, ShortSequences DEF Ranked, Of
  <2>2. f[n] = step[<<n, l, r>>]
    BY <1>5
  <2> HIDE DEF l, r, last
  <2>3. QED
    BY <1>3, <2>1, <2>2 DEF l, r
<1>7. F(f)
  BY <1>5, <1>6 DEF Of
<1>8. Registered(heap) = registered
  BY DEF Registered
<1>9. F(registered)
  BY <1>7
<1> HIDE DEF registered
<1>10. nodes \subseteq {n \in nodes : registered[n] \in values}
  <2> DEFINE S == {n \in nodes : registered[n] \in values}
  <2>1. ASSUME NEW n \in nodes, Children(heap, n) \subseteq S
        PROVE  n \in S
    <3> DEFINE l == IF heap.left[n]  = NULL THEN <<>> ELSE registered[heap.left[n]]
               r == IF heap.right[n] = NULL THEN <<>> ELSE registered[heap.right[n]]
    <3>1. l \in values /\ r \in values
      BY <2>1, ShortSequences DEF Children
    <3>2. l \o r \o last(n) \in values
      BY <1>1, <3>1
    <3>3. registered[n] = IF Shallow(heap, n) THEN <<>> ELSE l \o r \o last(n)
      BY <1>9
    <3> HIDE DEF l, r, last
    <3>4. registered[n] \in values
      BY <3>2, <3>3, ShortSequences
    <3>5. QED
      BY <3>4
  <2> HIDE DEF S
  <2>2. nodes \subseteq S
    BY <2>1, TreeInduction
  <2>3. QED
    BY <2>2 DEF S
<1>11. registered \in [nodes -> values]
  BY <1>9, <1>10
<1>12. QED
  BY <1>8, <1>9, <1>11 DEF Of

(* Exactly the operations the traversal visits and finds too deep are registered.   *)
LEMMA RegisteredAre ==
  ASSUME NEW heap, NEW rank, NEW top, Ranked(heap, rank, top)
  PROVE  \A n \in DOMAIN heap.left : \A x :
           x \in Elements(Registered(heap)[n]) <=>
             /\ x \in Visited(heap)[n]
             /\ ~Shallow(heap, x)
             /\ Gather(heap, Weight(heap), x) > MAX_DEPTH
<1> DEFINE nodes == DOMAIN heap.left
           R == Registered(heap)
           V == Visited(heap)
           Deep(x) == ~Shallow(heap, x) /\ Gather(heap, Weight(heap), x) > MAX_DEPTH
           Exact(n) == \A x : x \in Elements(R[n]) <=> x \in V[n] /\ Deep(x)
           S == {n \in nodes : Exact(n)}
<1>1. Elements(<<>>) = {} /\ \A x : Elements(<<x>>) = {x}
  BY DEF Elements
<1>2. ASSUME NEW n \in nodes, Children(heap, n) \subseteq S
      PROVE  Exact(n)
  <2> DEFINE l == Of(R, <<>>, heap.left[n])
             r == Of(R, <<>>, heap.right[n])
             vl == Of(V, {}, heap.left[n])
             vr == Of(V, {}, heap.right[n])
             last == IF Gather(heap, Weight(heap), n) > MAX_DEPTH THEN <<n>> ELSE <<>>
  <2>1. l \in Seq(nodes) /\ r \in Seq(nodes) /\ last \in Seq(nodes)
    BY RegisteredIs, ShortSequences DEF Ranked, Of
  <2>2. R[n] = IF Shallow(heap, n) THEN <<>> ELSE l \o r \o last
    BY RegisteredIs
  <2>3. V[n] = {n} \cup (IF Shallow(heap, n) THEN {} ELSE vl \cup vr)
    BY VisitedIs
  <2>4. /\ \A x : x \in Elements(l) <=> x \in vl /\ Deep(x)
        /\ \A x : x \in Elements(r) <=> x \in vr /\ Deep(x)
    BY <1>1, <1>2 DEF Of, Children
  <2>5. ~Shallow(heap, n) => \A x : x \in Elements(last) <=> x = n /\ Deep(x)
    BY <1>1
  <2>6. l \o r \in Seq(nodes)
    BY <2>1, ConcatProperties
  <2>7. Elements(l \o r \o last) = Elements(l) \cup Elements(r) \cup Elements(last)
    <3> HIDE DEF l, r, last
    <3>1. Elements(l \o r) = Elements(l) \cup Elements(r)
      BY <2>1, ConcatElements
    <3>2. Elements((l \o r) \o last) = Elements(l \o r) \cup Elements(last)
      <4> DEFINE both == l \o r
      <4>1. both \in Seq(nodes)
        BY <2>6
      <4> HIDE DEF both
      <4>2. Elements(both \o last) = Elements(both) \cup Elements(last)
        BY <2>1, <4>1, ConcatElements
      <4>3. QED
        BY <4>2 DEF both
    <3>3. QED
      BY <3>1, <3>2
  <2> HIDE DEF l, r, vl, vr, last, R, V
  <2>8. CASE Shallow(heap, n)
    BY <1>1, <2>2, <2>3, <2>8
  <2>9. CASE ~Shallow(heap, n)
    <3> HIDE DEF Deep
    <3>1. R[n] = l \o r \o last /\ V[n] = {n} \cup vl \cup vr
      BY <2>2, <2>3, <2>9
    <3>2. QED
      BY <2>4, <2>5, <2>7, <2>9, <3>1
  <2>10. QED
    BY <2>8, <2>9
<1>3. nodes \subseteq S
  <2>1. ASSUME NEW n \in nodes, Children(heap, n) \subseteq S
        PROVE  n \in S
    <3>1. Exact(n)
      BY <1>2, <2>1
    <3> HIDE DEF Exact
    <3>2. QED
      BY <3>1
  <2> HIDE DEF S
  <2>2. QED
    BY <2>1, TreeInduction
<1>4. QED
  BY <1>3

(* No later node is below an earlier one.  As a node is below itself, no node is     *)
(* there twice.                                                               *)
InOrder(below, s) == \A i, j \in DOMAIN s : i < j => s[j] \notin below[s[i]]

(* Two such sequences, one after the other, are one if nothing in the second is below *)
(* something in the first.                                                   *)
LEMMA ConcatInOrder ==
  ASSUME NEW S, NEW s \in Seq(S), NEW t \in Seq(S), NEW below,
         InOrder(below, s), InOrder(below, t),
         \A x \in Elements(s), y \in Elements(t) : y \notin below[x]
  PROVE  InOrder(below, s \o t)
<1>1. /\ DOMAIN s = 1..Len(s) /\ DOMAIN t = 1..Len(t)
      /\ Len(s) \in Nat /\ Len(t) \in Nat
  BY LenProperties
<1>2. /\ s \o t \in Seq(S) /\ Len(s \o t) = Len(s) + Len(t)
      /\ \A i \in 1..(Len(s) + Len(t)) :
           (s \o t)[i] = IF i <= Len(s) THEN s[i] ELSE t[i - Len(s)]
  BY ConcatProperties
<1>3. DOMAIN (s \o t) = 1..(Len(s) + Len(t))
  BY <1>2, LenProperties
<1>4. SUFFICES ASSUME NEW i \in 1..(Len(s) + Len(t)), NEW j \in 1..(Len(s) + Len(t)), i < j
               PROVE  (s \o t)[j] \notin below[(s \o t)[i]]
  BY <1>3 DEF InOrder
<1>5. CASE j <= Len(s)
  <2>1. i \in DOMAIN s /\ j \in DOMAIN s /\ (s \o t)[i] = s[i] /\ (s \o t)[j] = s[j]
    BY <1>1, <1>2, <1>4, <1>5
  <2>2. QED
    BY <1>4, <2>1 DEF InOrder
<1>6. CASE ~ (j <= Len(s)) /\ i <= Len(s)
  <2>1. /\ i \in DOMAIN s /\ j - Len(s) \in DOMAIN t
        /\ (s \o t)[i] = s[i] /\ (s \o t)[j] = t[j - Len(s)]
    BY <1>1, <1>2, <1>4, <1>6
  <2>2. QED
    BY <2>1 DEF Elements
<1>7. CASE ~ (i <= Len(s))
  <2>1. /\ i - Len(s) \in DOMAIN t /\ j - Len(s) \in DOMAIN t /\ i - Len(s) < j - Len(s)
        /\ (s \o t)[i] = t[i - Len(s)] /\ (s \o t)[j] = t[j - Len(s)]
    BY <1>1, <1>2, <1>4, <1>7
  <2>2. QED
    BY <2>1 DEF InOrder
<1>8. QED
  BY <1>1, <1>4, <1>5, <1>6, <1>7

(* GetReassignments registers bottom up: a node is registered once, after all     *)
(* the registered nodes below it.                                             *)
LEMMA RegisteredInOrder ==
  ASSUME NEW heap, NEW rank, NEW top, Ranked(heap, rank, top), OneOwner(heap),
         NEW below, IsBelow(heap, below)
  PROVE  \A n \in DOMAIN heap.left : InOrder(below, Registered(heap)[n])
<1> DEFINE nodes == DOMAIN heap.left
           R == Registered(heap)
           S == {n \in nodes : InOrder(below, R[n])}
<1>1. /\ InOrder(below, <<>>) /\ \A x : InOrder(below, <<x>>)
      /\ Elements(<<>>) = {} /\ \A x : Elements(<<x>>) = {x}
  BY DEF InOrder, Elements
<1>2. \A n \in nodes : Elements(R[n]) \subseteq below[n]
  BY RegisteredAre, VisitedWithin
<1>3. ASSUME NEW n \in nodes, Children(heap, n) \subseteq S
      PROVE  InOrder(below, R[n])
  <2> DEFINE l == Of(R, <<>>, heap.left[n])
             r == Of(R, <<>>, heap.right[n])
             last == IF Gather(heap, Weight(heap), n) > MAX_DEPTH THEN <<n>> ELSE <<>>
  <2>1. l \in Seq(nodes) /\ r \in Seq(nodes) /\ last \in Seq(nodes)
    BY RegisteredIs, ShortSequences DEF Ranked, Of
  <2>2. R[n] = IF Shallow(heap, n) THEN <<>> ELSE l \o r \o last
    BY RegisteredIs
  <2>3. InOrder(below, l) /\ InOrder(below, r) /\ InOrder(below, last)
    BY <1>1, <1>3 DEF Of, Children
  <2>4. Elements(last) \subseteq {n}
    BY <1>1
  <2>5. /\ \A x \in Elements(l) : heap.left[n] # NULL /\ x \in below[heap.left[n]]
        /\ \A x \in Elements(r) : heap.right[n] # NULL /\ x \in below[heap.right[n]]
    <3>1. heap.left[n] # NULL => heap.left[n] \in nodes
      BY DEF Ranked
    <3>2. heap.right[n] # NULL => heap.right[n] \in nodes
      BY DEF Ranked
    <3>3. QED
      BY <1>1, <1>2, <3>1, <3>2 DEF Of
  <2> HIDE DEF l, r, last, R
  <2>6. ASSUME NEW x \in Elements(l), NEW y \in Elements(r)
        PROVE  y \notin below[x]
    <3>1. /\ heap.left[n] # NULL /\ heap.left[n] \in nodes /\ x \in below[heap.left[n]]
          /\ heap.right[n] # NULL /\ y \in below[heap.right[n]]
      BY <2>5, <2>6 DEF Ranked
    <3>2. below[x] \subseteq below[heap.left[n]]
      BY <3>1, BelowTransitive
    <3>3. below[heap.left[n]] \cap below[heap.right[n]] = {}
      BY <3>1, SubtreesApart
    <3>4. QED
      BY <3>1, <3>2, <3>3
  <2>7. ASSUME NEW x \in Elements(l) \cup Elements(r)
        PROVE  n \notin below[x]
    <3>1. PICK child \in Children(heap, n) : x \in below[child]
      BY <2>5, <2>7 DEF Children
    <3>2. child \in nodes /\ rank[child] < rank[n] /\ rank[child] \in Nat /\ rank[n] \in Nat
      BY <3>1, BelowIs
    <3>3. x \in nodes /\ rank[x] <= rank[child] /\ rank[x] \in Nat
      BY <3>1, <3>2, BelowLower, BelowIs
    <3>4. n \in below[x] => rank[n] <= rank[x]
      BY <3>3, BelowLower
    <3>5. QED
      BY <3>2, <3>3, <3>4
  <2>8. InOrder(below, l \o r)
    BY <2>1, <2>3, <2>6, ConcatInOrder
  <2>9. l \o r \in Seq(nodes) /\ Elements(l \o r) = Elements(l) \cup Elements(r)
    BY <2>1, ConcatProperties, ConcatElements
  <2>10. InOrder(below, l \o r \o last)
    <3> DEFINE both == l \o r
    <3>1. /\ both \in Seq(nodes) /\ InOrder(below, both)
          /\ \A x \in Elements(both), y \in Elements(last) : y \notin below[x]
      BY <2>4, <2>7, <2>8, <2>9
    <3> HIDE DEF both
    <3>2. InOrder(below, both \o last)
      BY <2>1, <2>3, <3>1, ConcatInOrder
    <3>3. QED
      BY <3>2 DEF both
  <2>11. QED
    BY <1>1, <2>2, <2>10
<1>4. nodes \subseteq S
  <2>1. ASSUME NEW n \in nodes, Children(heap, n) \subseteq S
        PROVE  n \in S
    BY <1>3, <2>1
  <2> HIDE DEF S
  <2>2. QED
    BY <2>1, TreeInduction
<1>5. QED
  BY <1>4

-----------------------------------------------------------------------------
(* What the depths say about the tree before and after the traversal.           *)

(* The depths a parser leaves: an operation has a left operand, a leaf has depth 1, *)
(* one operand passes its depth on, and two add theirs up.                       *)
Summed(heap, n) ==
  /\ ~heap.operand[n] => heap.left[n] # NULL
  /\ heap.left[n] = NULL => heap.right[n] = NULL /\ heap.depth[n] = 1
  /\ heap.left[n] # NULL /\ heap.right[n] = NULL => heap.depth[n] = heap.depth[heap.left[n]]
  /\ heap.left[n] # NULL /\ heap.right[n] # NULL =>
       heap.depth[n] = heap.depth[heap.left[n]] + heap.depth[heap.right[n]]

(* Before the traversal, depth 1 means that there is no operator below a node.    *)
LEMMA DepthOne ==
  ASSUME NEW heap, NEW rank, NEW top, Ranked(heap, rank, top),
         heap.depth \in [DOMAIN heap.left -> Nat \ {0}],
         NEW below, IsBelow(heap, below),
         NEW root \in DOMAIN heap.left, \A n \in below[root] : Summed(heap, n)
  PROVE  \A n \in below[root] :
           heap.depth[n] = 1 <=> \A m \in below[n] : heap.right[m] = NULL
<1> DEFINE nodes == DOMAIN heap.left
           One(n) == heap.depth[n] = 1 <=> \A m \in below[n] : heap.right[m] = NULL
           S == {n \in nodes : n \in below[root] => One(n)}
<1>1. ASSUME NEW n \in nodes, Children(heap, n) \subseteq S, n \in below[root]
      PROVE  One(n)
  <2>1. Summed(heap, n) /\ below[n] \subseteq below[root] /\ n \in below[n]
    BY <1>1, BelowTransitive, BelowIs
  <2>2. \A child \in Children(heap, n) :
          /\ child \in nodes /\ below[child] \subseteq below[n] /\ child \in below[child]
          /\ One(child) /\ heap.depth[child] \in Nat \ {0}
    <3> SUFFICES ASSUME NEW child \in Children(heap, n)
                 PROVE  /\ child \in nodes /\ below[child] \subseteq below[n]
                        /\ child \in below[child]
                        /\ One(child) /\ heap.depth[child] \in Nat \ {0}
      OBVIOUS
    <3>1. child \in nodes /\ below[child] \subseteq below[n]
      BY BelowIs
    <3>2. child \in below[child]
      BY <3>1, BelowIs
    <3>3. QED
      BY <1>1, <2>1, <3>1, <3>2
  <2>3. \A m \in below[n] : m = n \/ \E child \in Children(heap, n) : m \in below[child]
    BY BelowIs
  <2>4. CASE heap.left[n] = NULL
    <3>1. Children(heap, n) = {} /\ heap.depth[n] = 1 /\ heap.right[n] = NULL
      BY <2>1, <2>4 DEF Summed, Children
    <3>2. QED
      BY <2>3, <3>1
  <2>5. CASE heap.left[n] # NULL /\ heap.right[n] = NULL
    <3>1. Children(heap, n) = {heap.left[n]} /\ heap.depth[n] = heap.depth[heap.left[n]]
      BY <2>1, <2>5 DEF Summed, Children
    <3>2. (\A m \in below[n] : heap.right[m] = NULL)
            <=> (\A m \in below[heap.left[n]] : heap.right[m] = NULL)
      BY <2>2, <2>3, <2>5, <3>1
    <3>3. QED
      BY <2>2, <3>1, <3>2
  <2>6. CASE heap.left[n] # NULL /\ heap.right[n] # NULL
    <3>1. /\ heap.depth[n] = heap.depth[heap.left[n]] + heap.depth[heap.right[n]]
          /\ heap.left[n] \in Children(heap, n) /\ heap.right[n] \in Children(heap, n)
      BY <2>1, <2>6 DEF Summed, Children
    <3>2. heap.depth[heap.left[n]] \in Nat \ {0} /\ heap.depth[heap.right[n]] \in Nat \ {0}
      BY <2>2, <3>1
    <3>3. heap.depth[n] # 1
      BY <3>1, <3>2
    <3>4. QED
      BY <2>1, <2>6, <3>3
  <2>7. QED
    BY <2>1, <2>4, <2>5, <2>6 DEF Summed
<1>2. nodes \subseteq S
  <2>1. ASSUME NEW n \in nodes, Children(heap, n) \subseteq S
        PROVE  n \in S
    BY <1>1, <2>1
  <2> HIDE DEF S
  <2>2. QED
    BY <2>1, TreeInduction
<1>3. below[root] \subseteq nodes
  BY BelowIs
<1>4. QED
  BY <1>2, <1>3

(* After the traversal, the nodes of depth 1 that were neither a leaf nor an       *)
(* operation without an operator below it are those it registered.              *)
LEMMA RegisteredExactly ==
  ASSUME NEW heap, NEW rank, NEW top, Ranked(heap, rank, top),
         heap.depth \in [DOMAIN heap.left -> Nat \ {0}],
         NEW below, IsBelow(heap, below),
         NEW root \in DOMAIN heap.left, \A n \in below[root] : Summed(heap, n)
  PROVE  \A n \in below[root] :
           n \in Elements(AppendedBy(heap, root)) <=>
             /\ ~heap.operand[n]
             /\ DepthAfter(heap, root)[n] = 1
             /\ \E m \in below[n] : heap.right[m] # NULL
<1> DEFINE nodes == DOMAIN heap.left
           W == Weight(heap)
           V == Visited(heap)[root]
<1>1. root # NULL /\ AppendedBy(heap, root) = Registered(heap)[root]
  BY DEF Ranked, AppendedBy
<1>2. \A n \in nodes :
        DepthAfter(heap, root)[n] = IF n \in V /\ ~heap.operand[n] THEN W[n] ELSE heap.depth[n]
  BY <1>1 DEF DepthAfter
<1> SUFFICES ASSUME NEW n \in below[root]
             PROVE  n \in Elements(Registered(heap)[root]) <=>
                      /\ ~heap.operand[n]
                      /\ DepthAfter(heap, root)[n] = 1
                      /\ \E m \in below[n] : heap.right[m] # NULL
  BY <1>1
<1>3. n \in nodes /\ Summed(heap, n)
      /\ (heap.depth[n] = 1 <=> \A m \in below[n] : heap.right[m] = NULL)
  BY BelowIs, DepthOne
<1>4. n \in Elements(Registered(heap)[root]) <=>
        n \in V /\ ~Shallow(heap, n) /\ Gather(heap, W, n) > MAX_DEPTH
  BY RegisteredAre
<1>5. ~Shallow(heap, n) <=> ~heap.operand[n] /\ heap.depth[n] # 1
  BY DEF Shallow
<1>6. /\ W \in [nodes -> 1..MAX_DEPTH] /\ Gather(heap, W, n) \in Nat
      /\ W[n] = IF Shallow(heap, n) \/ Gather(heap, W, n) > MAX_DEPTH
                THEN 1 ELSE Gather(heap, W, n)
  BY <1>3, WeightIs
<1>7. ASSUME ~heap.operand[n]
      PROVE  Gather(heap, W, n) > 1
  <2>1. heap.left[n] # NULL /\ heap.left[n] \in nodes
    BY <1>3, <1>7 DEF Summed, Ranked
  <2>2. Of(W, 0, heap.left[n]) \in Nat \ {0} /\ Of(W, 0, heap.right[n]) \in Nat
    BY <1>3, <1>6, <2>1 DEF Ranked, Of
  <2>3. QED
    BY <2>2, GatherIs
<1> HIDE DEF V, W
<1>8. ASSUME n \in V, ~Shallow(heap, n), Gather(heap, W, n) > MAX_DEPTH
      PROVE  DepthAfter(heap, root)[n] = 1
  BY <1>2, <1>3, <1>5, <1>6, <1>8
<1>9. ASSUME ~heap.operand[n], DepthAfter(heap, root)[n] = 1, heap.depth[n] # 1
      PROVE  n \in V /\ Gather(heap, W, n) > MAX_DEPTH
  <2>1. n \in V /\ W[n] = 1
    BY <1>2, <1>3, <1>9
  <2>2. Gather(heap, W, n) > 1 /\ ~Shallow(heap, n)
    BY <1>5, <1>7, <1>9
  <2>3. QED
    BY <1>6, <2>1, <2>2
<1>10. QED
  BY <1>3, <1>4, <1>5, <1>8, <1>9

-----------------------------------------------------------------------------
(* What the buffer gets of the nodes the traversal gives it.                     *)

(* One write: a refused node leaves the buffer as it was.                        *)
WriteOf(nodes, refused, f, i) ==
  IF i = 0 THEN <<>> ELSE IF nodes[i] \in refused THEN f[i - 1] ELSE Append(f[i - 1], nodes[i])

(* The recursive function exists: one that is right up to some write extends to the    *)
(* next.                                                                       *)
LEMMA WrittenExists ==
  ASSUME NEW S, NEW nodes \in Seq(S), NEW refused
  PROVE  \E f \in [0..Len(nodes) -> Seq(S)] :
           \A i \in 0..Len(nodes) : f[i] = WriteOf(nodes, refused, f, i)
<1> DEFINE Right(f, k) == \A i \in 0..k : f[i] = WriteOf(nodes, refused, f, i)
           T == {k \in Nat : k <= Len(nodes)
                             /\ ~ \E f \in [0..k -> Seq(S)] : Right(f, k)}
<1>1. Len(nodes) \in Nat /\ \A i \in 1..Len(nodes) : nodes[i] \in S
  BY LenProperties, ElementOfSeq
<1>2. T = {}
  <2> SUFFICES ASSUME T # {} PROVE FALSE
    OBVIOUS
  <2>1. PICK k \in T : \A j \in T : k <= j
    <3>1. T \subseteq Nat
      OBVIOUS
    <3> HIDE DEF T
    <3>2. QED
      BY <3>1, SmallestNat
  <2>2. k \in Nat /\ k <= Len(nodes) /\ ~ \E f \in [0..k -> Seq(S)] : Right(f, k)
    BY <2>1
  <2>3. CASE k = 0
    <3> DEFINE f == [i \in 0..k |-> <<>>]
    <3>1. f \in [0..k -> Seq(S)]
      BY EmptySeq
    <3>2. Right(f, k)
      BY <2>3 DEF WriteOf
    <3> HIDE DEF f
    <3>3. QED
      BY <2>2, <3>1, <3>2
  <2>4. CASE k # 0
    <3>1. k - 1 \in Nat /\ k - 1 <= Len(nodes) /\ k \in 1..Len(nodes)
      BY <1>1, <2>2, <2>4
    <3>2. k - 1 \notin T
      <4> HIDE DEF T
      <4>1. QED
        BY <2>1, <2>2, <3>1
    <3>3. PICK f \in [0..(k - 1) -> Seq(S)] : Right(f, k - 1)
      <4> HIDE DEF Right
      <4>1. QED
        BY <3>1, <3>2
    <3> DEFINE g == [i \in 0..k |-> IF i = k THEN WriteOf(nodes, refused, f, k) ELSE f[i]]
    <3>4. WriteOf(nodes, refused, f, k) \in Seq(S)
      <4>1. f[k - 1] \in Seq(S) /\ nodes[k] \in S
        BY <1>1, <2>2, <3>1, <3>3
      <4>2. Append(f[k - 1], nodes[k]) \in Seq(S)
        BY <4>1, AppendProperties
      <4>3. QED
        BY <2>4, <4>1, <4>2 DEF WriteOf
    <3>5. g \in [0..k -> Seq(S)]
      <4>1. \A i \in 0..k : i # k => i \in 0..(k - 1)
        BY <2>2
      <4>2. QED
        BY <3>3, <3>4, <4>1
    <3>6. \A i \in 0..k : /\ i # 0 => i - 1 \in 0..k /\ i - 1 # k
                          /\ i # k => i \in 0..(k - 1)
      BY <2>2
    <3>7. ASSUME NEW i \in 0..k
          PROVE  g[i] = WriteOf(nodes, refused, g, i)
      <4>1. WriteOf(nodes, refused, g, i) = WriteOf(nodes, refused, f, i)
        <5>1. i # 0 => g[i - 1] = f[i - 1]
          BY <3>6
        <5> HIDE DEF g
        <5>2. QED
          BY <5>1 DEF WriteOf
      <4>2. g[i] = WriteOf(nodes, refused, f, i)
        BY <3>3, <3>6
      <4>3. QED
        BY <4>1, <4>2
    <3> HIDE DEF g
    <3>8. Right(g, k)
      BY <3>7
    <3>9. QED
      BY <2>2, <3>5, <3>8
  <2>5. QED
    BY <2>3, <2>4
<1>3. PICK f \in [0..Len(nodes) -> Seq(S)] : Right(f, Len(nodes))
  <2>1. Len(nodes) \notin T
    BY <1>2
  <2> HIDE DEF Right
  <2>2. QED
    BY <1>1, <2>1
<1>4. QED
  BY <1>3

(* s holds the nodes before position i that are not refused, in their order.        *)
Keeps(nodes, refused, s, i) ==
  /\ \A a \in DOMAIN s : \E k \in 1..i : nodes[k] \notin refused /\ s[a] = nodes[k]
  /\ \A a, b \in DOMAIN s : a < b =>
       \E k, l \in 1..i : k < l /\ s[a] = nodes[k] /\ s[b] = nodes[l]
  /\ \A k \in 1..i : nodes[k] \in refused \/ \E a \in DOMAIN s : s[a] = nodes[k]

(* A write keeps it so.                                                          *)
LEMMA KeepsStep ==
  ASSUME NEW S, NEW nodes \in Seq(S), NEW refused, NEW i \in 1..Len(nodes),
         NEW s \in Seq(S), Keeps(nodes, refused, s, i - 1)
  PROVE  IF nodes[i] \in refused THEN Keeps(nodes, refused, s, i)
         ELSE /\ Append(s, nodes[i]) \in Seq(S)
              /\ Keeps(nodes, refused, Append(s, nodes[i]), i)
<1>1. i \in Nat /\ i - 1 \in Nat /\ nodes[i] \in S
  BY LenProperties, ElementOfSeq
<1>2. i \in 1..i /\ \A k \in 1..(i - 1) : k \in 1..i /\ k < i
  BY <1>1
<1>3. \A k \in 1..i : k = i \/ k \in 1..(i - 1)
  BY <1>1
<1>4. CASE nodes[i] \in refused
  BY <1>2, <1>3, <1>4 DEF Keeps
<1>5. CASE nodes[i] \notin refused
  <2> DEFINE t == Append(s, nodes[i])
             n == Len(s) + 1
  <2>1. /\ t \in Seq(S) /\ Len(t) = n /\ t[n] = nodes[i]
        /\ \A a \in 1..Len(s) : t[a] = s[a]
        /\ Len(s) \in Nat
    BY <1>1, AppendProperties, LenProperties
  <2>2. DOMAIN t = 1..n /\ DOMAIN s = 1..Len(s)
    BY <2>1, LenProperties
  <2>3. /\ \A a \in DOMAIN t : a = n \/ (a \in DOMAIN s /\ t[a] = s[a] /\ a < n)
        /\ \A a \in DOMAIN s : a \in DOMAIN t
        /\ n \in DOMAIN t
        /\ \A a, b \in DOMAIN t : a < b => a # n
    BY <2>1, <2>2
  <2> HIDE DEF t, n
  <2>4. ASSUME NEW a \in DOMAIN t
        PROVE  \E k \in 1..i : nodes[k] \notin refused /\ t[a] = nodes[k]
    <3>1. CASE a = n
      BY <1>2, <1>5, <2>1, <3>1
    <3>2. CASE a # n
      <4>1. a \in DOMAIN s /\ t[a] = s[a]
        BY <2>3, <3>2
      <4>2. PICK k \in 1..(i - 1) : nodes[k] \notin refused /\ s[a] = nodes[k]
        BY <4>1 DEF Keeps
      <4>3. QED
        BY <1>2, <4>1, <4>2
    <3>3. QED
      BY <3>1, <3>2
  <2>5. ASSUME NEW a \in DOMAIN t, NEW b \in DOMAIN t, a < b
        PROVE  \E k, l \in 1..i : k < l /\ t[a] = nodes[k] /\ t[b] = nodes[l]
    <3>1. a \in DOMAIN s /\ t[a] = s[a]
      BY <2>3, <2>5
    <3>2. CASE b = n
      <4>1. PICK k \in 1..(i - 1) : s[a] = nodes[k]
        BY <3>1 DEF Keeps
      <4>2. QED
        BY <1>2, <2>1, <3>1, <3>2, <4>1
    <3>3. CASE b # n
      <4>1. b \in DOMAIN s /\ t[b] = s[b]
        BY <2>3, <3>3
      <4>2. PICK k \in 1..(i - 1), l \in 1..(i - 1) : k < l /\ s[a] = nodes[k] /\ s[b] = nodes[l]
        BY <2>5, <3>1, <4>1 DEF Keeps
      <4>3. QED
        BY <1>2, <3>1, <4>1, <4>2
    <3>4. QED
      BY <3>2, <3>3
  <2>6. \A k \in 1..i : nodes[k] \in refused \/ \E a \in DOMAIN t : t[a] = nodes[k]
    BY <1>3, <2>1, <2>2, <2>3 DEF Keeps, t
  <2>7. QED
    BY <1>5, <2>1, <2>4, <2>5, <2>6 DEF Keeps, t
<1>6. QED
  BY <1>4, <1>5

(* The buffer gets the nodes whose writes do not fail, in the order in which they     *)
(* are given to it.                                                            *)
LEMMA WrittenIs ==
  ASSUME NEW S, NEW nodes \in Seq(S), NEW refused
  PROVE  /\ Written(nodes, refused) \in Seq(S)
         /\ Keeps(nodes, refused, Written(nodes, refused), Len(nodes))
<1> DEFINE F(f) == f = [i \in 0..Len(nodes) |->
                          IF i = 0 THEN <<>>
                          ELSE IF nodes[i] \in refused THEN f[i - 1]
                          ELSE Append(f[i - 1], nodes[i])]
           written == CHOOSE f : F(f)
           Right(i) == written[i] \in Seq(S) /\ Keeps(nodes, refused, written[i], i)
           T == {i \in Nat : i <= Len(nodes) /\ ~Right(i)}
<1>1. \E f : F(f)
  <2>1. PICK f \in [0..Len(nodes) -> Seq(S)] :
          \A i \in 0..Len(nodes) : f[i] = WriteOf(nodes, refused, f, i)
    BY WrittenExists
  <2>2. F(f)
    BY <2>1 DEF WriteOf
  <2> HIDE DEF F
  <2>3. QED
    BY <2>2
<1>2. F(written)
  BY <1>1
<1>3. Written(nodes, refused) = written[Len(nodes)]
  BY DEF Written
<1> HIDE DEF written
<1>4. Len(nodes) \in Nat /\ 0 \in 0..Len(nodes)
  BY LenProperties
<1>5. Right(0)
  <2>1. written[0] = <<>>
    BY <1>2, <1>4
  <2>2. <<>> \in Seq(S) /\ DOMAIN <<>> = {} /\ 1..0 = {}
    BY EmptySeq
  <2>3. QED
    BY <2>1, <2>2 DEF Keeps
<1>6. ASSUME NEW i \in 1..Len(nodes), Right(i - 1)
      PROVE  Right(i)
  <2>1. written[i] = IF nodes[i] \in refused THEN written[i - 1]
                     ELSE Append(written[i - 1], nodes[i])
    <3>1. i \in 0..Len(nodes) /\ i # 0
      BY <1>4
    <3>2. QED
      BY <1>2, <3>1
  <2>2. IF nodes[i] \in refused THEN Keeps(nodes, refused, written[i - 1], i)
        ELSE /\ Append(written[i - 1], nodes[i]) \in Seq(S)
             /\ Keeps(nodes, refused, Append(written[i - 1], nodes[i]), i)
    BY <1>6, KeepsStep
  <2>3. QED
    BY <1>6, <2>1, <2>2
<1>7. T = {}
  <2> SUFFICES ASSUME T # {} PROVE FALSE
    OBVIOUS
  <2>1. PICK i \in T : \A j \in T : i <= j
    <3>1. T \subseteq Nat
      OBVIOUS
    <3> HIDE DEF T
    <3>2. QED
      BY <3>1, SmallestNat
  <2> HIDE DEF Right
  <2>2. i \in Nat /\ i <= Len(nodes) /\ ~Right(i) /\ i # 0
    BY <1>5, <2>1
  <2>3. i - 1 \in Nat /\ i - 1 <= Len(nodes) /\ i \in 1..Len(nodes) /\ ~ (i <= i - 1)
    BY <1>4, <2>2
  <2>4. Right(i - 1)
    BY <2>1, <2>3
  <2>5. QED
    BY <1>6, <2>2, <2>3, <2>4
<1>8. Right(Len(nodes))
  <2> HIDE DEF Right
  <2>1. QED
    BY <1>4, <1>7
<1>9. QED
  BY <1>3, <1>8

(* The order of the traversal is the order of the buffer.                           *)
LEMMA WrittenInOrder ==
  ASSUME NEW S, NEW nodes \in Seq(S), NEW refused, NEW below, InOrder(below, nodes)
  PROVE  InOrder(below, Written(nodes, refused))
<1> DEFINE w == Written(nodes, refused)
<1>1. DOMAIN nodes = 1..Len(nodes) /\ Keeps(nodes, refused, w, Len(nodes))
  BY LenProperties, WrittenIs
<1> HIDE DEF w
<1>2. ASSUME NEW a \in DOMAIN w, NEW b \in DOMAIN w, a < b
      PROVE  w[b] \notin below[w[a]]
  <2>1. PICK k \in 1..Len(nodes), l \in 1..Len(nodes) :
          k < l /\ w[a] = nodes[k] /\ w[b] = nodes[l]
    BY <1>1, <1>2 DEF Keeps
  <2>2. QED
    BY <1>1, <2>1 DEF InOrder
<1>3. InOrder(below, w)
  BY <1>2 DEF InOrder
<1>4. QED
  BY <1>3 DEF w

(* A node that is written was given, and one that was given is written or refused.    *)
LEMMA WrittenElements ==
  ASSUME NEW S, NEW nodes \in Seq(S), NEW refused
  PROVE  /\ Elements(Written(nodes, refused)) \subseteq Elements(nodes)
         /\ Elements(nodes) \subseteq Elements(Written(nodes, refused)) \cup refused
<1>1. DOMAIN nodes = 1..Len(nodes)
  BY LenProperties
<1>2. QED
  BY <1>1, WrittenIs DEF Keeps, Elements

(* Nothing is written when nothing is given.                                       *)
LEMMA WrittenNothing ==
  ASSUME NEW refused
  PROVE  Written(<<>>, refused) = <<>>
<1> DEFINE w == Written(<<>>, refused)
<1>1. <<>> \in Seq({}) /\ Len(<<>>) = 0
  OBVIOUS
<1>2. w \in Seq({}) 
  BY <1>1, WrittenIs
<1> HIDE DEF w
<1>3. w = <<>>
  BY <1>2
<1>4. QED
  BY <1>3 DEF w

=============================================================================
