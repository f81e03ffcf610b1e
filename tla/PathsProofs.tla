----------------------------- MODULE PathsProofs -----------------------------
(***************************************************************************)
(* Facts about paths, and about the trees that are named by them: what is below  *)
(* the root of a tree that was joined from two, and what is in a subtree.       *)
(***************************************************************************)
EXTENDS Paths, Extrema, SequenceTheorems, FiniteSetTheorems

Path == Seq({1, 2})

(* A set of nodes that holds the parents of its nodes.                         *)
Closed(nodes) ==
  /\ nodes \subseteq Path
  /\ \A p \in nodes : p # <<>> => Front(p) \in nodes

-----------------------------------------------------------------------------
(* Beginnings of paths.                                                        *)

(* A path begins with another if it is as long and goes the same way so far.        *)
LEMMA PrefixIs ==
  ASSUME NEW a \in Path, NEW b \in Path
  PROVE  IsPrefix(a, b) <=> Len(a) <= Len(b) /\ \A i \in 1..Len(a) : a[i] = b[i]
<1>1. Len(a) \in Nat /\ Len(b) \in Nat
  BY DEF Path
<1> DEFINE s == SubSeq(a, 1, Len(a))
           t == SubSeq(b, 1, Len(a))
<1>2. ASSUME Len(a) <= Len(b)
      PROVE  /\ s \in Path /\ Len(s) = Len(a) /\ \A i \in 1..Len(a) : s[i] = a[i]
             /\ t \in Path /\ Len(t) = Len(a) /\ \A i \in 1..Len(a) : t[i] = b[i]
  BY <1>1, <1>2 DEF Path
<1>3. ASSUME Len(a) <= Len(b), \A i \in 1..Len(a) : a[i] = b[i]
      PROVE  s = t
  <2> HIDE DEF s, t
  <2>1. QED
    BY <1>1, <1>2, <1>3, SeqEqual DEF Path
<1>4. ASSUME Len(a) <= Len(b), s = t
      PROVE  \A i \in 1..Len(a) : a[i] = b[i]
  <2> HIDE DEF s, t
  <2>1. QED
    BY <1>2, <1>4
<1>5. QED
  BY <1>3, <1>4 DEF IsPrefix

(* "Begins with" is an order.                                                  *)
LEMMA PrefixOrder ==
  ASSUME NEW a \in Path, NEW b \in Path
  PROVE  /\ IsPrefix(a, a) /\ IsPrefix(<<>>, a) /\ (IsPrefix(a, <<>>) => a = <<>>)
         /\ IsPrefix(a, b) /\ IsPrefix(b, a) => a = b
         /\ \A c \in Path : IsPrefix(a, b) /\ IsPrefix(b, c) => IsPrefix(a, c)
         /\ IsPrefix(a, b) => Len(a) <= Len(b)
<1>1. <<>> \in Path /\ Len(<<>>) = 0 /\ Len(a) \in Nat /\ Len(b) \in Nat
  BY DEF Path
<1>2. IsPrefix(a, a) /\ IsPrefix(<<>>, a)
  BY <1>1, PrefixIs
<1>3. ASSUME IsPrefix(a, b), IsPrefix(b, a)
      PROVE  a = b
  <2>1. Len(a) = Len(b) /\ \A i \in 1..Len(a) : a[i] = b[i]
    BY <1>1, <1>3, PrefixIs
  <2>2. QED
    BY <2>1, SeqEqual DEF Path
<1>4. IsPrefix(a, <<>>) => a = <<>>
  <2>1. IsPrefix(a, <<>>) => Len(a) = 0
    BY <1>1, PrefixIs
  <2>2. QED
    BY <2>1, EmptySeq DEF Path
<1>5. ASSUME NEW c \in Path, IsPrefix(a, b), IsPrefix(b, c)
      PROVE  IsPrefix(a, c)
  <2>1. Len(c) \in Nat
    BY DEF Path
  <2>2. Len(a) <= Len(b) /\ Len(b) <= Len(c)
    BY <1>5, PrefixIs
  <2>3. \A i \in 1..Len(a) : i \in 1..Len(b)
    BY <1>1, <2>1, <2>2
  <2>4. \A i \in 1..Len(a) : a[i] = b[i] /\ b[i] = c[i]
    BY <1>5, <2>3, PrefixIs
  <2>5. QED
    BY <1>1, <2>1, <2>2, <2>4, PrefixIs
<1>6. QED
  BY <1>2, <1>3, <1>4, <1>5, PrefixIs

(* The path of a child.                                                        *)
LEMMA ChildPath ==
  ASSUME NEW p \in Path, NEW side \in {1, 2}
  PROVE  /\ Append(p, side) \in Path /\ Append(p, side) # <<>>
         /\ Len(Append(p, side)) = Len(p) + 1 /\ Len(p) \in Nat
         /\ \A i \in 1..Len(p) : Append(p, side)[i] = p[i]
         /\ Append(p, side)[Len(p) + 1] = side
         /\ Front(Append(p, side)) = p
         /\ IsPrefix(p, Append(p, side)) /\ ~IsPrefix(Append(p, side), p)
<1> DEFINE c == Append(p, side)
<1>1. /\ c \in Path /\ Len(c) = Len(p) + 1 /\ Len(p) \in Nat /\ c # <<>>
      /\ (\A i \in 1..Len(p) : c[i] = p[i]) /\ c[Len(p) + 1] = side
  BY AppendProperties DEF Path
<1>2. Front(c) = p
  <2> DEFINE f == SubSeq(c, 1, Len(c) - 1)
  <2>1. f \in Path /\ Len(f) = Len(p) /\ \A i \in 1..Len(p) : f[i] = c[i]
    <3> HIDE DEF c
    <3>1. QED
      BY <1>1 DEF Path
  <2> HIDE DEF f, c
  <2>2. f = p
    BY <1>1, <2>1, SeqEqual DEF Path
  <2>3. QED
    BY <2>2 DEF Front, f
<1> HIDE DEF c
<1>3. IsPrefix(p, c) /\ ~IsPrefix(c, p)
  BY <1>1, PrefixIs
<1>4. QED
  BY <1>1, <1>2, <1>3 DEF c

(* The path of a parent.                                                       *)
LEMMA ParentPath ==
  ASSUME NEW p \in Path, p # <<>>
  PROVE  /\ Front(p) \in Path /\ Len(Front(p)) = Len(p) - 1 /\ Len(p) \in Nat \ {0}
         /\ p[Len(p)] \in {1, 2} /\ Append(Front(p), p[Len(p)]) = p
<1>1. Len(p) \in Nat \ {0} /\ \A i \in 1..Len(p) : p[i] \in {1, 2}
  BY EmptySeq, ElementOfSeq DEF Path
<1> DEFINE f == SubSeq(p, 1, Len(p) - 1)
<1>2. f \in Path /\ Len(f) = Len(p) - 1 /\ \A i \in 1..(Len(p) - 1) : f[i] = p[i]
  <2>1. \A i \in 1..(Len(p) - 1) : p[i] \in {1, 2}
    BY <1>1
  <2>2. 1 \in Int /\ Len(p) - 1 \in Int
    BY <1>1
  <2>3. /\ f \in Path
        /\ Len(f) = IF 1 <= Len(p) - 1 THEN Len(p) - 1 - 1 + 1 ELSE 0
        /\ \A i \in 1..(Len(p) - 1 - 1 + 1) : f[i] = p[1 + i - 1]
    BY <2>1, <2>2, SubSeqProperties DEF Path
  <2> HIDE DEF f
  <2>4. ASSUME NEW i \in 1..(Len(p) - 1)
        PROVE  f[i] = p[i]
    <3>1. i \in 1..(Len(p) - 1 - 1 + 1) /\ 1 + i - 1 = i
      BY <1>1
    <3>2. f[i] = p[1 + i - 1]
      BY <2>3, <3>1
    <3>3. QED
      BY <3>1, <3>2
  <2>5. Len(f) = Len(p) - 1
    <3>1. Len(f) = IF 1 <= Len(p) - 1 THEN Len(p) - 1 - 1 + 1 ELSE 0
      BY <2>3
    <3>2. PICK k \in Nat \ {0} : k = Len(p)
      BY <1>1
    <3>3. Len(f) = IF 1 <= k - 1 THEN k - 1 - 1 + 1 ELSE 0
      BY <3>1, <3>2
    <3>4. Len(f) = k - 1
      <4>1. CASE 1 <= k - 1
        <5>1. k - 1 - 1 + 1 = k - 1
          OBVIOUS
        <5>2. QED
          BY <3>3, <4>1, <5>1
      <4>2. CASE ~(1 <= k - 1)
        <5>1. k - 1 = 0
          BY <4>2
        <5>2. QED
          BY <3>3, <4>2, <5>1
      <4>3. QED
        BY <4>1, <4>2
    <3>5. QED
      BY <3>2, <3>4
  <2>6. QED
    BY <2>3, <2>4, <2>5
<1> HIDE DEF f
<1> DEFINE c == Append(f, p[Len(p)])
<1>3. p[Len(p)] \in {1, 2}
  BY <1>1
<1>4. /\ c \in Path /\ Len(c) = Len(f) + 1
      /\ (\A i \in 1..Len(f) : c[i] = f[i]) /\ c[Len(f) + 1] = p[Len(p)]
  BY <1>2, <1>3, ChildPath
<1> HIDE DEF c
<1>5. Len(c) = Len(p) /\ \A i \in 1..Len(p) : c[i] = p[i]
  <2>1. \A i \in 1..Len(p) : i \in 1..Len(f) \/ i = Len(f) + 1
    BY <1>1, <1>2
  <2>2. QED
    BY <1>1, <1>2, <1>4, <2>1
<1>6. c = p
  BY <1>4, <1>5, SeqEqual DEF Path
<1>7. QED
  BY <1>1, <1>2, <1>3, <1>6 DEF Front, f, c

(* Two children are the same only if they are the same child of the same node.     *)
LEMMA ChildrenApart ==
  ASSUME NEW p \in Path, NEW q \in Path, NEW s \in {1, 2}, NEW t \in {1, 2},
         Append(p, s) = Append(q, t)
  PROVE  p = q /\ s = t
  BY AppendInjective DEF Path

(* What begins with p is p, or begins with the path of one of its children.        *)
LEMMA PrefixSplits ==
  ASSUME NEW p \in Path, NEW q \in Path
  PROVE  /\ IsPrefix(p, q) <=> q = p \/ IsPrefix(Append(p, 1), q) \/ IsPrefix(Append(p, 2), q)
         /\ ~(IsPrefix(Append(p, 1), q) /\ IsPrefix(Append(p, 2), q))
<1>1. /\ Append(p, 1) \in Path /\ Append(p, 2) \in Path
      /\ IsPrefix(p, Append(p, 1)) /\ IsPrefix(p, Append(p, 2))
      /\ Len(Append(p, 1)) = Len(p) + 1 /\ Len(Append(p, 2)) = Len(p) + 1
      /\ Append(p, 1)[Len(p) + 1] = 1 /\ Append(p, 2)[Len(p) + 1] = 2
      /\ \A i \in 1..Len(p) : Append(p, 1)[i] = p[i] /\ Append(p, 2)[i] = p[i]
      /\ Len(p) \in Nat /\ Len(q) \in Nat
  BY ChildPath DEF Path
<1>2. ASSUME IsPrefix(p, q), q # p
      PROVE  IsPrefix(Append(p, 1), q) \/ IsPrefix(Append(p, 2), q)
  <2>1. Len(p) <= Len(q) /\ \A i \in 1..Len(p) : p[i] = q[i]
    BY <1>2, PrefixIs
  <2>2. Len(p) # Len(q)
    BY <1>2, <2>1, SeqEqual DEF Path
  <2>3. Len(p) + 1 \in 1..Len(q) /\ Len(p) + 1 <= Len(q)
    BY <1>1, <2>1, <2>2
  <2>4. q[Len(p) + 1] \in {1, 2}
    BY <2>3, ElementOfSeq DEF Path
  <2>5. PICK s \in {1, 2} : q[Len(p) + 1] = s
    BY <2>4
  <2>6. \A i \in 1..(Len(p) + 1) : i \in 1..Len(p) \/ i = Len(p) + 1
    BY <1>1
  <2>7. Append(p, s) \in Path /\ Len(Append(p, s)) = Len(p) + 1
        /\ \A i \in 1..(Len(p) + 1) : Append(p, s)[i] = q[i]
    BY <1>1, <2>1, <2>5, <2>6
  <2>8. IsPrefix(Append(p, s), q)
    BY <2>3, <2>7, PrefixIs
  <2>9. QED
    BY <2>8
<1>3. ASSUME NEW s \in {1, 2}, IsPrefix(Append(p, s), q)
      PROVE  IsPrefix(p, q) /\ q[Len(p) + 1] = s
  <2>1. IsPrefix(p, q)
    BY <1>1, <1>3, PrefixOrder
  <2>2. \A i \in 1..(Len(p) + 1) : Append(p, s)[i] = q[i]
    <3>1. Append(p, s) \in Path /\ Len(Append(p, s)) = Len(p) + 1
      BY <1>1
    <3>2. QED
      BY <1>3, <3>1, PrefixIs
  <2>3. Len(p) + 1 \in 1..(Len(p) + 1)
    BY <1>1
  <2>4. QED
    BY <1>1, <2>1, <2>2, <2>3
<1>4. QED
  BY <1>2, <1>3, PrefixOrder

(* All beginnings of a path lead to nodes: the shortest path that has p as a          *)
(* beginning would have a parent with it.                                      *)
LEMMA ClosedPrefix ==
  ASSUME NEW nodes, Closed(nodes), NEW q \in nodes, NEW p \in Path, IsPrefix(p, q)
  PROVE  p \in nodes
<1> DEFINE T == {Len(r) : r \in {m \in nodes : IsPrefix(p, m)}}
<1>1. \A m \in nodes : m \in Path /\ Len(m) \in Nat
  BY DEF Closed, Path
<1>2. T \subseteq Nat /\ T # {}
  BY <1>1
<1>3. PICK k \in T : \A j \in T : k <= j
  <2> HIDE DEF T
  <2>1. QED
    BY <1>2, SmallestNat
<1>4. PICK r \in nodes : IsPrefix(p, r) /\ Len(r) = k
  BY <1>3
<1>5. CASE r = p
  BY <1>4, <1>5
<1>6. CASE r # p
  <2>1. PICK s \in {1, 2} : IsPrefix(Append(p, s), r)
    BY <1>1, <1>4, <1>6, PrefixSplits
  <2>2. r # <<>> /\ Len(r) \in Nat
    <3>1. Append(p, s) \in Path /\ Append(p, s) # <<>> /\ r \in Path
      BY <1>1, ChildPath
    <3>2. IsPrefix(Append(p, s), <<>>) => Append(p, s) = <<>>
      BY <3>1, PrefixOrder
    <3>3. QED
      BY <1>1, <2>1, <3>1, <3>2
  <2>3. Front(r) \in nodes /\ Front(r) \in Path /\ Len(Front(r)) = Len(r) - 1
    BY <1>1, <2>2, ParentPath DEF Closed
  <2>4. IsPrefix(p, Front(r))
    <3>1. /\ r[Len(r)] \in {1, 2} /\ Append(Front(r), r[Len(r)]) = r
          /\ Len(p) \in Nat /\ Len(p) + 1 <= Len(r)
      <4>1. Len(Append(p, s)) <= Len(r) /\ Len(Append(p, s)) = Len(p) + 1 /\ Len(p) \in Nat
        BY <1>1, <2>1, ChildPath, PrefixOrder
      <4>2. QED
        BY <1>1, <2>2, <4>1, ParentPath
    <3>2. \A i \in 1..Len(Front(r)) : Front(r)[i] = r[i]
      BY <2>3, <3>1, ChildPath
    <3>3. Len(p) <= Len(r) /\ \A i \in 1..Len(p) : p[i] = r[i]
      BY <1>1, <1>4, PrefixIs
    <3>4. \A i \in 1..Len(p) : i \in 1..Len(Front(r))
      BY <2>2, <2>3, <3>1
    <3>5. Len(p) <= Len(Front(r)) /\ \A i \in 1..Len(p) : p[i] = Front(r)[i]
      BY <2>2, <2>3, <3>1, <3>2, <3>3, <3>4
    <3>6. QED
      BY <2>3, <3>5, PrefixIs
  <2>5. Len(r) - 1 \in T
    BY <2>3, <2>4
  <2>6. QED
    BY <1>3, <1>4, <2>2, <2>5
<1>7. QED
  BY <1>5, <1>6

(* The paths of a finite set have a greatest length.                            *)
LEMMA LengthsBounded ==
  ASSUME NEW S, IsFiniteSet(S), S \subseteq Seq(0..2)
  PROVE  \E b \in Nat : \A a \in S : Len(a) <= b
<1>1. PICK f : f \in Bijection(1..Cardinality(S), S)
  BY FS_CardinalityType DEF ExistsBijection
<1>2. /\ Cardinality(S) \in Nat
      /\ f \in [1..Cardinality(S) -> S]
      /\ \A a \in S : \E i \in 1..Cardinality(S) : f[i] = a
  BY <1>1, FS_CardinalityType DEF Bijection, Surjection, Injection
<1> DEFINE Bounded(k) == \E b \in Nat : \A i \in 1..Cardinality(S) : i <= k => Len(f[i]) <= b
           T == {k \in Nat : ~Bounded(k)}
<1>3. T = {}
  <2> SUFFICES ASSUME T # {} PROVE FALSE
    OBVIOUS
  <2>1. PICK k \in T : \A j \in T : k <= j
    <3>1. T \subseteq Nat
      OBVIOUS
    <3> HIDE DEF T
    <3>2. QED
      BY <3>1, SmallestNat
  <2>2. CASE k = 0
    <3>1. Bounded(0)
      <4>1. \A i \in 1..Cardinality(S) : ~ (i <= 0)
        BY <1>2
      <4>2. QED
        BY <4>1
    <3>2. QED
      BY <2>1, <2>2, <3>1
  <2>3. CASE k # 0
    <3>1. k \in Nat /\ ~Bounded(k)
      BY <2>1
    <3>2. k - 1 \in Nat /\ ~ (k <= k - 1) /\ k \in Nat
      BY <2>3, <3>1
    <3>3. PICK b \in Nat : \A i \in 1..Cardinality(S) : i <= k - 1 => Len(f[i]) <= b
      BY <2>1, <3>2
    <3>4. \A i \in 1..Cardinality(S) : Len(f[i]) \in Nat
      BY <1>2
    <3>5. CASE k \in 1..Cardinality(S)
      <4>1. PICK l \in Nat : l = Len(f[k])
        BY <3>4, <3>5
      <4>2. ASSUME NEW i \in 1..Cardinality(S), i <= k
            PROVE  Len(f[i]) <= b + l
        <5>1. i = k \/ i <= k - 1
          BY <1>2, <3>1, <4>2
        <5>2. PICK m \in Nat : m = Len(f[i])
          BY <3>4
        <5>3. m = l \/ m <= b
          BY <3>3, <4>1, <5>1, <5>2
        <5>4. m <= b + l
          BY <5>3
        <5>5. QED
          BY <5>2, <5>4
      <4>3. b + l \in Nat
        OBVIOUS
      <4>4. QED
        BY <3>1, <4>2, <4>3
    <3>6. CASE k \notin 1..Cardinality(S)
      <4>1. \A i \in 1..Cardinality(S) : i <= k => i <= k - 1
        BY <1>2, <3>2, <3>6, <2>3
      <4>2. QED
        BY <3>1, <3>3, <4>1
    <3>7. QED
      BY <3>5, <3>6
  <2>4. QED
    BY <2>2, <2>3
<1>4. Bounded(Cardinality(S))
  <2> HIDE DEF Bounded
  <2>1. QED
    BY <1>2, <1>3
<1>5. PICK b \in Nat : \A i \in 1..Cardinality(S) : i <= Cardinality(S) => Len(f[i]) <= b
  BY <1>4
<1>6. ASSUME NEW a \in S
      PROVE  Len(a) <= b
  BY <1>2, <1>5
<1>7. QED
  BY <1>6

-----------------------------------------------------------------------------
(* Paths under a new root.                                                    *)

(* A path after one more step.                                                 *)
LEMMA PushIs ==
  ASSUME NEW side \in {1, 2}, NEW p \in Path
  PROVE  /\ <<side>> \o p \in Path /\ <<side>> \o p # <<>>
         /\ Len(<<side>> \o p) = Len(p) + 1 /\ Len(p) \in Nat
         /\ (<<side>> \o p)[1] = side
         /\ \A i \in 1..Len(p) : (<<side>> \o p)[i + 1] = p[i]
         /\ Tail(<<side>> \o p) = p
<1> DEFINE q == <<side>> \o p
<1>1. /\ q \in Path /\ Len(q) = Len(p) + 1 /\ Len(p) \in Nat
      /\ q[1] = side /\ \A i \in 1..Len(p) : q[i + 1] = p[i]
  BY DEF Path
<1> HIDE DEF q
<1>2. q # <<>>
  BY <1>1, EmptySeq
<1>3. Tail(q) = p
  <2>1. Tail(q) \in Path /\ Len(Tail(q)) = Len(p) /\ \A i \in 1..Len(Tail(q)) : Tail(q)[i] = q[i + 1]
    BY <1>1, <1>2, HeadTailProperties DEF Path
  <2>2. QED
    BY <1>1, <2>1, SeqEqual DEF Path
<1>4. QED
  BY <1>1, <1>2, <1>3 DEF q

(* Every path but the root's is of this kind.                                   *)
LEMMA PathSplits ==
  ASSUME NEW q \in Path, q # <<>>
  PROVE  q[1] \in {1, 2} /\ Tail(q) \in Path /\ q = <<q[1]>> \o Tail(q)
<1>1. Len(q) \in Nat \ {0} /\ Tail(q) \in Path /\ Len(Tail(q)) = Len(q) - 1
      /\ \A i \in 1..Len(Tail(q)) : Tail(q)[i] = q[i + 1]
  BY EmptySeq, HeadTailProperties DEF Path
<1>2. q[1] \in {1, 2}
  BY <1>1, ElementOfSeq DEF Path
<1> DEFINE r == <<q[1]>> \o Tail(q)
<1>3. /\ r \in Path /\ Len(r) = Len(Tail(q)) + 1
      /\ r[1] = q[1] /\ \A i \in 1..Len(Tail(q)) : r[i + 1] = Tail(q)[i]
  BY <1>1, <1>2, PushIs
<1> HIDE DEF r
<1>4. ASSUME NEW i \in 1..Len(r)
      PROVE  r[i] = q[i]
  <2>1. CASE i = 1
    BY <1>3, <2>1
  <2>2. CASE i # 1
    <3>1. i - 1 \in 1..Len(Tail(q)) /\ (i - 1) + 1 = i
      BY <1>1, <1>3, <2>2
    <3>2. r[(i - 1) + 1] = Tail(q)[i - 1] /\ Tail(q)[i - 1] = q[(i - 1) + 1]
      BY <1>1, <1>3, <3>1
    <3>3. QED
      BY <3>1, <3>2
  <2>3. QED
    BY <2>1, <2>2
<1>5. r = q
  BY <1>1, <1>3, <1>4, SeqEqual DEF Path
<1>6. QED
  BY <1>1, <1>2, <1>5 DEF r

(* Beginnings, children and parents after one more step.                         *)
LEMMA PushPrefix ==
  ASSUME NEW s \in {1, 2}, NEW t \in {1, 2}, NEW p \in Path, NEW q \in Path
  PROVE  /\ IsPrefix(<<s>> \o p, <<t>> \o q) <=> s = t /\ IsPrefix(p, q)
         /\ <<s>> \o p = <<t>> \o q => s = t /\ p = q
<1> DEFINE a == <<s>> \o p
           b == <<t>> \o q
<1>1. /\ a \in Path /\ Len(a) = Len(p) + 1 /\ Len(p) \in Nat /\ a[1] = s
      /\ \A i \in 1..Len(p) : a[i + 1] = p[i]
  BY PushIs
<1>2. /\ b \in Path /\ Len(b) = Len(q) + 1 /\ Len(q) \in Nat /\ b[1] = t
      /\ \A i \in 1..Len(q) : b[i + 1] = q[i]
  BY PushIs
<1>3. Tail(a) = p /\ Tail(b) = q
  BY PushIs
<1> HIDE DEF a, b
<1>4. a = b => s = t /\ p = q
  BY <1>1, <1>2, <1>3
<1>5. ASSUME IsPrefix(a, b)
      PROVE  s = t /\ IsPrefix(p, q)
  <2>1. Len(a) <= Len(b) /\ \A i \in 1..Len(a) : a[i] = b[i]
    BY <1>1, <1>2, <1>5, PrefixIs
  <2>2. 1 \in 1..Len(a)
    BY <1>1
  <2>3. ASSUME NEW i \in 1..Len(p)
        PROVE  p[i] = q[i]
    <3>1. i + 1 \in 1..Len(a) /\ i \in 1..Len(q)
      BY <1>1, <1>2, <2>1
    <3>2. QED
      BY <1>1, <1>2, <2>1, <3>1
  <2>4. Len(p) <= Len(q)
    BY <1>1, <1>2, <2>1
  <2>5. QED
    BY <1>1, <1>2, <2>1, <2>2, <2>3, <2>4, PrefixIs
<1>6. ASSUME s = t, IsPrefix(p, q)
      PROVE  IsPrefix(a, b)
  <2>1. Len(p) <= Len(q) /\ \A i \in 1..Len(p) : p[i] = q[i]
    BY <1>6, PrefixIs
  <2>2. ASSUME NEW i \in 1..Len(a)
        PROVE  a[i] = b[i]
    <3>1. CASE i = 1
      BY <1>1, <1>2, <1>6, <3>1
    <3>2. CASE i # 1
      <4>1. i - 1 \in 1..Len(p) /\ i - 1 \in 1..Len(q) /\ (i - 1) + 1 = i
        BY <1>1, <1>2, <2>1, <3>2
      <4>2. a[(i - 1) + 1] = p[i - 1] /\ b[(i - 1) + 1] = q[i - 1]
        BY <1>1, <1>2, <4>1
      <4>3. QED
        BY <2>1, <4>1, <4>2
    <3>3. QED
      BY <3>1, <3>2
  <2>3. Len(a) <= Len(b)
    BY <1>1, <1>2, <2>1
  <2>4. QED
    BY <1>1, <1>2, <2>2, <2>3, PrefixIs
<1>7. QED
  BY <1>4, <1>5, <1>6 DEF a, b

LEMMA PushChild ==
  ASSUME NEW s \in {1, 2}, NEW t \in {1, 2}, NEW p \in Path
  PROVE  /\ Append(<<s>> \o p, t) = <<s>> \o Append(p, t)
         /\ Append(<<>>, t) = <<t>> \o <<>> /\ <<>> \in Path
         /\ Front(<<s>> \o <<>>) = <<>>
         /\ p # <<>> => Front(<<s>> \o p) = <<s>> \o Front(p)
<1>1. <<>> \in Path /\ Append(<<>>, t) = <<t>> \o <<>>
  BY DEF Path
<1>2. /\ Append(p, t) \in Path /\ Len(Append(p, t)) = Len(p) + 1
      /\ \A i \in 1..Len(p) : Append(p, t)[i] = p[i]
      /\ Append(p, t)[Len(p) + 1] = t
  BY ChildPath
<1> DEFINE q == <<s>> \o p
<1>3. /\ q \in Path /\ Len(q) = Len(p) + 1 /\ Len(p) \in Nat /\ q[1] = s
      /\ \A i \in 1..Len(p) : q[i + 1] = p[i]
  BY PushIs
<1>4. ASSUME NEW r \in Path, NEW u \in {1, 2}
      PROVE  Append(<<s>> \o r, u) = <<s>> \o Append(r, u)
  <2>1. <<s>> \in Path /\ <<u>> \in Path /\ <<s>> \o r \in Path
    BY PushIs DEF Path
  <2>2. Append(r, u) = r \o <<u>> /\ Append(<<s>> \o r, u) = (<<s>> \o r) \o <<u>>
    BY <2>1, AppendIsConcat DEF Path
  <2>3. QED
    BY <2>1, <2>2, ConcatAssociative DEF Path
<1>5. Front(<<s>> \o <<>>) = <<>>
  <2>1. Append(<<>>, s) = <<s>> \o <<>>
    BY DEF Path
  <2>2. Front(Append(<<>>, s)) = <<>>
    BY <1>1, ChildPath
  <2>3. QED
    BY <2>1, <2>2
<1>6. ASSUME p # <<>>
      PROVE  Front(q) = <<s>> \o Front(p)
  <2>1. Front(p) \in Path /\ p[Len(p)] \in {1, 2} /\ Append(Front(p), p[Len(p)]) = p
    BY <1>6, ParentPath
  <2> DEFINE f == Front(p)
             last == p[Len(p)]
  <2>2. Append(<<s>> \o f, last) = <<s>> \o Append(f, last)
    BY <1>4, <2>1
  <2>3. Append(<<s>> \o f, last) = q
    BY <2>1, <2>2
  <2>4. <<s>> \o f \in Path
    BY <2>1, PushIs
  <2>5. Front(Append(<<s>> \o f, last)) = <<s>> \o f
    BY <2>1, <2>4, ChildPath
  <2>6. QED
    BY <2>3, <2>5
<1>7. QED
  BY <1>1, <1>4, <1>5, <1>6

(* A tree joined from two: its nodes are the root and those of the two.             *)
LEMMA JoinedIs ==
  ASSUME NEW top, NEW l, NEW r, DOMAIN l \subseteq Path, DOMAIN r \subseteq Path
  PROVE  /\ DOMAIN Joined(top, l, r) \subseteq Path
         /\ <<>> \in DOMAIN Joined(top, l, r) /\ Joined(top, l, r)[<<>>] = top
         /\ \A p \in Path :
              /\ <<1>> \o p \in DOMAIN Joined(top, l, r) <=> p \in DOMAIN l
              /\ <<2>> \o p \in DOMAIN Joined(top, l, r) <=> p \in DOMAIN r
         /\ \A p \in DOMAIN l : Joined(top, l, r)[<<1>> \o p] = l[p]
         /\ \A p \in DOMAIN r : Joined(top, l, r)[<<2>> \o p] = r[p]
         /\ \A q \in DOMAIN Joined(top, l, r) :
              \/ q = <<>>
              \/ \E p \in DOMAIN l : q = <<1>> \o p
              \/ \E p \in DOMAIN r : q = <<2>> \o p
<1> DEFINE nodes == {<<>>} \cup Under(1, DOMAIN l) \cup Under(2, DOMAIN r)
           value(p) == IF p = <<>> THEN top ELSE IF p[1] = 1 THEN l[Tail(p)] ELSE r[Tail(p)]
           J == Joined(top, l, r)
<1>1. DOMAIN J = nodes /\ \A p \in nodes : J[p] = value(p)
  BY DEF Joined
<1>2. <<>> \in Path
  BY DEF Path
<1>3. \A p \in DOMAIN l : <<1>> \o p \in Path /\ <<1>> \o p \in nodes /\ value(<<1>> \o p) = l[p]
  BY PushIs DEF Under
<1>4. \A p \in DOMAIN r : <<2>> \o p \in Path /\ <<2>> \o p \in nodes /\ value(<<2>> \o p) = r[p]
  <2> SUFFICES ASSUME NEW p \in DOMAIN r
               PROVE  <<2>> \o p \in Path /\ <<2>> \o p \in nodes /\ value(<<2>> \o p) = r[p]
    OBVIOUS
  <2>1. /\ <<2>> \o p \in Path /\ <<2>> \o p # <<>> /\ (<<2>> \o p)[1] = 2
        /\ Tail(<<2>> \o p) = p
    BY PushIs
  <2>2. <<2>> \o p \in nodes
    BY DEF Under
  <2>3. (<<2>> \o p)[1] # 1
    BY <2>1
  <2>4. QED
    BY <2>1, <2>2, <2>3
<1>5. \A q \in nodes : \/ q = <<>>
                       \/ \E p \in DOMAIN l : q = <<1>> \o p
                       \/ \E p \in DOMAIN r : q = <<2>> \o p
  BY DEF Under
<1>6. ASSUME NEW p \in Path, << 1 >> \o p \in nodes
      PROVE  p \in DOMAIN l
  <2> DEFINE q == <<1>> \o p
  <2>1. q # <<>>
    BY PushIs
  <2>2. \A m \in DOMAIN r : q # <<2>> \o m
    BY PushPrefix
  <2>3. \A m \in DOMAIN l : q = <<1>> \o m => p = m
    BY PushPrefix
  <2>4. q \in nodes
    BY <1>6
  <2> HIDE DEF nodes, q
  <2>5. QED
    BY <1>5, <2>1, <2>2, <2>3, <2>4
<1>7. ASSUME NEW p \in Path, << 2 >> \o p \in nodes
      PROVE  p \in DOMAIN r
  <2> DEFINE q == <<2>> \o p
  <2>1. q # <<>>
    BY PushIs
  <2>2. \A m \in DOMAIN l : q # <<1>> \o m
    BY PushPrefix
  <2>3. \A m \in DOMAIN r : q = <<2>> \o m => p = m
    BY PushPrefix
  <2>4. q \in nodes
    BY <1>7
  <2> HIDE DEF nodes, q
  <2>5. QED
    BY <1>5, <2>1, <2>2, <2>3, <2>4
<1>8. <<>> \in nodes /\ value(<<>>) = top
  OBVIOUS
<1> HIDE DEF J, nodes, value
<1>9. nodes \subseteq Path
  BY <1>2, <1>3, <1>4, <1>5
<1>10. QED
  BY <1>1, <1>3, <1>4, <1>5, <1>6, <1>7, <1>8, <1>9 DEF J

(* No tree, or one with a root.                                                *)
Rooted(nodes) == nodes = {} \/ <<>> \in nodes

LEMMA JoinedClosed ==
  ASSUME NEW top, NEW l, NEW r,
         Closed(DOMAIN l), Rooted(DOMAIN l), IsFiniteSet(DOMAIN l),
         Closed(DOMAIN r), Rooted(DOMAIN r), IsFiniteSet(DOMAIN r)
  PROVE  /\ Closed(DOMAIN Joined(top, l, r)) /\ IsFiniteSet(DOMAIN Joined(top, l, r))
         /\ Append(<<>>, 1) \in DOMAIN Joined(top, l, r) <=> DOMAIN l # {}
         /\ Append(<<>>, 2) \in DOMAIN Joined(top, l, r) <=> DOMAIN r # {}
<1> DEFINE J == Joined(top, l, r)
<1>1. DOMAIN l \subseteq Path /\ DOMAIN r \subseteq Path /\ <<>> \in Path
  BY DEF Closed, Path
<1>2. /\ DOMAIN J \subseteq Path /\ <<>> \in DOMAIN J
      /\ \A p \in Path : /\ <<1>> \o p \in DOMAIN J <=> p \in DOMAIN l
                         /\ <<2>> \o p \in DOMAIN J <=> p \in DOMAIN r
      /\ \A q \in DOMAIN J : \/ q = <<>>
                             \/ \E p \in DOMAIN l : q = <<1>> \o p
                             \/ \E p \in DOMAIN r : q = <<2>> \o p
  <2>1. DOMAIN J \subseteq Path /\ <<>> \in DOMAIN J
    BY <1>1, JoinedIs
  <2>2. \A p \in Path : /\ <<1>> \o p \in DOMAIN J <=> p \in DOMAIN l
                        /\ <<2>> \o p \in DOMAIN J <=> p \in DOMAIN r
    BY <1>1, JoinedIs
  <2>3. ASSUME NEW q \in DOMAIN J
        PROVE  \/ q = <<>>
               \/ \E p \in DOMAIN l : q = <<1>> \o p
               \/ \E p \in DOMAIN r : q = <<2>> \o p
    <3>1. DOMAIN J = {<<>>} \cup Under(1, DOMAIN l) \cup Under(2, DOMAIN r)
      BY DEF Joined
    <3> HIDE DEF J
    <3>2. QED
      BY <3>1 DEF Under
  <2>4. QED
    BY <2>1, <2>2, <2>3
<1>3. IsFiniteSet(DOMAIN J)
  <2>1. \A T : \A side \in {1, 2} : IsFiniteSet(T) /\ T \subseteq Path => IsFiniteSet(Under(side, T))
    <3> SUFFICES ASSUME NEW T, NEW side \in {1, 2}, IsFiniteSet(T), T \subseteq Path
                 PROVE  IsFiniteSet(Under(side, T))
      OBVIOUS
    <3> DEFINE f == [p \in T |-> <<side>> \o p]
    <3>1. f \in Surjection(T, Under(side, T))
      BY DEF Surjection, Under
    <3>2. QED
      BY <3>1, FS_Surjection
  <2>2. DOMAIN J = {<<>>} \cup Under(1, DOMAIN l) \cup Under(2, DOMAIN r)
    BY DEF Joined
  <2>3. IsFiniteSet({<<>>})
    BY FS_Singleton
  <2>4. QED
    BY <1>1, <2>1, <2>2, <2>3, FS_Union
<1> HIDE DEF J
<1>4. ASSUME NEW side \in {1, 2}, NEW t, Closed(DOMAIN t), Rooted(DOMAIN t), NEW p \in DOMAIN t,
             \A q \in DOMAIN t : <<side>> \o q \in DOMAIN J
      PROVE  Front(<<side>> \o p) \in DOMAIN J
  <2>1. p \in Path
    BY <1>4 DEF Closed
  <2>2. CASE p = <<>>
    BY <1>2, <2>1, <2>2, PushChild
  <2>3. CASE p # <<>>
    BY <1>4, <2>1, <2>3, PushChild DEF Closed
  <2>4. QED
    BY <2>2, <2>3
<1>5. Closed(DOMAIN J)
  <2> SUFFICES ASSUME NEW q \in DOMAIN J, q # <<>>
               PROVE  Front(q) \in DOMAIN J
    BY <1>2 DEF Closed
  <2>1. ASSUME NEW p \in DOMAIN l, q = << 1 >> \o p
        PROVE  Front(q) \in DOMAIN J
    <3>1. \A m \in DOMAIN l : <<1>> \o m \in DOMAIN J
      BY <1>1, <1>2
    <3>2. QED
      BY <1>4, <2>1, <3>1
  <2>2. ASSUME NEW p \in DOMAIN r, q = << 2 >> \o p
        PROVE  Front(q) \in DOMAIN J
    <3>1. \A m \in DOMAIN r : <<2>> \o m \in DOMAIN J
      BY <1>1, <1>2
    <3>2. QED
      BY <1>4, <2>2, <3>1
  <2>3. QED
    BY <1>2, <2>1, <2>2
<1>6. /\ Append(<<>>, 1) = <<1>> \o <<>> /\ Append(<<>>, 2) = <<2>> \o <<>>
      /\ DOMAIN l # {} <=> <<>> \in DOMAIN l
      /\ DOMAIN r # {} <=> <<>> \in DOMAIN r
  BY <1>1, PushChild DEF Rooted
<1>7. QED
  BY <1>1, <1>2, <1>3, <1>5, <1>6 DEF J

-----------------------------------------------------------------------------
(* Subtrees.                                                                   *)

(* A path that goes on from another.                                            *)
LEMMA ConcatPath ==
  ASSUME NEW path \in Path, NEW p \in Path
  PROVE  /\ path \o p \in Path /\ IsPrefix(path, path \o p)
         /\ Len(path \o p) = Len(path) + Len(p) /\ Len(path) \in Nat /\ Len(p) \in Nat
         /\ \A i \in 1..Len(p) : (path \o p)[Len(path) + i] = p[i]
         /\ SubSeq(path \o p, Len(path) + 1, Len(path \o p)) = p
         /\ path \o <<>> = path
         /\ \A side \in {1, 2} : Append(path \o p, side) = path \o Append(p, side)
         /\ p # <<>> => path \o p # <<>> /\ Front(path \o p) = path \o Front(p)
         /\ \A q \in Path : /\ path \o p = path \o q => p = q
                            /\ IsPrefix(path \o p, path \o q) <=> IsPrefix(p, q)
<1> DEFINE c == path \o p
<1>1. /\ c \in Path /\ Len(c) = Len(path) + Len(p) /\ Len(path) \in Nat /\ Len(p) \in Nat
      /\ \A i \in 1..(Len(path) + Len(p)) :
           c[i] = IF i <= Len(path) THEN path[i] ELSE p[i - Len(path)]
  BY ConcatProperties DEF Path
<1>2. ASSUME NEW i \in 1..Len(p)
      PROVE  c[Len(path) + i] = p[i]
  <2> HIDE DEF c
  <2>1. /\ Len(path) + i \in 1..(Len(path) + Len(p)) /\ ~(Len(path) + i <= Len(path))
        /\ (Len(path) + i) - Len(path) = i
    BY <1>1
  <2>2. QED
    BY <1>1, <2>1
<1>3. IsPrefix(path, c)
  <2> HIDE DEF c
  <2>1. Len(path) <= Len(c) /\ \A i \in 1..Len(path) : i \in 1..(Len(path) + Len(p)) /\ i <= Len(path)
    BY <1>1
  <2>2. QED
    BY <1>1, <2>1, PrefixIs
<1>4. path \o <<>> = path
  BY ConcatEmptySeq DEF Path
<1>5. ASSUME NEW q \in Path, NEW side \in {1, 2}
      PROVE  Append(path \o q, side) = path \o Append(q, side)
  <2>1. path \o q \in Path /\ <<side>> \in Path
    BY DEF Path
  <2>2. Append(q, side) = q \o <<side>> /\ Append(path \o q, side) = (path \o q) \o <<side>>
    BY <2>1, AppendIsConcat DEF Path
  <2>3. QED
    BY SMTT(20), <2>1, <2>2, ConcatAssociative DEF Path
<1>6. ASSUME p # <<>>
      PROVE  c # <<>> /\ Front(c) = path \o Front(p)
  <2>1. Front(p) \in Path /\ p[Len(p)] \in {1, 2} /\ Append(Front(p), p[Len(p)]) = p
    BY <1>6, ParentPath
  <2> DEFINE f == Front(p)
             last == p[Len(p)]
  <2>2. Append(path \o f, last) = c
    BY <1>5, <2>1
  <2>3. path \o f \in Path
    BY <2>1 DEF Path
  <2>4. Front(Append(path \o f, last)) = path \o f /\ Append(path \o f, last) # <<>>
    BY <2>1, <2>3, ChildPath
  <2>5. QED
    BY <2>2, <2>4
<1>7. SubSeq(c, Len(path) + 1, Len(c)) = p
  <2> DEFINE s == SubSeq(c, Len(path) + 1, Len(c))
  <2>1. \A i \in (Len(path) + 1)..Len(c) : c[i] \in {1, 2}
    <3>1. \A i \in 1..Len(c) : c[i] \in {1, 2}
      BY <1>1, ElementOfSeq DEF Path
    <3> HIDE DEF c
    <3>2. QED
      BY <1>1, <3>1
  <2> HIDE DEF c
  <2>2. /\ s \in Path
        /\ Len(s) = IF Len(path) + 1 <= Len(c) THEN Len(c) - (Len(path) + 1) + 1 ELSE 0
        /\ \A i \in 1..(Len(c) - (Len(path) + 1) + 1) : s[i] = c[(Len(path) + 1) + i - 1]
    BY <1>1, <2>1, SubSeqProperties DEF Path
  <2> HIDE DEF s
  <2>3. Len(c) - (Len(path) + 1) + 1 = Len(p) /\ (Len(path) + 1 <= Len(c) <=> Len(p) # 0)
    BY <1>1
  <2>4. Len(s) = Len(p)
    BY <1>1, <2>2, <2>3
  <2>5. ASSUME NEW i \in 1..Len(p)
        PROVE  s[i] = p[i]
    <3>1. (Len(path) + 1) + i - 1 = Len(path) + i
      BY <1>1
    <3>2. QED
      BY <1>2, <2>2, <2>3, <3>1
  <2>6. s = p
    BY <2>2, <2>4, <2>5, SeqEqual DEF Path
  <2>7. QED
    BY <2>6 DEF s
<1>8. ASSUME NEW q \in Path
      PROVE  /\ c = path \o q => p = q
             /\ IsPrefix(c, path \o q) <=> IsPrefix(p, q)
  <2> DEFINE d == path \o q
  <2>1. /\ d \in Path /\ Len(d) = Len(path) + Len(q) /\ Len(q) \in Nat
        /\ \A i \in 1..(Len(path) + Len(q)) :
             d[i] = IF i <= Len(path) THEN path[i] ELSE q[i - Len(path)]
    BY ConcatProperties DEF Path
  <2>2. c = d => p = q
    BY ConcatSimplifications DEF Path
  <2> HIDE DEF c, d
  <2>3. ASSUME IsPrefix(c, d)
        PROVE  IsPrefix(p, q)
    <3>1. Len(c) <= Len(d) /\ \A i \in 1..Len(c) : c[i] = d[i]
      BY <1>1, <2>1, <2>3, PrefixIs
    <3>2. Len(p) <= Len(q)
      BY <1>1, <2>1, <3>1
    <3>3. ASSUME NEW i \in 1..Len(p)
          PROVE  p[i] = q[i]
      <4> DEFINE j == Len(path) + i
      <4>1. /\ j \in 1..Len(c) /\ j \in 1..(Len(path) + Len(q)) /\ ~(j <= Len(path))
            /\ j - Len(path) = i
        BY <1>1, <2>1, <3>2
      <4>2. c[j] = p[i]
        BY <1>2
      <4> HIDE DEF j
      <4>3. c[j] = d[j] /\ d[j] = q[i]
        BY <2>1, <3>1, <4>1
      <4>4. QED
        BY <4>2, <4>3
    <3>4. QED
      BY <3>2, <3>3, PrefixIs
  <2>4. ASSUME IsPrefix(p, q)
        PROVE  IsPrefix(c, d)
    <3>1. Len(p) <= Len(q) /\ \A i \in 1..Len(p) : p[i] = q[i]
      BY <2>4, PrefixIs
    <3>2. Len(c) <= Len(d)
      BY <1>1, <2>1, <3>1
    <3>3. ASSUME NEW i \in 1..Len(c)
          PROVE  c[i] = d[i]
      <4>1. i \in 1..(Len(path) + Len(p)) /\ i \in 1..(Len(path) + Len(q))
        BY <1>1, <2>1, <3>2
      <4>2. CASE i <= Len(path)
        BY <1>1, <2>1, <4>1, <4>2
      <4>3. CASE ~(i <= Len(path))
        <5>1. i - Len(path) \in 1..Len(p)
          BY <1>1, <4>1, <4>3
        <5>2. p[i - Len(path)] = q[i - Len(path)]
          BY <3>1, <5>1
        <5>3. QED
          BY <1>1, <2>1, <4>1, <4>3, <5>2
      <4>4. QED
        BY <4>2, <4>3
    <3>4. QED
      BY <1>1, <2>1, <3>2, <3>3, PrefixIs
  <2>5. QED
    BY <2>2, <2>3, <2>4 DEF c, d
<1>9. QED
  BY <1>1, <1>2, <1>3, <1>4, <1>5, <1>6, <1>7, <1>8 DEF c

(* Whatever begins with a path goes on from it.                                  *)
LEMMA PrefixGoesOn ==
  ASSUME NEW path \in Path, NEW q \in Path, IsPrefix(path, q)
  PROVE  /\ SubSeq(q, Len(path) + 1, Len(q)) \in Path
         /\ q = path \o SubSeq(q, Len(path) + 1, Len(q))
<1>1. /\ Len(path) \in Nat /\ Len(q) \in Nat /\ Len(path) <= Len(q)
      /\ \A i \in 1..Len(path) : path[i] = q[i]
  BY PrefixIs DEF Path
<1> DEFINE s == SubSeq(q, Len(path) + 1, Len(q))
<1>2. /\ s \in Path /\ Len(s) = Len(q) - Len(path)
      /\ \A i \in 1..(Len(q) - Len(path)) : s[i] = q[Len(path) + i]
  <2>1. \A i \in (Len(path) + 1)..Len(q) : q[i] \in {1, 2}
    <3>1. \A i \in 1..Len(q) : q[i] \in {1, 2}
      BY ElementOfSeq DEF Path
    <3>2. QED
      BY <1>1, <3>1
  <2>2. /\ s \in Path
        /\ Len(s) = IF Len(path) + 1 <= Len(q) THEN Len(q) - (Len(path) + 1) + 1 ELSE 0
        /\ \A i \in 1..(Len(q) - (Len(path) + 1) + 1) : s[i] = q[(Len(path) + 1) + i - 1]
    BY <1>1, <2>1, SubSeqProperties DEF Path
  <2> HIDE DEF s
  <2>3. /\ Len(q) - (Len(path) + 1) + 1 = Len(q) - Len(path)
        /\ ~(Len(path) + 1 <= Len(q)) => Len(q) - Len(path) = 0
    BY <1>1
  <2>4. ASSUME NEW i \in 1..(Len(q) - Len(path))
        PROVE  s[i] = q[Len(path) + i]
    <3>1. (Len(path) + 1) + i - 1 = Len(path) + i
      BY <1>1
    <3>2. QED
      BY <2>2, <2>3, <3>1
  <2>5. Len(s) = Len(q) - Len(path)
    BY <2>2, <2>3
  <2>6. QED
    BY <2>2, <2>4, <2>5
<1> HIDE DEF s
<1> DEFINE c == path \o s
<1>3. /\ c \in Path /\ Len(c) = Len(path) + Len(s)
      /\ \A i \in 1..(Len(path) + Len(s)) :
           c[i] = IF i <= Len(path) THEN path[i] ELSE s[i - Len(path)]
  BY <1>2, ConcatProperties DEF Path
<1> HIDE DEF c
<1>4. Len(c) = Len(q)
  BY <1>1, <1>2, <1>3
<1>5. ASSUME NEW i \in 1..Len(c)
      PROVE  c[i] = q[i]
  <2>1. CASE i <= Len(path)
    BY <1>1, <1>3, <2>1
  <2>2. CASE ~(i <= Len(path))
    <3>1. /\ i - Len(path) \in 1..(Len(q) - Len(path)) /\ Len(path) + (i - Len(path)) = i
          /\ i \in 1..(Len(path) + Len(s))
      BY <1>1, <1>3, <1>4, <2>2
    <3>2. s[i - Len(path)] = q[Len(path) + (i - Len(path))]
      BY <1>2, <3>1
    <3>3. QED
      BY <1>3, <2>2, <3>1, <3>2
  <2>3. QED
    BY <2>1, <2>2
<1>6. c = q
  BY <1>3, <1>4, <1>5, SeqEqual DEF Path
<1>7. QED
  BY <1>2, <1>6 DEF c, s

(* The tree below a node.                                                      *)
LEMMA SubtreeAtIs ==
  ASSUME NEW tree, DOMAIN tree \subseteq Path, NEW path \in Path
  PROVE  /\ DOMAIN SubtreeAt(tree, path) = {q \in Path : path \o q \in DOMAIN tree}
         /\ \A q \in DOMAIN SubtreeAt(tree, path) : SubtreeAt(tree, path)[q] = tree[path \o q]
<1> DEFINE below == {p \in DOMAIN tree : IsPrefix(path, p)}
           nodes == {SubSeq(p, Len(path) + 1, Len(p)) : p \in below}
<1>1. SubtreeAt(tree, path) = [q \in nodes |-> tree[path \o q]]
  BY DEF SubtreeAt
<1>2. ASSUME NEW q \in nodes
      PROVE  q \in Path /\ path \o q \in DOMAIN tree
  BY PrefixGoesOn
<1>3. ASSUME NEW q \in Path, path \o q \in DOMAIN tree
      PROVE  q \in nodes
  <2>1. path \o q \in below /\ q = SubSeq(path \o q, Len(path) + 1, Len(path \o q))
    BY <1>3, ConcatPath
  <2>2. QED
    BY <2>1
<1> HIDE DEF nodes
<1>4. QED
  BY <1>1, <1>2, <1>3

LEMMA SubtreeClosed ==
  ASSUME NEW tree, Closed(DOMAIN tree), IsFiniteSet(DOMAIN tree), NEW path \in DOMAIN tree
  PROVE  /\ Closed(DOMAIN SubtreeAt(tree, path)) /\ IsFiniteSet(DOMAIN SubtreeAt(tree, path))
         /\ <<>> \in DOMAIN SubtreeAt(tree, path)
<1>1. DOMAIN tree \subseteq Path /\ path \in Path /\ <<>> \in Path
  BY DEF Closed, Path
<1> DEFINE nodes == DOMAIN SubtreeAt(tree, path)
<1>2. nodes = {q \in Path : path \o q \in DOMAIN tree}
  BY <1>1, SubtreeAtIs
<1>3. IsFiniteSet(nodes)
  <2> DEFINE f == [q \in nodes |-> path \o q]
  <2> HIDE DEF nodes
  <2>1. ASSUME NEW p \in nodes, NEW q \in nodes, path \o p = path \o q
        PROVE  p = q
    <3>1. path \in Path /\ p \in Path /\ q \in Path
      BY <1>1, <1>2
    <3> HIDE DEF f
    <3>2. QED
      BY <2>1, <3>1, ConcatSimplifications DEF Path
  <2>2. f \in [nodes -> DOMAIN tree] /\ \A q \in nodes : f[q] = path \o q
    BY <1>2
  <2> HIDE DEF f
  <2>3. f \in Injection(nodes, DOMAIN tree)
    BY <2>1, <2>2 DEF Injection, IsInjective
  <2>4. QED
    BY <2>3, FS_Injection
<1> HIDE DEF nodes
<1>4. <<>> \in nodes
  BY <1>1, <1>2, ConcatPath
<1>5. ASSUME NEW q \in nodes, q # <<>>
      PROVE  Front(q) \in nodes
  <2>1. q \in Path /\ path \o q \in DOMAIN tree /\ Front(q) \in Path
    BY <1>2, <1>5, ParentPath
  <2>2. path \o q # <<>> /\ Front(path \o q) = path \o Front(q)
    BY <1>1, <1>5, <2>1, ConcatPath
  <2>3. QED
    BY <1>2, <2>1, <2>2 DEF Closed
<1>6. QED
  BY <1>2, <1>3, <1>4, <1>5 DEF nodes, Closed

-----------------------------------------------------------------------------
(* Trees as functions, and grafts.                                             *)

(* The trees whose nodes carry labels.                                         *)
Terms(labels) == UNION {[nodes -> labels] : nodes \in SUBSET Path}

LEMMA TermsAre ==
  ASSUME NEW labels
  PROVE  /\ \A t \in Terms(labels) : DOMAIN t \subseteq Path /\ t \in [DOMAIN t -> labels]
         /\ \A nodes \in SUBSET Path : \A t \in [nodes -> labels] : t \in Terms(labels)
         /\ <<>> \in Terms(labels)
<1>1. <<>> \in [{} -> labels]
  OBVIOUS
<1>2. QED
  BY <1>1 DEF Terms

(* The tree on one side of two.                                                *)
Branch(l, r, side) == IF side = 1 THEN l ELSE r

LEMMA JoinedBranches ==
  ASSUME NEW top, NEW l, NEW r, DOMAIN l \subseteq Path, DOMAIN r \subseteq Path, NEW side \in {1, 2},
         NEW p \in Path
  PROVE  /\ <<side>> \o p \in DOMAIN Joined(top, l, r) <=> p \in DOMAIN Branch(l, r, side)
         /\ p \in DOMAIN Branch(l, r, side) =>
              Joined(top, l, r)[<<side>> \o p] = Branch(l, r, side)[p]
<1>1. CASE side = 1
  BY <1>1, JoinedIs DEF Branch
<1>2. CASE side = 2
  BY <1>2, JoinedIs DEF Branch
<1>3. QED
  BY <1>1, <1>2

LEMMA JoinedTerm ==
  ASSUME NEW labels, NEW top \in labels, NEW l \in Terms(labels), NEW r \in Terms(labels)
  PROVE  Joined(top, l, r) \in Terms(labels)
<1> DEFINE J == Joined(top, l, r)
<1>1. /\ DOMAIN l \subseteq Path /\ l \in [DOMAIN l -> labels]
      /\ DOMAIN r \subseteq Path /\ r \in [DOMAIN r -> labels]
  BY TermsAre
<1>2. J = [p \in DOMAIN J |-> J[p]]
  BY DEF Joined
<1>3. /\ DOMAIN J \subseteq Path /\ J[<<>>] = top
      /\ \A p \in DOMAIN l : J[<<1>> \o p] = l[p]
      /\ \A p \in DOMAIN r : J[<<2>> \o p] = r[p]
      /\ \A q \in DOMAIN J : \/ q = <<>>
                             \/ \E p \in DOMAIN l : q = <<1>> \o p
                             \/ \E p \in DOMAIN r : q = <<2>> \o p
  <2>1. DOMAIN J \subseteq Path /\ J[<<>>] = top
    BY <1>1, JoinedIs
  <2>2. /\ \A p \in DOMAIN l : J[<<1>> \o p] = l[p]
        /\ \A p \in DOMAIN r : J[<<2>> \o p] = r[p]
    BY <1>1, JoinedIs
  <2>3. DOMAIN J = {<<>>} \cup Under(1, DOMAIN l) \cup Under(2, DOMAIN r)
    BY DEF Joined
  <2> HIDE DEF J
  <2>4. QED
    BY <2>1, <2>2, <2>3 DEF Under
<1> HIDE DEF J
<1>4. \A q \in DOMAIN J : J[q] \in labels
  BY <1>1, <1>3
<1>5. J \in [DOMAIN J -> labels]
  BY <1>2, <1>4
<1>6. QED
  BY <1>3, <1>5, TermsAre DEF J

(* What is below a path comes from u.                                           *)
LEMMA GraftedBelow ==
  ASSUME NEW tree, NEW u, DOMAIN u \subseteq Path, NEW path \in Path, NEW q \in Path
  PROVE  /\ path \o q \in DOMAIN Grafted(tree, path, u) <=> q \in DOMAIN u
         /\ q \in DOMAIN u => Grafted(tree, path, u)[path \o q] = u[q]
<1> DEFINE nodes == {p \in DOMAIN tree : ~IsPrefix(path, p)} \cup {path \o s : s \in DOMAIN u}
           value(p) == IF IsPrefix(path, p) THEN u[SubSeq(p, Len(path) + 1, Len(p))] ELSE tree[p]
           at == path \o q
<1>1. DOMAIN Grafted(tree, path, u) = nodes /\ \A p \in nodes : Grafted(tree, path, u)[p] = value(p)
  BY DEF Grafted
<1>2. IsPrefix(path, at) /\ SubSeq(at, Len(path) + 1, Len(at)) = q
  BY ConcatPath
<1>3. \A s \in DOMAIN u : at = path \o s => q = s
  BY ConcatSimplifications DEF Path
<1>4. at \in nodes <=> q \in DOMAIN u
  BY <1>2, <1>3
<1>5. value(at) = u[q]
  BY <1>2
<1> HIDE DEF nodes, value, at
<1>6. QED
  BY <1>1, <1>4, <1>5 DEF at

(* The rest comes from the tree.                                                *)
LEMMA GraftedElsewhere ==
  ASSUME NEW tree, NEW u, DOMAIN u \subseteq Path, NEW path \in Path, NEW p \in Path, ~IsPrefix(path, p)
  PROVE  /\ p \in DOMAIN Grafted(tree, path, u) <=> p \in DOMAIN tree
         /\ p \in DOMAIN tree => Grafted(tree, path, u)[p] = tree[p]
<1>1. \A q \in DOMAIN u : IsPrefix(path, path \o q)
  BY ConcatPath
<1>2. p \notin {path \o q : q \in DOMAIN u}
  BY <1>1
<1>3. QED
  BY <1>2 DEF Grafted

(* A graft is a tree, too.                                                     *)
LEMMA GraftedFunction ==
  ASSUME NEW tree, DOMAIN tree \subseteq Path, NEW u, DOMAIN u \subseteq Path, NEW path \in Path
  PROVE  /\ DOMAIN Grafted(tree, path, u) \subseteq Path
         /\ Grafted(tree, path, u) = [p \in DOMAIN Grafted(tree, path, u) |-> Grafted(tree, path, u)[p]]
<1>1. \A q \in DOMAIN u : path \o q \in Path
  BY ConcatPath
<1>2. DOMAIN Grafted(tree, path, u) \subseteq Path
  BY <1>1 DEF Grafted
<1>3. QED
  BY <1>2 DEF Grafted

(* Two trees with the same nodes that carry the same are the same.                *)
LEMMA SameTree ==
  ASSUME NEW s, NEW t, s = [p \in DOMAIN s |-> s[p]], t = [p \in DOMAIN t |-> t[p]],
         DOMAIN s \subseteq Path, DOMAIN t \subseteq Path,
         \A p \in Path : /\ p \in DOMAIN s <=> p \in DOMAIN t
                         /\ p \in DOMAIN s => s[p] = t[p]
  PROVE  s = t
<1>1. DOMAIN s = DOMAIN t
  OBVIOUS
<1>2. \A p \in DOMAIN s : s[p] = t[p]
  OBVIOUS
<1>3. QED
  BY <1>1, <1>2

(* A graft at the root replaces the whole tree.                                  *)
LEMMA GraftRoot ==
  ASSUME NEW labels, NEW tree \in Terms(labels), NEW u \in Terms(labels)
  PROVE  Grafted(tree, <<>>, u) = u
<1> DEFINE top == <<>>
           G == Grafted(tree, top, u)
<1>1. DOMAIN tree \subseteq Path /\ DOMAIN u \subseteq Path /\ u = [p \in DOMAIN u |-> u[p]]
  BY TermsAre
<1>2. top \in Path /\ \A q \in Path : top \o q = q
  BY ConcatEmptySeq DEF Path
<1> HIDE DEF top
<1>3. DOMAIN G \subseteq Path /\ G = [p \in DOMAIN G |-> G[p]]
  BY <1>1, <1>2, GraftedFunction
<1>4. ASSUME NEW p \in Path
      PROVE  /\ p \in DOMAIN G <=> p \in DOMAIN u
             /\ p \in DOMAIN G => G[p] = u[p]
  <2>1. /\ top \o p \in DOMAIN G <=> p \in DOMAIN u
        /\ p \in DOMAIN u => G[top \o p] = u[p]
    <3>1. top \in Path /\ DOMAIN u \subseteq Path
      BY <1>1, <1>2
    <3>2. QED
      BY <3>1, GraftedBelow
  <2> HIDE DEF G
  <2>2. QED
    BY <1>2, <2>1
<1> HIDE DEF G
<1>5. G = u
  BY <1>1, <1>3, <1>4, SameTree
<1>6. QED
  BY <1>5 DEF G, top

Pushed(side, path) == <<side>> \o path

(* A graft below one side of a tree leaves the root and the other side.             *)
LEMMA GraftBranch ==
  ASSUME NEW labels, NEW top, NEW l, NEW r, NEW u, NEW side \in {1, 2}, NEW path \in Path,
         l \in Terms(labels), r \in Terms(labels), u \in Terms(labels)
  PROVE  /\ side = 1 => Grafted(Joined(top, l, r), Pushed(side, path), u) = Joined(top, Grafted(l, path, u), r)
         /\ side = 2 => Grafted(Joined(top, l, r), Pushed(side, path), u) = Joined(top, l, Grafted(r, path, u))
<1> DEFINE J == Joined(top, l, r)
           b == Branch(l, r, side)
           g == Grafted(b, path, u)
           lg == IF side = 1 THEN g ELSE l
           rg == IF side = 2 THEN g ELSE r
           K == Joined(top, lg, rg)
           push(s, q) == <<s>> \o q
           at == push(side, path)
           G == Grafted(J, at, u)
<1>1. /\ DOMAIN l \subseteq Path /\ DOMAIN r \subseteq Path /\ DOMAIN u \subseteq Path
      /\ DOMAIN b \subseteq Path /\ at \in Path /\ at # <<>>
  BY TermsAre, PushIs DEF Branch
<1>0. /\ \A s \in {1, 2}, q \in Path :
           /\ IsPrefix(at, push(s, q)) <=> side = s /\ IsPrefix(path, q)
      /\ \A rest \in Path : push(side, path \o rest) = at \o rest
      /\ \A p \in Path : p # <<>> => \E s \in {1, 2}, q \in Path : p = push(s, q)
  <2>1. ASSUME NEW s \in {1, 2}, NEW q \in Path
        PROVE  IsPrefix(at, push(s, q)) <=> side = s /\ IsPrefix(path, q)
    BY PushPrefix
  <2>2. ASSUME NEW rest \in Path
        PROVE  push(side, path \o rest) = at \o rest
    <3>1. <<side>> \in Seq({1, 2})
      OBVIOUS
    <3>2. QED
      BY <3>1, ConcatAssociative DEF Path
  <2>3. ASSUME NEW p \in Path, p # <<>>
        PROVE  \E s \in {1, 2}, q \in Path : p = push(s, q)
    BY <2>3, PathSplits
  <2> HIDE DEF push, at
  <2>4. QED
    BY <2>1, <2>2, <2>3
<1>2. /\ DOMAIN g \subseteq Path
      /\ \A q \in Path : /\ path \o q \in DOMAIN g <=> q \in DOMAIN u
                         /\ q \in DOMAIN u => g[path \o q] = u[q]
      /\ \A p \in Path : ~IsPrefix(path, p) =>
           /\ p \in DOMAIN g <=> p \in DOMAIN b
           /\ p \in DOMAIN b => g[p] = b[p]
  <2>0. DOMAIN b \subseteq Path /\ DOMAIN u \subseteq Path
    BY <1>1
  <2> HIDE DEF b, J, K, G, at, push
  <2>1. DOMAIN g \subseteq Path
    BY <2>0, GraftedFunction
  <2>2. ASSUME NEW q \in Path
        PROVE  /\ path \o q \in DOMAIN g <=> q \in DOMAIN u
               /\ q \in DOMAIN u => g[path \o q] = u[q]
    BY <2>0, GraftedBelow
  <2>3. ASSUME NEW p \in Path, ~IsPrefix(path, p)
        PROVE  /\ p \in DOMAIN g <=> p \in DOMAIN b
               /\ p \in DOMAIN b => g[p] = b[p]
    BY <2>0, <2>3, GraftedElsewhere
  <2> HIDE DEF g
  <2>4. QED
    BY <2>1, <2>2, <2>3
<1>3. /\ DOMAIN J \subseteq Path /\ <<>> \in DOMAIN J /\ J[<<>>] = top
      /\ \A s \in {1, 2}, p \in Path :
           /\ push(s, p) \in DOMAIN J <=> p \in DOMAIN Branch(l, r, s)
           /\ p \in DOMAIN Branch(l, r, s) => J[push(s, p)] = Branch(l, r, s)[p]
  <2>1. ASSUME NEW s \in {1, 2}, NEW p \in Path
        PROVE  /\ push(s, p) \in DOMAIN J <=> p \in DOMAIN Branch(l, r, s)
               /\ p \in DOMAIN Branch(l, r, s) => J[push(s, p)] = Branch(l, r, s)[p]
    BY <1>1, JoinedBranches
  <2>2. DOMAIN J \subseteq Path /\ <<>> \in DOMAIN J /\ J[<<>>] = top
    BY <1>1, JoinedIs
  <2> HIDE DEF push, J
  <2>3. QED
    BY <2>1, <2>2
<1>4. DOMAIN lg \subseteq Path /\ DOMAIN rg \subseteq Path
  BY <1>1, <1>2
<1> HIDE DEF J, b, g, at, push
<1>5. /\ DOMAIN G \subseteq Path
      /\ \A q \in Path : /\ at \o q \in DOMAIN G <=> q \in DOMAIN u
                         /\ q \in DOMAIN u => G[at \o q] = u[q]
      /\ \A p \in Path : ~IsPrefix(at, p) =>
           /\ p \in DOMAIN G <=> p \in DOMAIN J
           /\ p \in DOMAIN J => G[p] = J[p]
  <2>1. DOMAIN G \subseteq Path
    BY <1>1, <1>3, GraftedFunction
  <2>2. ASSUME NEW q \in Path
        PROVE  /\ at \o q \in DOMAIN G <=> q \in DOMAIN u
               /\ q \in DOMAIN u => G[at \o q] = u[q]
    BY <1>1, GraftedBelow
  <2>3. ASSUME NEW p \in Path, ~IsPrefix(at, p)
        PROVE  /\ p \in DOMAIN G <=> p \in DOMAIN J
               /\ p \in DOMAIN J => G[p] = J[p]
    BY <1>1, <2>3, GraftedElsewhere
  <2> HIDE DEF G
  <2>4. QED
    BY <2>1, <2>2, <2>3
<1>6. /\ DOMAIN K \subseteq Path /\ <<>> \in DOMAIN K /\ K[<<>>] = top
      /\ \A s \in {1, 2}, p \in Path :
           /\ push(s, p) \in DOMAIN K <=> p \in DOMAIN Branch(lg, rg, s)
           /\ p \in DOMAIN Branch(lg, rg, s) => K[push(s, p)] = Branch(lg, rg, s)[p]
  <2> HIDE DEF lg, rg
  <2>1. ASSUME NEW s \in {1, 2}, NEW p \in Path
        PROVE  /\ push(s, p) \in DOMAIN K <=> p \in DOMAIN Branch(lg, rg, s)
               /\ p \in DOMAIN Branch(lg, rg, s) => K[push(s, p)] = Branch(lg, rg, s)[p]
    BY <1>4, JoinedBranches DEF push
  <2>2. DOMAIN K \subseteq Path /\ <<>> \in DOMAIN K /\ K[<<>>] = top
    BY <1>4, JoinedIs
  <2> HIDE DEF K
  <2>3. QED
    BY <2>1, <2>2
<1>7. K = [p \in DOMAIN K |-> K[p]] /\ G = [p \in DOMAIN G |-> G[p]]
  BY ZenonT(40), <1>1, <1>3, GraftedFunction DEF Joined
<1>8. /\ Branch(lg, rg, side) = g
      /\ \A s \in {1, 2} : s # side => Branch(lg, rg, s) = Branch(l, r, s)
  BY DEF Branch
<1> HIDE DEF G, K, lg, rg
<1>9. ASSUME NEW p \in Path
      PROVE  /\ p \in DOMAIN G <=> p \in DOMAIN K
             /\ p \in DOMAIN G => G[p] = K[p]
  <2>1. CASE p = <<>>
    <3>1. ~IsPrefix(at, p)
      BY <1>1, <2>1, PrefixOrder
    <3>2. QED
      BY <1>3, <1>5, <1>6, <2>1, <3>1
  <2>2. ASSUME NEW s \in {1, 2}, s # side, NEW q \in Path, p = push(s, q)
        PROVE  /\ p \in DOMAIN G <=> p \in DOMAIN K
               /\ p \in DOMAIN G => G[p] = K[p]
    <3>1. IsPrefix(at, p) <=> side = s /\ IsPrefix(path, q)
      BY <1>0, <2>2
    <3>2. /\ p \in DOMAIN J <=> q \in DOMAIN Branch(l, r, s)
          /\ q \in DOMAIN Branch(l, r, s) => J[p] = Branch(l, r, s)[q]
      BY <1>3, <2>2
    <3>3. /\ p \in DOMAIN K <=> q \in DOMAIN Branch(l, r, s)
          /\ q \in DOMAIN Branch(l, r, s) => K[p] = Branch(l, r, s)[q]
      BY <1>6, <1>8, <2>2
    <3>4. QED
      BY <1>5, <2>2, <3>1, <3>2, <3>3
  <2>3. ASSUME NEW q \in Path, p = push(side, q)
        PROVE  /\ p \in DOMAIN G <=> p \in DOMAIN K
               /\ p \in DOMAIN G => G[p] = K[p]
    <3>1. IsPrefix(at, p) <=> IsPrefix(path, q)
      BY <1>0, <2>3
    <3>2. /\ p \in DOMAIN J <=> q \in DOMAIN b
          /\ q \in DOMAIN b => J[p] = b[q]
      BY <1>3, <2>3 DEF b
    <3>6. /\ p \in DOMAIN K <=> q \in DOMAIN g
          /\ q \in DOMAIN g => K[p] = g[q]
      BY <1>6, <1>8, <2>3
    <3>3. CASE ~IsPrefix(path, q)
      BY <1>2, <1>5, <3>1, <3>2, <3>3, <3>6
    <3>4. CASE IsPrefix(path, q)
      <4>1. PICK rest \in Path : q = path \o rest
        BY <3>4, PrefixGoesOn
      <4>2. p = at \o rest
        BY <1>0, <2>3, <4>1
      <4>3. QED
        BY <1>2, <1>5, <3>6, <4>1, <4>2
    <3>5. QED
      BY <3>3, <3>4
  <2>4. QED
    BY <1>0, <2>1, <2>2, <2>3
<1>10. G = K
  BY <1>5, <1>6, <1>7, <1>9, SameTree
<1>11. /\ side = 1 => lg = Grafted(l, path, u) /\ rg = r
       /\ side = 2 => rg = Grafted(r, path, u) /\ lg = l
  BY DEF lg, rg, g, b, Branch
<1>12. /\ side = 1 => K = Joined(top, Grafted(l, path, u), r)
       /\ side = 2 => K = Joined(top, l, Grafted(r, path, u))
  BY <1>11 DEF K
<1>13. QED
  BY <1>10, <1>12 DEF G, J, at, push, Pushed

LEMMA GraftLeft ==
  ASSUME NEW labels, NEW top, NEW l, NEW r, NEW u, NEW path,
         l \in Terms(labels), r \in Terms(labels), u \in Terms(labels), path \in Path
  PROVE  Grafted(Joined(top, l, r), Pushed(1, path), u) = Joined(top, Grafted(l, path, u), r)
<1>1. ASSUME NEW side \in {1, 2}
      PROVE  side = 1 => Grafted(Joined(top, l, r), Pushed(side, path), u) = Joined(top, Grafted(l, path, u), r)
  BY GraftBranch
<1>2. QED
  BY <1>1

LEMMA GraftRight ==
  ASSUME NEW labels, NEW top, NEW l, NEW r, NEW u, NEW path,
         l \in Terms(labels), r \in Terms(labels), u \in Terms(labels), path \in Path
  PROVE  Grafted(Joined(top, l, r), Pushed(2, path), u) = Joined(top, l, Grafted(r, path, u))
<1>1. ASSUME NEW side \in {1, 2}
      PROVE  side = 2 => Grafted(Joined(top, l, r), Pushed(side, path), u) = Joined(top, l, Grafted(r, path, u))
  BY GraftBranch
<1>2. QED
  BY <1>1

(* The tree s is what is below a path.                                           *)
HasBelow(tree, path, s) ==
  \A q \in Path : /\ path \o q \in DOMAIN tree <=> q \in DOMAIN s
                  /\ q \in DOMAIN s => tree[path \o q] = s[q]

LEMMA BelowRoot ==
  ASSUME NEW tree
  PROVE  HasBelow(tree, <<>>, tree)
<1> DEFINE top == <<>>
<1>1. \A q \in Path : top \o q = q
  BY ConcatEmptySeq DEF Path
<1> HIDE DEF top
<1>2. HasBelow(tree, top, tree)
  BY <1>1 DEF HasBelow
<1>3. QED
  BY <1>2 DEF top

(* What is below a path of one side is below the longer path of the whole.           *)
LEMMA BelowBranch ==
  ASSUME NEW labels, NEW top, NEW l \in Terms(labels), NEW r \in Terms(labels), NEW s,
         NEW side \in {1, 2}, NEW path \in Path, HasBelow(Branch(l, r, side), path, s)
  PROVE  HasBelow(Joined(top, l, r), <<side>> \o path, s)
<1> DEFINE J == Joined(top, l, r)
           b == Branch(l, r, side)
           at == <<side>> \o path
<1>1. DOMAIN l \subseteq Path /\ DOMAIN r \subseteq Path
  BY TermsAre
<1>2. ASSUME NEW q \in Path
      PROVE  /\ at \o q \in DOMAIN J <=> q \in DOMAIN s
             /\ q \in DOMAIN s => J[at \o q] = s[q]
  <2> DEFINE rest == path \o q
  <2>1. rest \in Path
    BY ConcatPath
  <2>2. at \o q = <<side>> \o rest
    <3>1. <<side>> \in Seq({1, 2})
      OBVIOUS
    <3>2. QED
      BY <3>1, ConcatAssociative DEF Path
  <2>3. /\ rest \in DOMAIN b <=> q \in DOMAIN s
        /\ q \in DOMAIN s => b[rest] = s[q]
    BY DEF HasBelow
  <2>4. /\ <<side>> \o rest \in DOMAIN J <=> rest \in DOMAIN b
        /\ rest \in DOMAIN b => J[<<side>> \o rest] = b[rest]
    <3> HIDE DEF rest
    <3>1. QED
      BY <1>1, <2>1, JoinedBranches
  <2> HIDE DEF J, b, at, rest
  <2>5. QED
    BY <2>2, <2>3, <2>4
<1> HIDE DEF J, at
<1>3. HasBelow(J, at, s)
  BY <1>2 DEF HasBelow
<1>4. QED
  BY <1>3 DEF J, at

(* The root and the two sides of what is below a path.                            *)
LEMMA BelowJoined ==
  ASSUME NEW labels, NEW tree, NEW path \in Path, NEW top, NEW l \in Terms(labels), NEW r \in Terms(labels),
         HasBelow(tree, path, Joined(top, l, r))
  PROVE  /\ path \in DOMAIN tree /\ tree[path] = top
         /\ HasBelow(tree, Append(path, 1), l) /\ HasBelow(tree, Append(path, 2), r)
<1> DEFINE J == Joined(top, l, r)
<1>1. DOMAIN l \subseteq Path /\ DOMAIN r \subseteq Path
  BY TermsAre
<1>2. path \in DOMAIN tree /\ tree[path] = top
  <2> DEFINE empty == <<>>
  <2>1. empty \in Path /\ path \o empty = path /\ empty \in DOMAIN J /\ J[empty] = top
    <3>1. <<>> \in Path
      BY DEF Path
    <3>2. QED
      BY <1>1, <3>1, ConcatPath, JoinedIs
  <2> HIDE DEF J, empty
  <2>2. /\ path \o empty \in DOMAIN tree <=> empty \in DOMAIN J
        /\ empty \in DOMAIN J => tree[path \o empty] = J[empty]
    BY <2>1 DEF HasBelow, J
  <2>3. QED
    BY <2>1, <2>2
<1>3. ASSUME NEW side \in {1, 2}
      PROVE  HasBelow(tree, Append(path, side), Branch(l, r, side))
  <2> DEFINE at == Append(path, side)
             b == Branch(l, r, side)
  <2>1. ASSUME NEW q \in Path
        PROVE  /\ at \o q \in DOMAIN tree <=> q \in DOMAIN b
               /\ q \in DOMAIN b => tree[at \o q] = b[q]
    <3> DEFINE rest == <<side>> \o q
    <3>1. rest \in Path
      BY PushIs
    <3>2. at \o q = path \o rest
      <4>1. <<side>> \in Seq({1, 2}) /\ at = path \o <<side>>
        BY AppendIsConcat DEF Path
      <4> HIDE DEF at
      <4>2. QED
        BY <4>1, ConcatAssociative DEF Path
    <3>3. /\ rest \in DOMAIN J <=> q \in DOMAIN b
          /\ q \in DOMAIN b => J[rest] = b[q]
      BY <1>1, JoinedBranches
    <3> HIDE DEF rest, b, at, J
    <3>4. /\ path \o rest \in DOMAIN tree <=> rest \in DOMAIN J
          /\ rest \in DOMAIN J => tree[path \o rest] = J[rest]
      BY <3>1 DEF HasBelow, J
    <3>5. QED
      BY <3>2, <3>3, <3>4
  <2> HIDE DEF at, b
  <2>2. HasBelow(tree, at, b)
    BY <2>1 DEF HasBelow
  <2>3. QED
    BY <2>2 DEF at, b
<1>4. Branch(l, r, 1) = l /\ Branch(l, r, 2) = r
  BY DEF Branch
<1>5. QED
  BY <1>2, <1>3, <1>4

LEMMA BelowIsSubtree ==
  ASSUME NEW labels, NEW tree \in Terms(labels), NEW path \in Path, NEW s \in Terms(labels),
         HasBelow(tree, path, s)
  PROVE  SubtreeAt(tree, path) = s
<1> DEFINE t == SubtreeAt(tree, path)
<1>1. DOMAIN tree \subseteq Path /\ DOMAIN s \subseteq Path /\ s = [p \in DOMAIN s |-> s[p]]
  BY TermsAre
<1>2. DOMAIN tree \subseteq Path
  BY <1>1
<1>3. /\ DOMAIN t = {q \in Path : path \o q \in DOMAIN tree}
      /\ \A q \in DOMAIN t : t[q] = tree[path \o q]
  BY <1>2, SubtreeAtIs
<1>4. t = [p \in DOMAIN t |-> t[p]]
  BY DEF SubtreeAt
<1> HIDE DEF t
<1>5. \A p \in Path : /\ p \in DOMAIN t <=> p \in DOMAIN s
                      /\ p \in DOMAIN t => t[p] = s[p]
  BY <1>3 DEF HasBelow
<1>6. t = s
  BY <1>1, <1>3, <1>4, <1>5, SameTree
<1>7. QED
  BY <1>6 DEF t

=============================================================================
