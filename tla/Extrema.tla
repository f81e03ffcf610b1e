------------------------------- MODULE Extrema -------------------------------
(***************************************************************************)
(* Sets of natural numbers have a smallest element, and a largest one if they  *)
(* are bounded.  This is also how the other proofs argue by induction: the      *)
(* smallest counterexample.                                                   *)
(***************************************************************************)
EXTENDS FiniteSetsExt, WellFoundedInduction, TLAPS

(* The order of the natural numbers is well-founded.                           *)
LEMMA SmallestNat ==
  ASSUME NEW T, T \subseteq Nat, T # {}
  PROVE  \E x \in T : \A y \in T : x <= y
<1>1. PICK x \in T : \A y \in T : ~ (<<y, x>> \in OpToRel(<, Nat))
  BY NatLessThanWellFounded, WFMin
<1>2. \A m, n \in Nat : <<m, n>> \in OpToRel(<, Nat) <=> m < n
  BY DEF OpToRel
<1>3. ASSUME NEW y \in T
      PROVE  x <= y
  <2>1. x \in Nat /\ y \in Nat /\ ~ (y < x)
    BY <1>1, <1>2
  <2>2. QED
    BY <2>1
<1>4. QED
  BY <1>3

(* The distances to the bound have a smallest one.                              *)
LEMMA LargestNat ==
  ASSUME NEW T, T \subseteq Nat, T # {}, NEW b \in Nat, \A x \in T : x <= b
  PROVE  \E x \in T : \A y \in T : x >= y
<1> DEFINE U == {u \in Nat : \E x \in T : u = b - x}
<1>1. U \subseteq Nat /\ U # {}
  <2>1. PICK x \in T : TRUE
    OBVIOUS
  <2>2. x \in Nat /\ x <= b
    BY <2>1
  <2>3. b - x \in U
    BY <2>2
  <2>4. QED
    BY <2>3
<1>2. PICK u \in U : \A v \in U : u <= v
  <2> HIDE DEF U
  <2>1. QED
    BY <1>1, SmallestNat
<1>3. PICK m \in T : u = b - m
  BY <1>2
<1>4. ASSUME NEW y \in T
      PROVE  m >= y
  <2>1. m \in Nat /\ y \in Nat /\ m <= b /\ y <= b
    OBVIOUS
  <2>2. b - y \in U
    BY <2>1
  <2>3. u <= b - y
    BY <1>2, <2>2
  <2>4. QED
    BY <1>3, <2>1, <2>3
<1>5. QED
  BY <1>4

(* What Min and Max of FiniteSetsExt return.                                    *)
LEMMA MinIs ==
  ASSUME NEW T, T \subseteq Nat, T # {}
  PROVE  Min(T) \in T /\ \A y \in T : Min(T) <= y
  BY SmallestNat DEF Min

(* The largest element, of a set that has a bound.                           *)
LEMMA MaxIs ==
  ASSUME NEW T, T \subseteq Nat, T # {}, NEW b \in Nat, \A x \in T : x <= b
  PROVE  Max(T) \in T /\ \A y \in T : Max(T) >= y
  BY LargestNat DEF Max

(* A recursive function exists whose value at a position depends on that at a later       *)
(* one: otherwise take the smallest position from which on there is one.                *)
Upward(N, ends, goes, next) ==
  \A from \in (1..N) \cap goes : from \notin ends => next[from] \in (from + 1)..N

Solves(f, N, ends, goes, next) ==
  \A from \in 1..N : f[from] = (from \in ends \/ (from \in goes /\ f[next[from]]))

(* The function such a recursion defines exists.                             *)
LEMMA UpwardRecursion ==
  ASSUME NEW N \in Nat \ {0}, NEW ends, NEW goes, NEW next,
         Upward(N, ends, goes, next)
  PROVE  \E f \in [1..N -> BOOLEAN] : Solves(f, N, ends, goes, next)
<1> USE DEF Upward, Solves
<1> DEFINE Right(f, from) == f[from] = (from \in ends \/ (from \in goes /\ f[next[from]]))
           T == {m \in 1..N : \E f \in [1..N -> BOOLEAN] : \A from \in m..N : Right(f, from)}
<1>1. N \in T
  <2> DEFINE f == [from \in 1..N |-> from \in ends]
  <2>1. f \in [1..N -> BOOLEAN]
    OBVIOUS
  <2>2. ASSUME NEW from \in N..N
        PROVE  Right(f, from)
    <3>1. from = N /\ from \in 1..N /\ (from \in goes => from \in ends)
      BY <2>2
    <3>2. f[from] = (from \in ends)
      BY <3>1
    <3> HIDE DEF f
    <3>3. QED
      BY <3>1, <3>2
  <2> HIDE DEF f
  <2>3. N \in 1..N
    OBVIOUS
  <2>4. QED
    BY <2>1, <2>2, <2>3
<1>2. PICK m \in T : \A k \in T : m <= k
  <2>1. T \subseteq Nat /\ T # {}
    BY <1>1
  <2> HIDE DEF T
  <2>2. QED
    BY <2>1, SmallestNat
<1>3. PICK f \in [1..N -> BOOLEAN] : \A from \in m..N : Right(f, from)
  BY <1>2
<1>4. m \in 1..N
  BY <1>2
<1>5. CASE m = 1
  BY <1>3, <1>5
<1>6. CASE m # 1
  <2> DEFINE new == m - 1
             value == new \in ends \/ (new \in goes /\ f[next[new]])
             g == [f EXCEPT ![new] = value]
  <2>1. new \in 1..N /\ ~ (m <= new) /\ \A from \in new..N : from \in m..N \/ from = new
    BY <1>4, <1>6
  <2>2. g \in [1..N -> BOOLEAN] /\ g[new] = value /\ \A k \in 1..N : k # new => g[k] = f[k]
    BY <1>3, <2>1
  <2> HIDE DEF g
  <2>3. ASSUME NEW from \in new..N
        PROVE  Right(g, from)
    <3>1. CASE from \in goes /\ from \notin ends
      <4>1. from \in 1..N /\ next[from] \in (from + 1)..N
        BY <2>1, <2>3, <3>1
      <4>2. next[from] \in 1..N /\ next[from] # new
        BY <2>1, <2>3, <4>1
      <4>3. g[next[from]] = f[next[from]]
        BY <2>2, <4>2
      <4>4. CASE from \in m..N
        <5>1. g[from] = f[from] /\ f[from] = f[next[from]]
          <6>1. from # new /\ from \in 1..N
            BY <1>4, <4>1, <4>4
          <6>2. g[from] = f[from] /\ Right(f, from)
            BY <1>3, <2>2, <4>4, <6>1
          <6>3. f[from] \in BOOLEAN /\ f[next[from]] \in BOOLEAN
            BY <1>3, <4>1, <4>2
          <6>4. QED
            BY <3>1, <6>2, <6>3
        <5>2. g[from] = g[next[from]] /\ g[next[from]] \in BOOLEAN
          BY <2>2, <4>2, <4>3, <5>1
        <5>3. QED
          BY <3>1, <5>2
      <4>5. CASE from = new
        <5>1. f[next[new]] \in BOOLEAN
          BY <1>3, <4>2, <4>5
        <5>2. g[from] = f[next[from]]
          BY <2>2, <3>1, <4>5, <5>1
        <5>3. g[from] = g[next[from]] /\ g[next[from]] \in BOOLEAN
          BY <2>2, <4>2, <4>3, <5>2
        <5>4. QED
          BY <3>1, <5>3
      <4>6. QED
        BY <2>1, <2>3, <4>4, <4>5
    <3>2. CASE ~ (from \in goes /\ from \notin ends)
      <4>1. CASE from \in m..N
        <5>1. from # new /\ from \in 1..N
          BY <1>4, <4>1
        <5>2. g[from] = f[from] /\ Right(f, from)
          BY <1>3, <2>2, <4>1, <5>1
        <5>3. f[from] = (from \in ends)
          BY <3>2, <5>2
        <5>4. QED
          BY <3>2, <5>2, <5>3
      <4>2. CASE from = new
        BY <2>2, <3>2, <4>2
      <4>3. QED
        BY <2>1, <2>3, <4>1, <4>2
    <3>3. QED
      BY <3>1, <3>2
  <2>4. new \in T
    BY <2>1, <2>2, <2>3
  <2>5. QED
    BY <1>2, <2>1, <2>4
<1>7. QED
  BY <1>5, <1>6

=============================================================================
