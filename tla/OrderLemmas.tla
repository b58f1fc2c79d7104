---------------------------- MODULE OrderLemmas ----------------------------
(***************************************************************************)
(* Lemmas about sets of naturals and about sequences that the proofs of    *)
(* the components share.                                                   *)
(***************************************************************************)
EXTENDS Subsequences, Integers, SequenceTheorems, FiniteSetTheorems,
        WellFoundedInduction, TLAPS

-----------------------------------------------------------------------------
(* Minima and maxima                                                       *)

\* A set of times that is not empty has an earliest one.
LEMMA EarliestExists ==
  ASSUME NEW S \in SUBSET Nat, S # {}
  PROVE  \E x \in S : \A y \in S : x <= y
<1> DEFINE Less == OpToRel(<, Nat)
<1>0. IsWellFoundedOn(Less, Nat)
  BY NatLessThanWellFounded
<1> HIDE DEF Less
<1>1. PICK x \in S : \A y \in S : <<y, x>> \notin Less
  BY <1>0, WFMin
<1>2. ASSUME NEW y \in S PROVE x <= y
  <2>1. x \in Nat /\ y \in Nat
    OBVIOUS
  <2>2. ~(<<y, x>> \in OpToRel(<, Nat))
    BY <1>1 DEF Less
  <2>3. ~(y < x)
    BY <2>1, <2>2 DEF OpToRel
  <2> QED
    BY <2>1, <2>3
<1> QED
  BY <1>2

\* A finite one has a latest one.
LEMMA LatestExists ==
  ASSUME NEW S \in SUBSET Nat, S # {}, IsFiniteSet(S)
  PROVE  \E x \in S : \A y \in S : x >= y
<1> DEFINE Above(x) == {y \in S : y > x}
           Counts == {Cardinality(Above(x)) : x \in S}
<1>1. \A x \in S : IsFiniteSet(Above(x)) /\ Cardinality(Above(x)) \in Nat
  BY FS_Subset, FS_CardinalityType
<1>2. Counts \in SUBSET Nat /\ Counts # {}
  BY <1>1
<1>3. PICK x \in S : \A n \in Counts : Cardinality(Above(x)) <= n
  BY <1>2, EarliestExists
<1>4. ASSUME NEW y \in S, y > x PROVE FALSE
  <2>1. Above(y) \in SUBSET Above(x) /\ y \in Above(x) /\ y \notin Above(y)
    <3>1. \A z \in S : z \in Nat /\ (z > y => z > x)
      BY <1>4
    <3>2. ~(y > y)
      OBVIOUS
    <3> QED
      BY <1>4, <3>1, <3>2
  <2>2. Cardinality(Above(y)) <= Cardinality(Above(x)) /\ Cardinality(Above(x)) # Cardinality(Above(y))
    <3> DEFINE T == Above(x)
               U == Above(y)
    <3>1. IsFiniteSet(T) /\ U \in SUBSET T /\ U # T
      BY <1>1, <2>1
    <3> HIDE DEF T, U
    <3>2. Cardinality(U) <= Cardinality(T)
      BY <3>1, FS_Subset
    <3>3. Cardinality(T) # Cardinality(U)
      BY <3>1, FS_Subset
    <3> QED
      BY <3>2, <3>3 DEF T, U
  <2>3. Cardinality(Above(x)) <= Cardinality(Above(y))
    BY <1>3
  <2> QED
    BY <2>2, <2>3, <1>1
<1> QED
  BY <1>4

-----------------------------------------------------------------------------
(* The ranks of positions                                                  *)

\* The position of rank k exists, for every k there can be, and ranks tell
\* positions apart.
LEMMA NthOfPositions ==
  ASSUME NEW K \in SUBSET Nat, IsFiniteSet(K)
  PROVE  /\ Cardinality(K) \in Nat
         /\ \A k \in 1..Cardinality(K) : Nth(K, k) \in K
         /\ \A k, l \in 1..Cardinality(K) : Nth(K, k) = Nth(K, l) => k = l
         /\ \A i \in K : \E k \in 1..Cardinality(K) : Nth(K, k) = i
<1> DEFINE Upto(i) == {j \in K : j <= i}
           rank == [i \in K |-> Cardinality(Upto(i))]
           n == Cardinality(K)
<1>1. n \in Nat
  BY FS_CardinalityType
<1>2. \A i \in K : /\ IsFiniteSet(Upto(i)) /\ Cardinality(Upto(i)) \in Nat
                   /\ Cardinality(Upto(i)) <= n
  <2> TAKE i \in K
  <2>1. Upto(i) \in SUBSET K
    OBVIOUS
  <2> HIDE DEF Upto
  <2> QED
    BY <2>1, FS_Subset, FS_CardinalityType
<1>3. \A i \in K : Cardinality(Upto(i)) # 0
  <2> TAKE i \in K
  <2>1. i \in Upto(i)
    OBVIOUS
  <2> QED
    BY <1>2, <2>1, FS_EmptySet
<1>4. ASSUME NEW i \in K, NEW j \in K, i < j
      PROVE  Cardinality(Upto(i)) # Cardinality(Upto(j))
  <2> DEFINE A == Upto(i)
             B == Upto(j)
  <2>1. A \in SUBSET B /\ A # B
    <3>1. \A x \in K : x \in Nat
      OBVIOUS
    <3>2. \A x \in K : x <= i => x <= j
      BY <1>4, <3>1
    <3>3. j \in B /\ j \notin A
      BY <1>4, <3>1
    <3> QED
      BY <3>2, <3>3
  <2>2. IsFiniteSet(B)
    BY <1>2
  <2> HIDE DEF A, B
  <2>3. Cardinality(A) # Cardinality(B)
    BY <2>1, <2>2, FS_Subset
  <2> QED
    BY <2>3 DEF A, B
<1>5. rank \in [K -> 1..n] /\ \A i, j \in K : rank[i] = rank[j] => i = j
  <2>1. \A i \in K : rank[i] \in 1..n
    BY <1>1, <1>2, <1>3
  <2>2. \A i, j \in K : i # j => i < j \/ j < i
    OBVIOUS
  <2>3. \A i, j \in K : rank[i] = rank[j] => i = j
    BY <2>2, <1>4
  <2> QED
    BY <2>1, <2>3
<1>6. \A k \in 1..n : \E i \in K : rank[i] = k
  <2>1. rank \in Injection(K, 1..n)
    BY <1>5 DEF Injection, IsInjective
  <2>2. IsFiniteSet(1..n) /\ Cardinality(1..n) = n
    BY <1>1, FS_Interval
  <2>3. Cardinality(K) = Cardinality(1..n)
    BY <2>2
  <2> HIDE DEF rank, n
  <2>4. rank \in Surjection(K, 1..n)
    BY <2>1, <2>2, <2>3, FS_Injection
  <2> QED
    BY <2>4 DEF Surjection
<1>7. \A k \in 1..n : Nth(K, k) \in K /\ Cardinality(Upto(Nth(K, k))) = k
  <2> TAKE k \in 1..n
  <2>1. PICK i \in K : Cardinality({j \in K : j <= i}) = k
    BY <1>6
  <2> HIDE DEF n
  <2> QED
    BY <2>1 DEF Nth
<1>8. \A i \in K : rank[i] \in 1..n /\ Nth(K, rank[i]) = i
  <2> TAKE i \in K
  <2> DEFINE k == rank[i]
             j == Nth(K, k)
  <2>1. k \in 1..n
    BY <1>5
  <2>2. j \in K /\ Cardinality(Upto(j)) = k
    BY <1>7, <2>1
  <2>3. rank[j] = k
    BY <2>2
  <2> HIDE DEF rank, j
  <2>4. j = i
    BY <1>5, <2>2, <2>3
  <2> QED
    BY <2>1, <2>4 DEF j
<1> QED
  BY <1>1, <1>7, <1>8

-----------------------------------------------------------------------------
(* Sequences                                                               *)

\* The positions of a sequence.
LEMMA Positions ==
  ASSUME NEW S, NEW s \in Seq(S)
  PROVE  /\ Len(s) \in Nat /\ DOMAIN s = 1..Len(s)
         /\ DOMAIN s \in SUBSET Nat /\ IsFiniteSet(DOMAIN s)
         /\ \A i \in DOMAIN s : s[i] \in S
<1>1. Len(s) \in Nat /\ DOMAIN s = 1..Len(s)
  OBVIOUS
<1>2. IsFiniteSet(1..Len(s))
  BY <1>1, FS_Interval
<1> QED
  BY <1>1, <1>2

\* A function whose domain is an initial segment is a sequence of its values.
LEMMA SegmentIsSeq ==
  ASSUME NEW S, NEW n \in Nat, NEW f \in [1..n -> S]
  PROVE  f \in Seq(S) /\ Len(f) = n /\ DOMAIN f = 1..n
<1>1. f \in Seq(S)
  BY SeqDef
<1> QED
  BY <1>1

\* What Subsequence keeps: every element at a position of K, once, and no
\* other.
LEMMA SubsequenceElements ==
  ASSUME NEW S, NEW s \in Seq(S), NEW K \in SUBSET DOMAIN s
  PROVE  LET t == Subsequence(s, K)
         IN  /\ t \in Seq(S) /\ DOMAIN t = 1..Cardinality(K)
             /\ Len(t) = Cardinality(K) /\ Cardinality(K) \in Nat
             /\ \A k \in DOMAIN t : Nth(K, k) \in K /\ t[k] = s[Nth(K, k)]
             /\ \A k, l \in DOMAIN t : Nth(K, k) = Nth(K, l) => k = l
             /\ \A i \in K : \E k \in DOMAIN t : Nth(K, k) = i /\ t[k] = s[i]
<1> DEFINE t == Subsequence(s, K)
           n == Cardinality(K)
<1>1. K \in SUBSET Nat /\ IsFiniteSet(K) /\ \A i \in K : s[i] \in S
  BY Positions, FS_Subset
<1>2. /\ n \in Nat
      /\ \A k \in 1..n : Nth(K, k) \in K
      /\ \A k, l \in 1..n : Nth(K, k) = Nth(K, l) => k = l
      /\ \A i \in K : \E k \in 1..n : Nth(K, k) = i
  BY <1>1, NthOfPositions
<1> HIDE DEF n
<1>3. t = [k \in 1..n |-> s[Nth(K, k)]]
  BY DEF Subsequence, n
<1>4. t \in [1..n -> S]
  BY <1>1, <1>2, <1>3
<1> HIDE DEF t
<1>5. t \in Seq(S) /\ Len(t) = n /\ DOMAIN t = 1..n
  BY <1>2, <1>4, SegmentIsSeq
<1>6. \A k \in 1..n : t[k] = s[Nth(K, k)]
  BY <1>3
<1> QED
  BY <1>2, <1>5, <1>6 DEF t, n

-----------------------------------------------------------------------------
(* Steps and sums                                                          *)

\* What holds at the start and is kept by every step holds all the way.
LEMMA AllTheWay ==
  ASSUME NEW n \in Nat, NEW G, 0 \in G, \A k \in 1..n : k - 1 \in G => k \in G
  PROVE  \A k \in 0..n : k \in G
<1> DEFINE Bad == {k \in 0..n : k \notin G}
<1>1. SUFFICES ASSUME Bad # {} PROVE FALSE
  OBVIOUS
<1>2. PICK k \in Bad : \A j \in Bad : k <= j
  <2>1. Bad \in SUBSET Nat
    OBVIOUS
  <2> HIDE DEF Bad
  <2> QED
    BY <1>1, <2>1, EarliestExists
<1>3. k \in 1..n /\ k - 1 \in 0..n
  <2>1. k \in 0..n /\ k \notin G
    BY <1>2
  <2> QED
    BY <2>1
<1>4. k - 1 \in G
  <2>1. ~(k <= k - 1)
    BY <1>3
  <2>2. k - 1 \notin Bad
    BY <1>2, <2>1
  <2> QED
    BY <1>3, <2>2
<1> QED
  BY <1>2, <1>3, <1>4

\* What holds of no element and is kept by one more holds of all of a finite set.
LEMMA OneByOne ==
  ASSUME NEW K, IsFiniteSet(K), NEW G, {} \in G,
         \A s \in SUBSET K, x \in K : s \in G => s \cup {x} \in G
  PROVE  \A s \in SUBSET K : s \in G
<1> DEFINE n == Cardinality(K)
           H == {m \in 0..n : \A s \in SUBSET K : Cardinality(s) = m => s \in G}
<1>1. n \in Nat /\ \A s \in SUBSET K : IsFiniteSet(s) /\ Cardinality(s) \in 0..n
  <2>1. n \in Nat
    BY FS_CardinalityType
  <2>2. ASSUME NEW s \in SUBSET K PROVE IsFiniteSet(s) /\ Cardinality(s) \in 0..n
    <3>1. IsFiniteSet(s) /\ Cardinality(s) <= n
      BY FS_Subset
    <3>2. Cardinality(s) \in Nat
      BY <3>1, FS_CardinalityType
    <3> QED
      BY <2>1, <3>1, <3>2
  <2> QED
    BY <2>1, <2>2
<1> HIDE DEF n
<1>2. 0 \in H
  <2>1. ASSUME NEW s \in SUBSET K, Cardinality(s) = 0 PROVE s \in G
    <3>1. s = {}
      BY <1>1, <2>1, FS_EmptySet
    <3> QED
      BY <3>1
  <2> QED
    BY <1>1, <2>1
<1>3. ASSUME NEW m \in 1..n, m - 1 \in H PROVE m \in H
  <2>1. ASSUME NEW s \in SUBSET K, Cardinality(s) = m PROVE s \in G
    <3>1. IsFiniteSet(s) /\ s # {}
      BY <1>1, <2>1, FS_EmptySet
    <3>2. PICK x \in s : TRUE
      BY <3>1
    <3> DEFINE r == s \ {x}
    <3>3. Cardinality(r) = m - 1 /\ r \in SUBSET K /\ x \in K /\ r \cup {x} = s
      <4>1. Cardinality(s \ {x}) = Cardinality(s) - 1
        BY <3>1, <3>2, FS_RemoveElement
      <4> QED
        BY <2>1, <3>2, <4>1
    <3> HIDE DEF r
    <3>4. r \in G
      BY <1>3, <3>3
    <3> QED
      BY <3>3, <3>4
  <2> QED
    BY <1>1, <2>1
<1>4. \A m \in 0..n : m \in H
  <2> HIDE DEF H
  <2> QED
    BY <1>1, <1>2, <1>3, AllTheWay
<1> QED
  BY <1>1, <1>4

\* g gives every set of places the sum of what f has there.
Adds(g, f, K) ==
    /\ g \in [SUBSET K -> Int] /\ g[{}] = 0
    /\ \A s \in SUBSET K : \A x \in K \ s : g[s \cup {x}] = g[s] + f[x]

LEMMA SumExists ==
  ASSUME NEW K, IsFiniteSet(K), NEW f \in [K -> Int]
  PROVE  \E g : Adds(g, f, K)
<1> DEFINE G == {s \in SUBSET K : \E g : Adds(g, f, s)}
<1>1. {} \in G
  <2> DEFINE g == [s \in SUBSET {} |-> 0]
  <2>1. g \in [SUBSET {} -> Int] /\ g[{}] = 0
    OBVIOUS
  <2> HIDE DEF g
  <2>2. Adds(g, f, {})
    BY <2>1 DEF Adds
  <2> QED
    BY <2>2
<1>2. ASSUME NEW l \in SUBSET K, NEW x \in K, l \in G PROVE l \cup {x} \in G
  <2>1. CASE x \in l
    <3>1. l \cup {x} = l
      BY <2>1
    <3> QED
      BY <1>2, <3>1
  <2>2. CASE x \notin l
    <3>1. PICK g : Adds(g, f, l)
      BY <1>2
    <3> DEFINE m == l \cup {x}
               h == [s \in SUBSET m |-> IF x \in s THEN g[s \ {x}] + f[x] ELSE g[s]]
    <3>2. f[x] \in Int /\ \A s \in SUBSET l : g[s] \in Int
      BY <3>1 DEF Adds
    <3>3. \A s \in SUBSET m : s \ {x} \in SUBSET l /\ (x \notin s => s \in SUBSET l)
      OBVIOUS
    <3>4. h \in [SUBSET m -> Int]
      BY <3>2, <3>3
    <3>5. h[{}] = 0
      BY <3>1 DEF Adds
    <3>6. ASSUME NEW s \in SUBSET m, NEW y \in m \ s PROVE h[s \cup {y}] = h[s] + f[y]
      <4>1. CASE y = x
        <5>1. (s \cup {y}) \ {x} = s /\ s \cup {y} \in SUBSET m /\ x \in s \cup {y} /\ x \notin s
          BY <3>6, <4>1
        <5>2. h[s \cup {y}] = g[s] + f[x] /\ h[s] = g[s]
          BY <5>1
        <5> QED
          BY <4>1, <5>2
      <4>2. CASE y # x /\ x \notin s
        <5>1. x \notin s \cup {y} /\ s \in SUBSET l /\ y \in l \ s /\ s \cup {y} \in SUBSET m
          BY <3>6, <4>2
        <5>2. h[s \cup {y}] = g[s \cup {y}] /\ h[s] = g[s]
          BY <5>1
        <5>3. g[s \cup {y}] = g[s] + f[y]
          BY <3>1, <5>1 DEF Adds
        <5> QED
          BY <5>2, <5>3
      <4>3. CASE y # x /\ x \in s
        <5> DEFINE r == s \ {x}
        <5>1. /\ x \in s \cup {y} /\ r \in SUBSET l /\ y \in l \ r /\ s \cup {y} \in SUBSET m
              /\ (s \cup {y}) \ {x} = r \cup {y}
          BY <3>6, <4>3
        <5>2. h[s \cup {y}] = g[r \cup {y}] + f[x] /\ h[s] = g[r] + f[x]
          BY <4>3, <5>1
        <5>3. g[r \cup {y}] = g[r] + f[y] /\ g[r] \in Int /\ f[y] \in Int
          <6> HIDE DEF r, h
          <6>1. f[y] \in Int
            BY <1>2, <5>1
          <6> QED
            BY <3>1, <5>1, <6>1 DEF Adds
        <5> HIDE DEF r, h
        <5> QED
          BY <3>2, <5>2, <5>3
      <4> QED
        BY <4>1, <4>2, <4>3
    <3>7. Adds(h, f, m)
      <4> HIDE DEF h, m
      <4> QED
        BY <3>4, <3>5, <3>6 DEF Adds
    <3>8. m \in SUBSET K
      BY <1>2
    <3> HIDE DEF h
    <3> QED
      BY <3>7, <3>8
  <2> QED
    BY <2>1, <2>2
<1>3. \A s \in SUBSET K : s \in G
  <2> HIDE DEF G
  <2> QED
    BY <1>1, <1>2, OneByOne
<1> QED
  BY <1>3

\* h adds up element by element, those that pick gives first; it need not be
\* known before that it gives integers.
StepsUp(h, f, K, pick) ==
    /\ IsFiniteSet(K) /\ f \in [K -> Int]
    /\ \A s \in SUBSET K : s # {} => pick[s] \in s
    /\ h[{}] = 0
    /\ \A s \in SUBSET K :
          s # {} /\ h[s \ {pick[s]}] \in Int => h[s] = f[pick[s]] + h[s \ {pick[s]}]

\* Whichever element is taken first, this finds the sum.
LEMMA StepsAdd ==
  ASSUME NEW K, NEW f, NEW g, Adds(g, f, K), NEW pick, NEW h, StepsUp(h, f, K, pick)
  PROVE  \A s \in SUBSET K : h[s] = g[s]
<1>0. /\ IsFiniteSet(K) /\ f \in [K -> Int]
      /\ \A s \in SUBSET K : s # {} => pick[s] \in s
  BY DEF StepsUp
<1> DEFINE n == Cardinality(K)
           H == {m \in 0..n : \A s \in SUBSET K : Cardinality(s) = m => h[s] = g[s]}
<1>1. n \in Nat /\ \A s \in SUBSET K : IsFiniteSet(s) /\ Cardinality(s) \in 0..n
  <2>1. n \in Nat
    BY <1>0, FS_CardinalityType
  <2>2. ASSUME NEW s \in SUBSET K PROVE IsFiniteSet(s) /\ Cardinality(s) \in 0..n
    <3>1. IsFiniteSet(s) /\ Cardinality(s) <= n
      BY <1>0, FS_Subset
    <3>2. Cardinality(s) \in Nat
      BY <3>1, FS_CardinalityType
    <3> QED
      BY <2>1, <3>1, <3>2
  <2> QED
    BY <2>1, <2>2
<1> HIDE DEF n
<1>2. 0 \in H
  <2>1. ASSUME NEW s \in SUBSET K, Cardinality(s) = 0 PROVE h[s] = g[s]
    <3>1. s = {}
      BY <1>1, <2>1, FS_EmptySet
    <3> QED
      BY <3>1 DEF Adds, StepsUp
  <2> QED
    BY <1>1, <2>1
<1>3. ASSUME NEW m \in 1..n, m - 1 \in H PROVE m \in H
  <2>1. ASSUME NEW s \in SUBSET K, Cardinality(s) = m PROVE h[s] = g[s]
    <3>1. IsFiniteSet(s) /\ s # {}
      BY <1>1, <2>1, FS_EmptySet
    <3> DEFINE x == pick[s]
               r == s \ {x}
    <3>2. x \in s
      BY <1>0, <3>1
    <3> HIDE DEF x
    <3>3. /\ Cardinality(r) = m - 1 /\ r \in SUBSET K /\ x \in K /\ r \cup {x} = s
          /\ x \in K \ r
      <4>1. Cardinality(s \ {x}) = Cardinality(s) - 1
        BY <3>1, <3>2, FS_RemoveElement
      <4> QED
        BY <2>1, <3>2, <4>1
    <3>4. h[r] = g[r]
      BY <1>3, <3>3
    <3>5. g[s] = g[r] + f[x] /\ g[r] \in Int /\ f[x] \in Int
      BY <1>0, <3>3 DEF Adds
    <3>6. h[s] = f[x] + h[r]
      BY <3>1, <3>4, <3>5 DEF x, r, StepsUp
    <3> QED
      BY <3>4, <3>5, <3>6
  <2> QED
    BY <1>1, <2>1
<1>4. \A m \in 0..n : m \in H
  <2> HIDE DEF H
  <2> QED
    BY <1>1, <1>2, <1>3, AllTheWay
<1> QED
  BY <1>1, <1>4

\* A fold that adds up; pick is the element it takes first.
TakesUp(h, f, K, pick) ==
    h = [s \in SUBSET K |-> IF s = {} THEN 0 ELSE f[pick[s]] + h[s \ {pick[s]}]]

LEMMA FoldAdds ==
  ASSUME NEW K, IsFiniteSet(K), NEW f \in [K -> Int], NEW g, Adds(g, f, K),
         NEW pick, \A s \in SUBSET K : s # {} => pick[s] \in s,
         NEW h, TakesUp(h, f, K, pick)
  PROVE  h = g
<1>1. /\ h[{}] = 0 /\ h = [s \in SUBSET K |-> h[s]]
      /\ \A s \in SUBSET K : s # {} => h[s] = f[pick[s]] + h[s \ {pick[s]}]
  <2> DEFINE v == [s \in SUBSET K |-> IF s = {} THEN 0 ELSE f[pick[s]] + h[s \ {pick[s]}]]
  <2>1. h = v
    BY DEF TakesUp
  <2>2. /\ v[{}] = 0 /\ v = [s \in SUBSET K |-> v[s]]
        /\ \A s \in SUBSET K : s # {} => v[s] = f[pick[s]] + h[s \ {pick[s]}]
    OBVIOUS
  <2> HIDE DEF v
  <2>3. v[{}] = 0 /\ v = [s \in SUBSET K |-> v[s]]
    BY <2>2
  <2> QED
    BY <2>1, <2>2
<1>2. \A s \in SUBSET K :
         s # {} /\ h[s \ {pick[s]}] \in Int => h[s] = f[pick[s]] + h[s \ {pick[s]}]
  BY <1>1
<1>3. \A s \in SUBSET K : h[s] = g[s]
  <2>1. StepsUp(h, f, K, pick)
    BY <1>1, <1>2 DEF StepsUp
  <2> QED
    BY <2>1, StepsAdd
<1>4. g = [s \in SUBSET K |-> g[s]]
  BY DEF Adds
<1> QED
  BY <1>1, <1>3, <1>4

\* There is such a fold.
LEMMA SumIsFold ==
  ASSUME NEW K, NEW f \in [K -> Int], NEW g, Adds(g, f, K),
         NEW pick, \A s \in SUBSET K : s # {} => pick[s] \in s
  PROVE  TakesUp(g, f, K, pick)
<1>1. ASSUME NEW s \in SUBSET K, s # {} PROVE g[s] = f[pick[s]] + g[s \ {pick[s]}]
  <2> DEFINE x == pick[s]
             r == s \ {x}
  <2>1. x \in s
    BY <1>1
  <2> HIDE DEF x
  <2>2. r \in SUBSET K /\ x \in K \ r /\ r \cup {x} = s
    BY <2>1
  <2> HIDE DEF r
  <2>3. g[s] = g[r] + f[x] /\ g[r] \in Int /\ f[x] \in Int
    BY <2>2 DEF Adds
  <2>4. g[s] = f[x] + g[r]
    BY <2>3
  <2> QED
    BY <2>4 DEF x, r
<1>2. g = [s \in SUBSET K |-> g[s]] /\ g[{}] = 0
  BY DEF Adds
<1> QED
  BY <1>1, <1>2 DEF TakesUp

\* The sizes of some sets add up to no less than the size of their union, and to
\* that if they have nothing in common.
SizesOf(K, A, total) ==
    LET all == UNION {A[x] : x \in K}
    IN  /\ IsFiniteSet(all) /\ Cardinality(all) \in Nat
        /\ total \in Int /\ Cardinality(all) <= total
        /\ (\A x, y \in K : x # y => A[x] \cap A[y] = {}) => total = Cardinality(all)

LEMMA SumOfSizes ==
  ASSUME NEW K, IsFiniteSet(K), NEW A, \A x \in K : IsFiniteSet(A[x]),
         NEW f \in [K -> Int], \A x \in K : f[x] = Cardinality(A[x]),
         NEW g, Adds(g, f, K)
  PROVE  SizesOf(K, A, g[K])
<1> DEFINE all(s) == UNION {A[x] : x \in s}
           apart == \A x, y \in K : x # y => A[x] \cap A[y] = {}
           G == {s \in SUBSET K : /\ IsFiniteSet(all(s)) /\ Cardinality(all(s)) \in Nat
                                  /\ g[s] \in Int /\ Cardinality(all(s)) <= g[s]
                                  /\ apart => g[s] = Cardinality(all(s))}
<1>1. {} \in G
  <2>1. all({}) = {} /\ IsFiniteSet({}) /\ Cardinality({}) = 0
    BY FS_EmptySet
  <2>2. g[{}] = 0
    BY DEF Adds
  <2> QED
    BY <2>1, <2>2
<1>2. ASSUME NEW s \in SUBSET K, NEW x \in K, s \in G PROVE s \cup {x} \in G
  <2>1. CASE x \in s
    <3>1. s \cup {x} = s
      BY <2>1
    <3> QED
      BY <1>2, <3>1
  <2>2. CASE x \notin s
    <3> DEFINE U == all(s)
               T == A[x]
               t == s \cup {x}
    <3>1. /\ IsFiniteSet(U) /\ Cardinality(U) \in Nat /\ g[s] \in Int
          /\ Cardinality(U) <= g[s] /\ (apart => g[s] = Cardinality(U))
      BY <1>2
    <3>2. IsFiniteSet(T) /\ f[x] = Cardinality(T) /\ Cardinality(T) \in Nat
      BY FS_CardinalityType
    <3>3. all(t) = U \cup T /\ t \in SUBSET K
      OBVIOUS
    <3>4. g[t] = g[s] + f[x]
      BY <2>2 DEF Adds
    <3>5. apart => U \cap T = {}
      <4>1. ASSUME apart, NEW z \in U, z \in T PROVE FALSE
        <5>1. PICK y \in s : z \in A[y]
          OBVIOUS
        <5> QED
          BY <2>2, <4>1, <5>1
      <4> QED
        BY <4>1
    <3> HIDE DEF all, U, T, t, apart
    <3>6. /\ IsFiniteSet(U \cup T)
          /\ Cardinality(U \cup T) = Cardinality(U) + Cardinality(T) - Cardinality(U \cap T)
      BY <3>1, <3>2, FS_Union
    <3>7. Cardinality(U \cap T) \in Nat /\ (apart => Cardinality(U \cap T) = 0)
      <4>1. U \cap T \in SUBSET U
        OBVIOUS
      <4>2. IsFiniteSet(U \cap T)
        BY <3>1, <4>1, FS_Subset
      <4> QED
        BY <3>5, <4>2, FS_CardinalityType, FS_EmptySet
    <3>8. Cardinality(U \cup T) \in Nat
      BY <3>6, FS_CardinalityType
    <3>9. g[t] \in Int /\ Cardinality(U \cup T) <= g[t] /\ (apart => g[t] = Cardinality(U \cup T))
      BY <3>1, <3>2, <3>4, <3>6, <3>7
    <3> QED
      BY <3>3, <3>6, <3>8, <3>9 DEF t
  <2> QED
    BY <2>1, <2>2
<1>3. \A s \in SUBSET K : s \in G
  <2> HIDE DEF G
  <2> QED
    BY <1>1, <1>2, OneByOne
<1> QED
  BY <1>3 DEF SizesOf

\* The sum over two sets that have nothing in common.
LEMMA SumOfParts ==
  ASSUME NEW K, IsFiniteSet(K), NEW f \in [K -> Int], NEW g, Adds(g, f, K),
         NEW A \in SUBSET K, NEW B \in SUBSET K, A \cap B = {}
  PROVE  g[A \cup B] = g[A] + g[B]
<1> DEFINE G == {s \in SUBSET B : g[A \cup s] = g[A] + g[s]}
<1>1. \A s \in SUBSET K : g[s] \in Int
  BY DEF Adds
<1>2. {} \in G
  <2>1. A \cup {} = A /\ g[{}] = 0 /\ g[A] \in Int
    BY <1>1 DEF Adds
  <2> QED
    BY <2>1
<1>3. ASSUME NEW s \in SUBSET B, NEW x \in B, s \in G PROVE s \cup {x} \in G
  <2>1. CASE x \in s
    <3>1. s \cup {x} = s
      BY <2>1
    <3> QED
      BY <1>3, <3>1
  <2>2. CASE x \notin s
    <3> DEFINE u == A \cup s
    <3>1. u \in SUBSET K /\ x \in K \ u /\ x \in K \ s /\ s \in SUBSET K
      BY <2>2
    <3>2. A \cup (s \cup {x}) = u \cup {x}
      OBVIOUS
    <3>3. g[u] = g[A] + g[s]
      BY <1>3
    <3> HIDE DEF u
    <3>4. g[u \cup {x}] = g[u] + f[x] /\ g[s \cup {x}] = g[s] + f[x] /\ f[x] \in Int
      BY <3>1 DEF Adds
    <3>5. g[A] \in Int /\ g[s] \in Int
      BY <1>1, <3>1
    <3>6. g[A \cup (s \cup {x})] = g[A] + g[s \cup {x}]
      <4> DEFINE v == s \cup {x}
                 w == u \cup {x}
      <4>1. A \cup v = w
        BY <3>2
      <4>2. g[w] = g[u] + f[x] /\ g[v] = g[s] + f[x]
        BY <3>4
      <4> HIDE DEF v, w
      <4>3. g[w] = g[A] + g[v]
        BY <3>3, <3>4, <3>5, <4>2
      <4> QED
        BY <4>1, <4>3 DEF v
    <3> QED
      BY <3>6
  <2> QED
    BY <2>1, <2>2
<1>4. IsFiniteSet(B)
  BY FS_Subset
<1>5. \A s \in SUBSET B, x \in B : s \in G => s \cup {x} \in G
  BY <1>3
<1>6. \A s \in SUBSET B : s \in G
  <2> HIDE DEF G
  <2> QED
    BY <1>2, <1>4, <1>5, OneByOne
<1> QED
  BY <1>6

\* A sum, taken along other places.
Along(h, e, L, p, g, f, K) ==
    /\ f \in [K -> Int] /\ p \in [L -> K] /\ \A x, y \in L : p[x] = p[y] => x = y
    /\ h = [s \in SUBSET L |-> g[{p[x] : x \in s}]] /\ e = [x \in L |-> f[p[x]]]

LEMMA SumAlong ==
  ASSUME NEW K, NEW f, NEW g, Adds(g, f, K), NEW L, NEW p, NEW h, NEW e,
         Along(h, e, L, p, g, f, K)
  PROVE  Adds(h, e, L)
<1> DEFINE at(s) == {p[x] : x \in s}
<1>0. /\ f \in [K -> Int] /\ p \in [L -> K] /\ \A x, y \in L : p[x] = p[y] => x = y
      /\ h = [s \in SUBSET L |-> g[{p[x] : x \in s}]] /\ e = [x \in L |-> f[p[x]]]
  BY DEF Along
<1> USE <1>0
<1>1. \A s \in SUBSET L : at(s) \in SUBSET K /\ h[s] = g[at(s)]
  OBVIOUS
<1>2. h \in [SUBSET L -> Int]
  BY <1>1 DEF Adds
<1>3. h[{}] = 0
  <2>1. at({}) = {} /\ {} \in SUBSET L
    OBVIOUS
  <2> QED
    BY <1>1, <2>1 DEF Adds
<1>4. ASSUME NEW s \in SUBSET L, NEW x \in L \ s PROVE h[s \cup {x}] = h[s] + e[x]
  <2>1. at(s \cup {x}) = at(s) \cup {p[x]} /\ s \cup {x} \in SUBSET L
    OBVIOUS
  <2>2. p[x] \in K \ at(s)
    OBVIOUS
  <2>3. e[x] = f[p[x]] /\ h[s] = g[at(s)] /\ h[s \cup {x}] = g[at(s \cup {x})]
    BY <1>1, <2>1
  <2>4. at(s) \in SUBSET K
    BY <1>1
  <2> HIDE DEF at
  <2>5. g[at(s) \cup {p[x]}] = g[at(s)] + f[p[x]]
    BY <2>2, <2>4 DEF Adds
  <2> QED
    BY <2>1, <2>3, <2>5
<1> QED
  BY <1>2, <1>3, <1>4 DEF Adds
=============================================================================
