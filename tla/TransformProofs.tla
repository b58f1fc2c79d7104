-------------------------- MODULE TransformProofs --------------------------
(* What the transforms of a query do to every list of events: lemmas about the
   folds and the order the transforms are built from, and about each transform. *)
EXTENDS Transforms, OrderLemmas, TLAPS

(***************************************************************************)
(* Folds.                                                                  *)
(***************************************************************************)
\* The last of some positions.
LEMMA LastOfPositions ==
  ASSUME NEW n \in Nat, NEW s \in SUBSET (1..n), s # {}
  PROVE  /\ Max(s) \in s /\ Max(s) \in 1..n
         /\ \A y \in s : y <= Max(s)
<1>1. IsFiniteSet(s) /\ s \in SUBSET Nat
  <2> DEFINE all == 1..n
  <2>1. IsFiniteSet(all) /\ s \in SUBSET all /\ all \in SUBSET Nat
    BY FS_Interval
  <2> HIDE DEF all
  <2> QED
    BY <2>1, FS_Subset
<1>2. \E x \in s : \A y \in s : x >= y
  BY <1>1, LatestExists
<1>3. Max(s) \in s /\ \A y \in s : Max(s) >= y
  BY <1>2 DEF Max
<1> QED
  BY <1>1, <1>3

LEMMA LastOfSegment ==
  ASSUME NEW n \in Nat, n # 0
  PROVE  Max(1..n) = n /\ (1..n) \ {n} = 1..(n - 1) /\ 1..n # {}
<1>1. n \in 1..n /\ 1..n \in SUBSET (1..n)
  OBVIOUS
<1> DEFINE s == 1..n
<1>2. Max(s) \in s /\ n <= Max(s)
  <2> HIDE DEF s
  <2>1. s # {} /\ n \in s /\ s \in SUBSET (1..n)
    BY <1>1 DEF s
  <2> QED
    BY <2>1, LastOfPositions
<1>3. Max(1..n) = n
  BY <1>2
<1>4. (1..n) \ {n} = 1..(n - 1)
  OBVIOUS
<1> QED
  BY <1>1, <1>3, <1>4

\* A fold over positions, from the left, as a function of the positions folded
\* over; there is one.
HasFold(S, base, n, F) ==
    \E g \in [SUBSET (1..n) -> S] :
       \A s \in SUBSET (1..n) :
          g[s] = IF s = {} THEN base ELSE F[<<g[s \ {Max(s)}], Max(s)>>]

LEMMA FoldExists ==
  ASSUME NEW S, NEW base \in S, NEW n \in Nat, NEW F \in [S \X (1..n) -> S]
  PROVE  HasFold(S, base, n, F)
<1> DEFINE Fold(m, g) == \A s \in SUBSET (1..m) :
              g[s] = IF s = {} THEN base ELSE F[<<g[s \ {Max(s)}], Max(s)>>]
           G == {m \in 0..n : \E g \in [SUBSET (1..m) -> S] : Fold(m, g)}
<1>1. 0 \in G
  <2>1. [s \in SUBSET (1..0) |-> base] \in [SUBSET (1..0) -> S]
    OBVIOUS
  <2>2. \A s \in SUBSET (1..0) : s = {}
    OBVIOUS
  <2>3. Fold(0, [s \in SUBSET (1..0) |-> base])
    BY <2>2
  <2> HIDE DEF Fold
  <2> QED
    BY <2>1, <2>3
<1>2. ASSUME NEW k \in 1..n, k - 1 \in G PROVE k \in G
  <2>1. PICK g \in [SUBSET (1..(k - 1)) -> S] : Fold(k - 1, g)
    BY <1>2
  <2> DEFINE h == [s \in SUBSET (1..k) |->
                      IF k \in s THEN F[<<g[s \ {k}], k>>] ELSE g[s]]
  <2>2. \A s \in SUBSET (1..k) : /\ s \ {k} \in SUBSET (1..(k - 1))
                                 /\ k \notin s => s \in SUBSET (1..(k - 1))
                                 /\ g[s \ {k}] \in S
                                 /\ k \notin s => g[s] \in S
    OBVIOUS
  <2>3. h \in [SUBSET (1..k) -> S]
    BY <2>2
  <2>4. ASSUME NEW s \in SUBSET (1..k)
        PROVE  h[s] = IF s = {} THEN base ELSE F[<<h[s \ {Max(s)}], Max(s)>>]
    <3>1. CASE k \in s
      <4>1. Max(s) = k
        <5>1. k \in Nat /\ Max(s) \in 1..k /\ k <= Max(s)
          BY <3>1, LastOfPositions
        <5> QED
          BY <5>1
      <4>2. h[s \ {k}] = g[s \ {k}]
        OBVIOUS
      <4> HIDE DEF Fold
      <4> QED
        BY <3>1, <4>1, <4>2
    <3>2. CASE k \notin s /\ s # {}
      <4>1. k - 1 \in Nat /\ s \in SUBSET (1..(k - 1))
        BY <2>2, <3>2
      <4>2. Max(s) \in s
        BY <3>2, <4>1, LastOfPositions
      <4>3. h[s] = g[s] /\ h[s \ {Max(s)}] = g[s \ {Max(s)}]
        BY <3>2
      <4> QED
        BY <2>1, <3>2, <4>1, <4>3
    <3>3. CASE s = {}
      <4>1. k \notin s /\ h[s] = g[s] /\ s \in SUBSET (1..(k - 1))
        BY <3>3
      <4> QED
        BY <2>1, <3>3, <4>1
    <3> QED
      BY <3>1, <3>2, <3>3
  <2>5. Fold(k, h)
    BY <2>4
  <2> HIDE DEF Fold, h
  <2> QED
    BY <2>3, <2>5
<1>3. \A k \in 0..n : k \in G
  <2> HIDE DEF G
  <2> QED
    BY <1>1, <1>2, AllTheWay
<1>4. n \in 0..n
  OBVIOUS
<1>5. \E g \in [SUBSET (1..n) -> S] : Fold(n, g)
  BY <1>3, <1>4
<1> QED
  BY <1>5 DEF HasFold

(***************************************************************************)
(* Orders.                                                                 *)
(***************************************************************************)
\* The elements of a finite set that a total order puts upto each of them: an
\* enumeration by their number has every element, in the order.
LEMMA RanksOfOrder ==
  ASSUME NEW K, IsFiniteSet(K), NEW upto \in [K -> SUBSET K],
         \A i \in K : i \in upto[i],
         \A i, j \in K : i # j => (i \in upto[j] <=> j \notin upto[i]),
         \A i, j, m \in K : i \in upto[j] /\ j \in upto[m] => i \in upto[m]
  PROVE  /\ Cardinality(K) \in Nat
         /\ \A k \in 1..Cardinality(K) : \E i \in K : Cardinality(upto[i]) = k
         /\ \A order \in [1..Cardinality(K) -> K] :
               (\A k \in 1..Cardinality(K) : Cardinality(upto[order[k]]) = k) =>
                  /\ \A k, m \in 1..Cardinality(K) :
                        k < m => order[k] # order[m] /\ order[k] \in upto[order[m]]
                  /\ \A i \in K : \E k \in 1..Cardinality(K) : order[k] = i
<1> DEFINE n == Cardinality(K)
           rank == [i \in K |-> Cardinality(upto[i])]
<1>1. n \in Nat
  BY FS_CardinalityType
<1>2. \A i \in K : /\ IsFiniteSet(upto[i]) /\ Cardinality(upto[i]) \in Nat
                   /\ Cardinality(upto[i]) <= n
  <2> TAKE i \in K
  <2> DEFINE u == upto[i]
  <2>1. u \in SUBSET K
    OBVIOUS
  <2> HIDE DEF u
  <2>2. IsFiniteSet(u) /\ Cardinality(u) \in Nat /\ Cardinality(u) <= n
    BY <2>1, FS_Subset, FS_CardinalityType
  <2> QED
    BY <2>2 DEF u
<1>3. \A i \in K : Cardinality(upto[i]) # 0
  BY <1>2, FS_EmptySet
<1>4. ASSUME NEW i \in K, NEW j \in K, i # j, i \in upto[j]
      PROVE  Cardinality(upto[i]) < Cardinality(upto[j])
  <2> DEFINE A == upto[i]
             B == upto[j]
  <2>1. A \in SUBSET B /\ A # B
    BY <1>4
  <2>2. IsFiniteSet(B) /\ Cardinality(A) \in Nat /\ Cardinality(B) \in Nat
    BY <1>2
  <2> HIDE DEF A, B
  <2>3. Cardinality(A) # Cardinality(B) /\ Cardinality(A) <= Cardinality(B)
    BY <2>1, <2>2, FS_Subset
  <2>4. Cardinality(A) < Cardinality(B)
    BY <2>2, <2>3
  <2> QED
    BY <2>4 DEF A, B
<1>5. \A i, j \in K : rank[i] = rank[j] => i = j
  <2> SUFFICES ASSUME NEW i \in K, NEW j \in K, i # j PROVE rank[i] # rank[j]
    OBVIOUS
  <2>1. i \in upto[j] \/ j \in upto[i]
    OBVIOUS
  <2>2. rank[i] < rank[j] \/ rank[j] < rank[i]
    BY <1>4, <2>1
  <2>3. rank[i] \in Nat /\ rank[j] \in Nat
    BY <1>2
  <2> HIDE DEF rank
  <2> QED
    BY <2>2, <2>3
<1>6. rank \in [K -> 1..n]
  BY <1>1, <1>2, <1>3
<1>7. \A k \in 1..n : \E i \in K : rank[i] = k
  <2>1. rank \in Injection(K, 1..n)
    BY <1>5, <1>6 DEF Injection, IsInjective
  <2>2. IsFiniteSet(1..n) /\ Cardinality(1..n) = n
    BY <1>1, FS_Interval
  <2>3. Cardinality(K) = Cardinality(1..n)
    BY <2>2
  <2> HIDE DEF rank, n
  <2>4. rank \in Surjection(K, 1..n)
    BY <2>1, <2>2, <2>3, FS_Injection
  <2> QED
    BY <2>4 DEF Surjection
<1>8. ASSUME NEW order \in [1..n -> K], \A k \in 1..n : Cardinality(upto[order[k]]) = k
      PROVE  /\ \A k, m \in 1..n :
                   k < m => order[k] # order[m] /\ order[k] \in upto[order[m]]
             /\ \A i \in K : \E k \in 1..n : order[k] = i
  <2>1. ASSUME NEW k \in 1..n, NEW m \in 1..n, k < m
        PROVE  order[k] # order[m] /\ order[k] \in upto[order[m]]
    <3>1. order[k] \in K /\ order[m] \in K /\ k \in Nat /\ m \in Nat /\ ~(m < k) /\ m # k
      BY <1>1, <2>1
    <3>2. order[k] # order[m]
      BY <1>8, <3>1
    <3>3. order[m] \notin upto[order[k]]
      BY <1>4, <1>8, <3>1, <3>2
    <3> QED
      BY <3>1, <3>2, <3>3
  <2>2. ASSUME NEW i \in K PROVE \E k \in 1..n : order[k] = i
    <3>1. rank[i] \in 1..n /\ order[rank[i]] \in K
      BY <1>6
    <3>2. rank[order[rank[i]]] = rank[i]
      BY <1>8, <3>1
    <3> QED
      BY <1>5, <3>1, <3>2
  <2> QED
    BY <2>1, <2>2
<1> QED
  BY <1>1, <1>7, <1>8

(***************************************************************************)
(* Events, and the time of a list.                                         *)
(***************************************************************************)
Events(D) == {v \in [s : Int, e : Int, d : D] : v.s <= v.e}

Ordered(l) == \A k, n \in DOMAIN l : k < n => l[k].s <= l[n].s

\* l has the elements of m, each as often.
Rearranged(l, m) ==
    \E p \in [DOMAIN l -> DOMAIN m] :
       /\ \A k, n \in DOMAIN l : k # n => p[k] # p[n]
       /\ \A i \in DOMAIN m : \E k \in DOMAIN l : p[k] = i
       /\ \A k \in DOMAIN l : l[k] = m[p[k]]

LEMMA EventOf ==
  ASSUME NEW D, NEW v \in Events(D)
  PROVE  /\ v.s \in Int /\ v.e \in Int /\ v.d \in D /\ v.s <= v.e
         /\ v = [s |-> v.s, e |-> v.e, d |-> v.d]
         /\ \A x : x \in Span(v) <=> x \in Int /\ v.s <= x /\ x < v.e
<1>1. v \in [s : Int, e : Int, d : D] /\ v.s <= v.e
  BY DEF Events
<1>2. v.s \in Int /\ v.e \in Int /\ v.d \in D
  BY <1>1
<1>3. v = [s |-> v.s, e |-> v.e, d |-> v.d]
  BY <1>1
<1>4. \A x : x \in Span(v) <=> x \in Int /\ v.s <= x /\ x < v.e
  BY <1>2 DEF Span
<1> QED
  BY <1>1, <1>2, <1>3, <1>4

LEMMA EventWith ==
  ASSUME NEW v, v = [s |-> v.s, e |-> v.e, d |-> v.d], NEW x
  PROVE  /\ [v EXCEPT !.s = x] = [s |-> x, e |-> v.e, d |-> v.d]
         /\ [v EXCEPT !.e = x] = [s |-> v.s, e |-> x, d |-> v.d]
         /\ [v EXCEPT !.d = x] = [s |-> v.s, e |-> v.e, d |-> x]
<1> DEFINE a == v.s
           b == v.e
           c == v.d
<1>1. v = [s |-> a, e |-> b, d |-> c]
  OBVIOUS
<1> HIDE DEF a, b, c
<1>2. /\ [v EXCEPT !.s = x] = [s |-> x, e |-> b, d |-> c]
      /\ [v EXCEPT !.e = x] = [s |-> a, e |-> x, d |-> c]
      /\ [v EXCEPT !.d = x] = [s |-> a, e |-> b, d |-> x]
  BY <1>1
<1> QED
  BY <1>2 DEF a, b, c

LEMMA IsEvent ==
  ASSUME NEW D, NEW s \in Int, NEW e \in Int, NEW d \in D, s <= e
  PROVE  [s |-> s, e |-> e, d |-> d] \in Events(D)
BY DEF Events

LEMMA TimedHas ==
  ASSUME NEW l, NEW x
  PROVE  x \in Timed(l) <=> \E k \in DOMAIN l : /\ x = <<x[1], x[2]>> /\ x[1] = l[k].d
                                                /\ x[2] \in Span(l[k])
BY DEF Timed

LEMMA TimeOfHas ==
  ASSUME NEW l, NEW x
  PROVE  x \in TimeOf(l) <=> \E k \in DOMAIN l : x \in Span(l[k])
BY DEF TimeOf

LEMMA RearrangedKeeps ==
  ASSUME NEW l, NEW m, Rearranged(l, m)
  PROVE  /\ Timed(l) = Timed(m) /\ TimeOf(l) = TimeOf(m)
         /\ Disjoint(m) => Disjoint(l)
<1>1. PICK p \in [DOMAIN l -> DOMAIN m] :
         /\ \A k, n \in DOMAIN l : k # n => p[k] # p[n]
         /\ \A i \in DOMAIN m : \E k \in DOMAIN l : p[k] = i
         /\ \A k \in DOMAIN l : l[k] = m[p[k]]
  BY DEF Rearranged
<1>2. \A x : x \in Timed(l) <=> x \in Timed(m)
  BY <1>1, TimedHas
<1>3. \A x : x \in TimeOf(l) <=> x \in TimeOf(m)
  BY <1>1, TimeOfHas
<1>4. Disjoint(m) => Disjoint(l)
  BY <1>1 DEF Disjoint
<1> QED
  BY <1>2, <1>3, <1>4

\* sort_by_key.
LEMMA SortKeeps ==
  ASSUME NEW D, NEW l \in Seq(Events(D))
  PROVE  /\ SortByTimestamp(l) \in Seq(Events(D)) /\ Len(SortByTimestamp(l)) = Len(l)
         /\ Ordered(SortByTimestamp(l)) /\ Rearranged(SortByTimestamp(l), l)
<1> DEFINE K == DOMAIN l
           N == Len(l)
           upto == [i \in K |-> {j \in K : j = i \/ l[j].s < l[i].s \/ (l[j].s = l[i].s /\ j < i)}]
           order == [k \in 1..Cardinality(K) |->
                        CHOOSE i \in K : Cardinality({j \in K : j = i \/ (l[j].s < l[i].s \/ (l[j].s = l[i].s /\ j < i))}) = k]
           t == [k \in DOMAIN l |-> l[order[k]]]
<1>1. SortByTimestamp(l) = t
  BY DEF SortByTimestamp, InOrder
<1>2. /\ N \in Nat /\ K = 1..N /\ IsFiniteSet(K) /\ Cardinality(K) = N
      /\ \A i \in K : l[i] \in Events(D) /\ l[i].s \in Int /\ i \in Nat
  <2>1. N \in Nat /\ K = 1..N
    OBVIOUS
  <2>2. IsFiniteSet(1..N) /\ Cardinality(1..N) = N
    BY <2>1, FS_Interval
  <2>3. \A i \in K : l[i] \in Events(D)
    OBVIOUS
  <2>4. \A i \in K : l[i].s \in Int
    BY <2>3, EventOf
  <2> QED
    BY <2>1, <2>2, <2>3, <2>4
<1> HIDE DEF K, N
<1>3. /\ upto \in [K -> SUBSET K]
      /\ \A i \in K : i \in upto[i]
      /\ \A i, j \in K : i # j => (i \in upto[j] <=> j \notin upto[i])
      /\ \A i, j, m \in K : i \in upto[j] /\ j \in upto[m] => i \in upto[m]
  <2>1. upto \in [K -> SUBSET K] /\ \A i \in K : i \in upto[i]
    OBVIOUS
  <2>2. \A i, j \in K : i # j => (i \in upto[j] <=> j \notin upto[i])
    BY <1>2
  <2>3. \A i, j, m \in K : i \in upto[j] /\ j \in upto[m] => i \in upto[m]
    BY <1>2
  <2> QED
    BY <2>1, <2>2, <2>3
<1>4. \A i \in K : upto[i] = {j \in K : j = i \/ (l[j].s < l[i].s \/ (l[j].s = l[i].s /\ j < i))}
  OBVIOUS
<1>5. \A i, j \in K : i \in upto[j] => l[i].s <= l[j].s
  BY <1>2
<1> HIDE DEF upto
<1>6. /\ \A k \in 1..N : \E i \in K : Cardinality(upto[i]) = k
      /\ \A o \in [1..N -> K] :
               (\A k \in 1..N : Cardinality(upto[o[k]]) = k) =>
                  /\ \A k, m \in 1..N :
                        k < m => o[k] # o[m] /\ o[k] \in upto[o[m]]
                  /\ \A i \in K : \E k \in 1..N : o[k] = i
  <2>1. /\ \A k \in 1..Cardinality(K) : \E i \in K : Cardinality(upto[i]) = k
        /\ \A o \in [1..Cardinality(K) -> K] :
              (\A k \in 1..Cardinality(K) : Cardinality(upto[o[k]]) = k) =>
                  /\ \A k, m \in 1..Cardinality(K) :
                        k < m => o[k] # o[m] /\ o[k] \in upto[o[m]]
                  /\ \A i \in K : \E k \in 1..Cardinality(K) : o[k] = i
    <3>1. IsFiniteSet(K)
      BY <1>2
    <3> HIDE DEF order, t
    <3> QED
      BY <1>3, <3>1, RanksOfOrder
  <2>2. Cardinality(K) = N
    BY <1>2
  <2> QED
    BY <2>1, <2>2
<1>7. ASSUME NEW k \in 1..N PROVE order[k] \in K /\ Cardinality(upto[order[k]]) = k
  <2>1. PICK i \in K : Cardinality(upto[i]) = k
    BY <1>6
  <2>2. Cardinality({j \in K : j = i \/ (l[j].s < l[i].s \/ (l[j].s = l[i].s /\ j < i))}) = k
    BY <1>4, <2>1
  <2>3. k \in 1..Cardinality(K)
    BY <1>2
  <2>4. /\ order[k] \in K
        /\ Cardinality({j \in K : j = order[k] \/ (l[j].s < l[order[k]].s \/ (l[j].s = l[order[k]].s /\ j < order[k]))}) = k
    BY <2>2, <2>3
  <2> HIDE DEF order
  <2> QED
    BY <1>4, <2>4
<1>8. order \in [1..N -> K]
  BY <1>2, <1>7
<1> HIDE DEF order
<1>9. /\ \A k, m \in 1..N : k < m => order[k] # order[m] /\ order[k] \in upto[order[m]]
      /\ \A i \in K : \E k \in 1..N : order[k] = i
  BY <1>6, <1>7, <1>8
<1>10. t \in [1..N -> Events(D)] /\ \A k \in 1..N : t[k] = l[order[k]]
  BY <1>2, <1>8 DEF K
<1> HIDE DEF t
<1>11. t \in Seq(Events(D)) /\ Len(t) = N /\ DOMAIN t = 1..N
  BY <1>2, <1>10, SegmentIsSeq
<1>12. Ordered(t)
  BY <1>5, <1>8, <1>9, <1>10, <1>11 DEF Ordered
<1>13. Rearranged(t, l)
  <2>1. \A k, m \in 1..N : k # m => order[k] # order[m]
    <3>1. \A k, m \in 1..N : k # m => k < m \/ m < k
      BY <1>2
    <3> QED
      BY <1>9, <3>1
  <2>2. order \in [DOMAIN t -> DOMAIN l]
    BY <1>2, <1>8, <1>11 DEF K
  <2>3. \A i \in DOMAIN l : \E k \in DOMAIN t : order[k] = i
    BY <1>9, <1>11 DEF K
  <2>4. /\ \A k, m \in DOMAIN t : k # m => order[k] # order[m]
        /\ \A k \in DOMAIN t : t[k] = l[order[k]]
    BY <1>10, <1>11, <2>1
  <2> HIDE DEF t, order
  <2> QED
    BY <2>2, <2>3, <2>4 DEF Rearranged
<1> QED
  BY <1>1, <1>11, <1>12, <1>13 DEF N

(***************************************************************************)
(* flood.                                                                  *)
(***************************************************************************)
LEMMA Half ==
  ASSUME NEW g \in Nat
  PROVE  g \div 2 \in Nat /\ 2 * (g \div 2) <= g /\ g <= 2 * (g \div 2) + 1
OBVIOUS

FloodState(D) == [out : Seq(Events(D)), cur : Events(D)]

\* A unit of time of an event of t, or of a short gap of t at a neighbour of the
\* data.
Explained(t, pulse, d, x) ==
    \/ \E j \in DOMAIN t : d = t[j].d /\ x \in Span(t[j])
    \/ \E i, m \in DOMAIN t : /\ t[i].e <= x /\ x < t[m].s /\ t[m].s - t[i].e < pulse
                              /\ d \in {t[i].d, t[m].d}

GapClosed(p, q, pulse) == q.s - p.e <= 1 \/ q.s - p.e >= pulse

Covers(st, d, x) == \/ \E i \in DOMAIN st.out : d = st.out[i].d /\ x \in Span(st.out[i])
                    \/ d = st.cur.d /\ x \in Span(st.cur)

\* What has been done after the first m events of t.
Flooded(t, pulse, m, st) ==
    /\ st.cur.s <= t[m].s
    /\ \E j \in 1..m : st.cur.e = t[j].e /\ st.cur.d = t[j].d
    /\ \A j \in 1..m : \A x \in Span(t[j]) : Covers(st, t[j].d, x)
    /\ \A i \in DOMAIN st.out : \A x \in Span(st.out[i]) : Explained(t, pulse, st.out[i].d, x)
    /\ \A x \in Span(st.cur) : Explained(t, pulse, st.cur.d, x)
    /\ \A i \in 1..(Len(st.out) - 1) : GapClosed(st.out[i], st.out[i + 1], pulse)
    /\ st.out # <<>> => GapClosed(st.out[Len(st.out)], st.cur, pulse)

\* How the event at hand and the next one change: they become one, or the first
\* is put out.
JoinsAt(st, next, pulse, c) ==
    /\ Meet(st, next, pulse) = [out |-> st.out, cur |-> c]
    /\ c.d = st.cur.d /\ c.d = next.d
    /\ c.s = Earlier(st.cur.s, next.s) /\ c.e = Later(st.cur.e, next.e)
    /\ next.s - st.cur.e < Later(pulse, 0)

PartsAt(st, next, pulse, p, q) ==
    /\ Meet(st, next, pulse) = [out |-> Append(st.out, p), cur |-> q]
    /\ p.s = st.cur.s /\ p.d = st.cur.d /\ q.e = next.e /\ q.d = next.d
    /\ \/ p.e = st.cur.e /\ q.s = next.s
          /\ (next.s - st.cur.e < 0 \/ next.s - st.cur.e >= pulse)
       \/ /\ next.s - st.cur.e \in Nat /\ next.s - st.cur.e < pulse
          /\ st.cur.e <= p.e /\ p.e <= q.s /\ q.s <= next.s /\ q.s - p.e <= 1

LEMMA MeetCases ==
  ASSUME NEW D, NEW pulse \in Int, NEW st \in FloodState(D), NEW next \in Events(D)
  PROVE  /\ Meet(st, next, pulse) \in FloodState(D)
         /\ \/ \E c \in Events(D) : JoinsAt(st, next, pulse, c)
            \/ \E p, q \in Events(D) : PartsAt(st, next, pulse, p, q)
<1> DEFINE cur == st.cur
           gap == next.s - cur.e
           h == gap \div 2
<1>1. /\ st.out \in Seq(Events(D)) /\ cur \in Events(D)
      /\ st = [out |-> st.out, cur |-> st.cur]
  BY DEF FloodState
<1>2. /\ cur.s \in Int /\ cur.e \in Int /\ cur.d \in D /\ cur.s <= cur.e
      /\ next.s \in Int /\ next.e \in Int /\ next.d \in D /\ next.s <= next.e
      /\ cur = [s |-> cur.s, e |-> cur.e, d |-> cur.d]
      /\ next = [s |-> next.s, e |-> next.e, d |-> next.d]
  BY <1>1, EventOf
<1> HIDE DEF cur
<1>3. CASE cur.d = next.d /\ gap < Later(pulse, 0)
  <2> DEFINE c == [s |-> Earlier(cur.s, next.s), e |-> Later(cur.e, next.e), d |-> cur.d]
  <2>1. c \in Events(D)
    BY <1>2, IsEvent DEF Earlier, Later
  <2>2. Joined(cur, next) = c
    <3> DEFINE f == Earlier(cur.s, next.s)
               mid == [cur EXCEPT !.s = f]
    <3>1. mid = [s |-> f, e |-> cur.e, d |-> cur.d]
      <4> HIDE DEF f
      <4> QED
        BY <1>2, EventWith
    <3>2. Joined(cur, next) = [mid EXCEPT !.e = Later(cur.e, next.e)]
      BY DEF Joined, Union
    <3> HIDE DEF f, mid
    <3>3. mid.s = f /\ mid.e = cur.e /\ mid.d = cur.d
      BY <3>1
    <3>4. [mid EXCEPT !.e = Later(cur.e, next.e)] = [s |-> f, e |-> Later(cur.e, next.e), d |-> cur.d]
      BY <3>1, <3>3, EventWith
    <3> QED
      BY <3>2, <3>4 DEF f
  <2>3. Meet(st, next, pulse) = [out |-> st.out, cur |-> c]
    BY <1>1, <1>3, <2>2 DEF Meet, cur
  <2>4. JoinsAt(st, next, pulse, c)
    BY <1>3, <2>3 DEF JoinsAt, cur
  <2> HIDE DEF c
  <2> QED
    BY <1>1, <2>1, <2>3, <2>4 DEF FloodState
<1>4. CASE ~(cur.d = next.d /\ gap < Later(pulse, 0)) /\ 0 <= gap /\ gap < pulse
  <2> DEFINE p == [s |-> cur.s, e |-> cur.e + h, d |-> cur.d]
             q == [s |-> next.s - h, e |-> next.e, d |-> next.d]
  <2>1. gap \in Nat /\ h \in Nat /\ 2 * h <= gap /\ gap <= 2 * h + 1
    <3>1. gap \in Nat
      BY <1>2, <1>4
    <3> HIDE DEF gap
    <3> QED
      BY <3>1, Half
  <2>2. p \in Events(D) /\ q \in Events(D)
    <3> HIDE DEF h
    <3>1. /\ cur.e + h \in Int /\ cur.s <= cur.e + h
          /\ next.s - h \in Int /\ next.s - h <= next.e
      BY <1>2, <2>1
    <3> QED
      BY <1>2, <3>1, IsEvent
  <2>3. [cur EXCEPT !.e = @ + gap \div 2] = p /\ [next EXCEPT !.s = @ - gap \div 2] = q
    BY <1>2
  <2>4. Meet(st, next, pulse) = [out |-> Append(st.out, p), cur |-> q]
    <3> HIDE DEF p, q
    <3> QED
      BY <1>4, <2>3 DEF Meet, cur
  <2>5. PartsAt(st, next, pulse, p, q)
    <3>1. /\ gap \in Nat /\ gap < pulse
          /\ cur.e <= p.e /\ p.e <= q.s /\ q.s <= next.s /\ q.s - p.e <= 1
      <4> HIDE DEF h
      <4> QED
        BY <1>2, <1>4, <2>1
    <3>2. p.s = cur.s /\ p.d = cur.d /\ q.e = next.e /\ q.d = next.d
      OBVIOUS
    <3> HIDE DEF p, q
    <3> QED
      BY <2>4, <3>1, <3>2 DEF PartsAt, cur
  <2> HIDE DEF p, q
  <2>6. Append(st.out, p) \in Seq(Events(D))
    BY <1>1, <2>2
  <2> QED
    BY <2>2, <2>4, <2>5, <2>6 DEF FloodState
<1>5. CASE ~(cur.d = next.d /\ gap < Later(pulse, 0)) /\ ~(0 <= gap /\ gap < pulse)
  <2>1. Meet(st, next, pulse) = [out |-> Append(st.out, cur), cur |-> next]
    BY <1>5 DEF Meet, cur
  <2>2. PartsAt(st, next, pulse, cur, next)
    <3>1. gap < 0 \/ gap >= pulse
      BY <1>2, <1>5
    <3> QED
      BY <2>1, <3>1 DEF PartsAt, cur
  <2>3. Append(st.out, cur) \in Seq(Events(D)) /\ cur \in Events(D)
    BY <1>1 DEF cur
  <2> QED
    BY <2>1, <2>2, <2>3 DEF FloodState
<1> QED
  BY <1>3, <1>4, <1>5

LEMMA MeetFloods ==
  ASSUME NEW D, NEW pulse \in Int, NEW t \in Seq(Events(D)), Ordered(t),
         NEW m \in 1..(Len(t) - 1), NEW st \in FloodState(D), Flooded(t, pulse, m, st)
  PROVE  Flooded(t, pulse, m + 1, Meet(st, t[m + 1], pulse))
<1> DEFINE next == t[m + 1]
           cur == st.cur
           new == Meet(st, next, pulse)
<1>1. /\ Len(t) \in Nat /\ m \in Nat /\ m + 1 \in DOMAIN t /\ m \in DOMAIN t
      /\ \A j \in 1..m : j \in DOMAIN t
      /\ \A j \in 1..(m + 1) : j \in DOMAIN t /\ (j \in 1..m \/ j = m + 1)
  OBVIOUS
<1>2. next \in Events(D) /\ cur \in Events(D) /\ st.out \in Seq(Events(D))
  BY <1>1 DEF FloodState
<1>3. /\ cur.s \in Int /\ cur.e \in Int /\ cur.d \in D /\ cur.s <= cur.e
      /\ next.s \in Int /\ next.e \in Int /\ next.d \in D /\ next.s <= next.e
      /\ \A x : x \in Span(cur) <=> x \in Int /\ cur.s <= x /\ x < cur.e
      /\ \A x : x \in Span(next) <=> x \in Int /\ next.s <= x /\ x < next.e
  BY <1>2, EventOf
<1>4. cur.s <= next.s
  <2>1. t[m].s <= t[m + 1].s /\ t[m].s \in Int
    <3>1. t[m] \in Events(D) /\ m < m + 1
      BY <1>1
    <3> QED
      BY <1>1, <3>1, EventOf DEF Ordered
  <2> HIDE DEF cur, next
  <2> QED
    BY <1>3, <2>1 DEF Flooded, cur, next
<1>5. PICK j0 \in 1..m : cur.e = t[j0].e /\ cur.d = t[j0].d
  BY DEF Flooded
<1>6. \A x : next.d \in {t[j0].d, next.d} /\ cur.d \in {t[j0].d, next.d}
  BY <1>5
<1>7. \A d, x : /\ d \in {cur.d, next.d} /\ cur.e <= x /\ x < next.s /\ next.s - cur.e < pulse
                => Explained(t, pulse, d, x)
  <2>1. j0 \in DOMAIN t /\ m + 1 \in DOMAIN t
    BY <1>1
  <2> QED
    BY <1>5, <2>1 DEF Explained
<1>8. \A x \in Span(next) : Explained(t, pulse, next.d, x)
  BY <1>1 DEF Explained
<1>9. /\ \A j \in 1..m : \A x \in Span(t[j]) : Covers(st, t[j].d, x)
      /\ \A i \in DOMAIN st.out : \A x \in Span(st.out[i]) : Explained(t, pulse, st.out[i].d, x)
      /\ \A x \in Span(cur) : Explained(t, pulse, cur.d, x)
      /\ \A i \in 1..(Len(st.out) - 1) : GapClosed(st.out[i], st.out[i + 1], pulse)
      /\ st.out # <<>> => GapClosed(st.out[Len(st.out)], cur, pulse)
  BY DEF Flooded
<1>10. ASSUME NEW c \in Events(D), JoinsAt(st, next, pulse, c)
       PROVE  Flooded(t, pulse, m + 1, new)
  <2>1. /\ new.out = st.out /\ new.cur = c /\ c.d = cur.d /\ c.d = next.d
        /\ c.s = cur.s /\ c.e = Later(cur.e, next.e)
        /\ next.s - cur.e < Later(pulse, 0)
    <3>1. Earlier(cur.s, next.s) = cur.s
      BY <1>3, <1>4 DEF Earlier
    <3> QED
      BY <1>10, <3>1 DEF JoinsAt
  <2>2. \A x : x \in Span(c) <=> x \in Int /\ c.s <= x /\ x < c.e
    BY EventOf
  <2> HIDE DEF next, cur, new
  <2>3. c.e \in Int /\ cur.e <= c.e /\ next.e <= c.e /\ (c.e = cur.e \/ c.e = next.e)
    BY <1>3, <2>1 DEF Later
  <2>4. Span(cur) \subseteq Span(c) /\ Span(next) \subseteq Span(c)
    BY <1>3, <1>4, <2>1, <2>2, <2>3
  <2>5. \A x \in Span(c) : Explained(t, pulse, c.d, x)
    <3> TAKE x \in Span(c)
    <3>1. x \in Int /\ cur.s <= x /\ (x < cur.e \/ x < next.e)
      BY <1>3, <2>1, <2>2, <2>3
    <3>2. x \in Span(cur) \/ x \in Span(next) \/ (cur.e <= x /\ x < next.s)
      BY <1>3, <3>1
    <3>3. ASSUME cur.e <= x, x < next.s PROVE Explained(t, pulse, c.d, x)
      <4>1. next.s - cur.e < pulse
        BY <1>3, <2>1, <3>1, <3>3 DEF Later
      <4> QED
        BY <1>7, <2>1, <3>3, <4>1
    <3> QED
      BY <1>8, <1>9, <2>1, <3>2, <3>3
  <2>6. \A j \in 1..(m + 1) : \A x \in Span(t[j]) : Covers(new, t[j].d, x)
    <3>1. \A j \in 1..m : \A x \in Span(t[j]) : Covers(new, t[j].d, x)
      BY <1>9, <2>1, <2>4 DEF Covers, cur
    <3>2. \A x \in Span(next) : Covers(new, next.d, x)
      BY <2>1, <2>4 DEF Covers
    <3> QED
      BY <1>1, <3>1, <3>2 DEF next
  <2>7. \E j \in 1..(m + 1) : c.e = t[j].e /\ c.d = t[j].d
    <3>1. j0 \in 1..(m + 1) /\ m + 1 \in 1..(m + 1)
      BY <1>1
    <3> QED
      BY <1>5, <2>1, <2>3, <3>1 DEF next
  <2>8. st.out # <<>> => GapClosed(st.out[Len(st.out)], c, pulse)
    BY <1>9, <2>1 DEF GapClosed
  <2>9. c.s <= t[m + 1].s
    BY <1>4, <2>1 DEF next
  <2> QED
    BY <1>9, <2>1, <2>5, <2>6, <2>7, <2>8, <2>9 DEF Flooded
<1>11. ASSUME NEW p \in Events(D), NEW q \in Events(D), PartsAt(st, next, pulse, p, q)
       PROVE  Flooded(t, pulse, m + 1, new)
  <2>1. /\ new.out = Append(st.out, p) /\ new.cur = q
        /\ p.s = cur.s /\ p.d = cur.d /\ q.e = next.e /\ q.d = next.d
        /\ \/ p.e = cur.e /\ q.s = next.s /\ (next.s - cur.e < 0 \/ next.s - cur.e >= pulse)
           \/ /\ next.s - cur.e \in Nat /\ next.s - cur.e < pulse
              /\ cur.e <= p.e /\ p.e <= q.s /\ q.s <= next.s /\ q.s - p.e <= 1
    BY <1>11 DEF PartsAt
  <2>2. /\ p.e \in Int /\ q.s \in Int
        /\ \A x : x \in Span(p) <=> x \in Int /\ p.s <= x /\ x < p.e
        /\ \A x : x \in Span(q) <=> x \in Int /\ q.s <= x /\ x < q.e
    BY EventOf
  <2> DEFINE n == Len(st.out)
             out == Append(st.out, p)
  <2>3. /\ n \in Nat /\ DOMAIN out = 1..(n + 1) /\ Len(out) = n + 1 /\ DOMAIN st.out = 1..n
        /\ out[n + 1] = p /\ \A i \in 1..n : out[i] = st.out[i]
        /\ out # <<>> /\ (n # 0 => st.out # <<>>)
    BY <1>2
  <2> HIDE DEF next, cur, new, n, out
  <2>4. Span(cur) \subseteq Span(p) /\ Span(next) \subseteq Span(q)
    <3>1. cur.e <= p.e /\ q.s <= next.s
      BY <1>3, <2>1
    <3> QED
      BY <1>3, <2>1, <2>2, <3>1
  <2>5. \A x \in Span(p) : Explained(t, pulse, p.d, x)
    <3> TAKE x \in Span(p)
    <3>1. x \in Span(cur) \/ (cur.e <= x /\ x < next.s /\ next.s - cur.e < pulse)
      BY <1>3, <2>1, <2>2, SMTT(20)
    <3> QED
      BY <1>7, <1>9, <2>1, <3>1
  <2>6. \A x \in Span(q) : Explained(t, pulse, q.d, x)
    <3> TAKE x \in Span(q)
    <3>1. x \in Int /\ q.s <= x /\ x < next.e
      BY <2>1, <2>2
    <3>2. x < next.s => cur.e <= x /\ next.s - cur.e < pulse
      <4>1. CASE q.s = next.s
        BY <1>3, <3>1, <4>1
      <4>2. CASE /\ next.s - cur.e \in Nat /\ next.s - cur.e < pulse
                 /\ cur.e <= p.e /\ p.e <= q.s
        BY <1>3, <2>2, <3>1, <4>2
      <4> QED
        BY <2>1, <4>1, <4>2
    <3>3. x \in Span(next) \/ (cur.e <= x /\ x < next.s /\ next.s - cur.e < pulse)
      BY <1>3, <3>1, <3>2
    <3> QED
      BY <1>7, <1>8, <2>1, <3>3
  <2>7. new.out = out
    BY <2>1 DEF out
  <2>8. \A j \in 1..(m + 1) : \A x \in Span(t[j]) : Covers(new, t[j].d, x)
    <3>1. ASSUME NEW j \in 1..m, NEW x \in Span(t[j]) PROVE Covers(new, t[j].d, x)
      <4>1. Covers(st, t[j].d, x)
        BY <1>9
      <4>2. \/ \E i \in 1..n : t[j].d = st.out[i].d /\ x \in Span(st.out[i])
            \/ t[j].d = cur.d /\ x \in Span(cur)
        BY <2>3, <4>1 DEF Covers, cur
      <4>3. \A i \in 1..n : i \in 1..(n + 1)
        BY <2>3
      <4>4. n + 1 \in 1..(n + 1)
        BY <2>3
      <4> QED
        BY <2>1, <2>3, <2>4, <2>7, <4>2, <4>3, <4>4 DEF Covers
    <3>2. \A x \in Span(next) : Covers(new, next.d, x)
      BY <2>1, <2>4 DEF Covers
    <3> QED
      BY <1>1, <3>1, <3>2 DEF next
  <2>9. \A i \in DOMAIN out : \A x \in Span(out[i]) : Explained(t, pulse, out[i].d, x)
    <3>1. \A i \in 1..(n + 1) : i \in 1..n \/ i = n + 1
      BY <2>3
    <3> QED
      BY <1>9, <2>3, <2>5, <3>1
  <2>10. \A i \in 1..(Len(out) - 1) : GapClosed(out[i], out[i + 1], pulse)
    <3> TAKE i \in 1..(Len(out) - 1)
    <3>1. i \in 1..n /\ ((i \in 1..(n - 1) /\ i + 1 \in 1..n) \/ i = n)
      BY <2>3
    <3>2. CASE i = n
      <4>1. GapClosed(st.out[n], cur, pulse)
        <5>1. n # 0
          BY <3>1, <3>2, <2>3
        <5> QED
          BY <1>9, <2>3, <5>1 DEF n
      <4>2. GapClosed(st.out[n], p, pulse)
        BY <2>1, <4>1 DEF GapClosed
      <4> QED
        BY <2>3, <3>1, <3>2, <4>2
    <3>3. CASE i \in 1..(n - 1) /\ i + 1 \in 1..n
      <4>1. GapClosed(st.out[i], st.out[i + 1], pulse)
        BY <1>9, <3>3 DEF n
      <4> QED
        BY <2>3, <3>1, <3>3, <4>1
    <3> QED
      BY <3>1, <3>2, <3>3
  <2>11. GapClosed(p, q, pulse)
    BY <1>3, <2>1, <2>2 DEF GapClosed
  <2>12. q.s <= t[m + 1].s
    BY <1>3, <2>1 DEF next
  <2>13. \E j \in 1..(m + 1) : q.e = t[j].e /\ q.d = t[j].d
    BY <1>1, <2>1, SMTT(20) DEF next
  <2> QED
    BY <2>1, <2>3, <2>6, <2>7, <2>8, <2>9, <2>10, <2>11, <2>12, <2>13 DEF Flooded
<1> QED
  BY <1>2, <1>10, <1>11, MeetCases

MeetAll(r, base, pulse) == FoldLeft(LAMBDA st, next : Meet(st, next, pulse), base, r)

FloodGoes(D, r, base, pulse) ==
    \E c \in [0..Len(r) -> FloodState(D)] :
       /\ c[0] = base
       /\ \A k \in 1..Len(r) : c[k] = Meet(c[k - 1], r[k], pulse)
       /\ MeetAll(r, base, pulse) = c[Len(r)]

\* The states flood goes through.
LEMMA FloodCourse ==
  ASSUME NEW D, NEW pulse \in Int, NEW r \in Seq(Events(D)), NEW base \in FloodState(D)
  PROVE  FloodGoes(D, r, base, pulse)
<1> DEFINE S == FloodState(D)
           n == Len(r)
           Is(f) == f = [s \in SUBSET (1..n) |->
                            IF s = {} THEN base ELSE Meet(f[s \ {Max(s)}], r[Max(s)], pulse)]
           fold == CHOOSE f : Is(f)
           F == [p \in S \X (1..n) |-> Meet(p[1], r[p[2]], pulse)]
<1>1. n \in Nat /\ DOMAIN r = 1..n /\ \A k \in 1..n : r[k] \in Events(D)
  OBVIOUS
<1>2. MeetAll(r, base, pulse)
         = (CHOOSE f : f = [s \in SUBSET DOMAIN r |->
                               IF s = {} THEN base ELSE Meet(f[s \ {Max(s)}], r[Max(s)], pulse)])[DOMAIN r]
  BY DEF MeetAll, FoldLeft, MapThenFoldSet
<1>3. MeetAll(r, base, pulse) = fold[1..n]
  BY <1>1, <1>2
<1> HIDE DEF n, S
<1>4. F \in [S \X (1..n) -> S]
  <2>1. ASSUME NEW p \in S \X (1..n) PROVE Meet(p[1], r[p[2]], pulse) \in S
    <3>1. p[1] \in FloodState(D) /\ r[p[2]] \in Events(D)
      BY <1>1 DEF S
    <3>2. Meet(p[1], r[p[2]], pulse) \in FloodState(D)
      BY <3>1, MeetCases
    <3> QED
      BY <3>2 DEF S
  <2> QED
    BY <2>1
<1>5. \A st \in S, k \in 1..n : F[<<st, k>>] = Meet(st, r[k], pulse)
  OBVIOUS
<1> HIDE DEF F
<1>6. PICK g \in [SUBSET (1..n) -> S] :
         \A s \in SUBSET (1..n) : g[s] = IF s = {} THEN base ELSE F[<<g[s \ {Max(s)}], Max(s)>>]
  <2>1. base \in S
    BY DEF S
  <2>2. HasFold(S, base, n, F)
    BY <1>1, <1>4, <2>1, FoldExists
  <2> QED
    BY <2>2 DEF HasFold
<1>7. Is(g)
  <2>1. ASSUME NEW s \in SUBSET (1..n)
        PROVE  g[s] = IF s = {} THEN base ELSE Meet(g[s \ {Max(s)}], r[Max(s)], pulse)
    <3>1. CASE s = {}
      BY <1>6, <3>1
    <3>2. CASE s # {}
      <4>1. Max(s) \in 1..n
        BY <1>1, <3>2, LastOfPositions
      <4>2. g[s \ {Max(s)}] \in S
        OBVIOUS
      <4> QED
        BY <1>5, <1>6, <3>2, <4>1, <4>2
    <3> QED
      BY <3>1, <3>2
  <2> QED
    BY <2>1
<1>8. Is(fold)
  <2> HIDE DEF Is
  <2> QED
    BY <1>7
<1>9. \A s \in SUBSET (1..n) :
         fold[s] = IF s = {} THEN base ELSE Meet(fold[s \ {Max(s)}], r[Max(s)], pulse)
  <2> HIDE DEF fold
  <2> QED
    BY <1>8
<1> HIDE DEF fold
<1> DEFINE c == [k \in 0..n |-> fold[1..k]]
<1>10. c[0] = base
  <2>1. 0 \in 0..n /\ 1..0 = {} /\ {} \in SUBSET (1..n)
    BY <1>1
  <2> QED
    BY <1>9, <2>1
<1>11. ASSUME NEW k \in 1..n PROVE c[k] = Meet(c[k - 1], r[k], pulse)
  <2>1. k \in Nat /\ k # 0 /\ k \in 0..n /\ k - 1 \in 0..n /\ 1..k \in SUBSET (1..n)
    BY <1>1
  <2>2. Max(1..k) = k /\ (1..k) \ {k} = 1..(k - 1) /\ 1..k # {}
    BY <2>1, LastOfSegment
  <2>3. fold[1..k] = Meet(fold[1..(k - 1)], r[k], pulse)
    BY <1>9, <2>1, <2>2
  <2> QED
    BY <2>1, <2>3
<1>12. \A k \in 0..n : c[k] \in S
  <2> DEFINE G == {k \in 0..n : c[k] \in S}
  <2>1. 0 \in G
    BY <1>1, <1>10 DEF S
  <2>2. ASSUME NEW k \in 1..n, k - 1 \in G PROVE k \in G
    <3>1. c[k - 1] \in FloodState(D) /\ r[k] \in Events(D) /\ k \in 0..n
      BY <1>1, <2>2 DEF S
    <3> HIDE DEF c
    <3>2. Meet(c[k - 1], r[k], pulse) \in FloodState(D)
      BY <3>1, MeetCases
    <3> QED
      BY <1>11, <3>1, <3>2 DEF S
  <2> HIDE DEF G
  <2>3. \A k \in 0..n : k \in G
    BY <1>1, <2>1, <2>2, AllTheWay
  <2> QED
    BY <2>3 DEF G
<1>13. c \in [0..n -> S] /\ c[n] = fold[1..n]
  <2>1. n \in 0..n
    BY <1>1
  <2> QED
    BY <1>12, <2>1
<1> HIDE DEF c
<1> QED
  BY <1>3, <1>10, <1>11, <1>13 DEF n, S, FloodGoes

LEMMA FloodFills ==
  ASSUME NEW D, NEW pulse \in Int, NEW l \in Seq(Events(D))
  PROVE  LET out == Flood(l, pulse)
         IN  /\ out \in Seq(Events(D))
             /\ Timed(l) \subseteq Timed(out)
             /\ \A x \in Timed(out) : Explained(l, pulse, x[1], x[2])
             /\ \A k \in 1..(Len(out) - 1) : GapClosed(out[k], out[k + 1], pulse)
<1> DEFINE out == Flood(l, pulse)
           t == SortByTimestamp(l)
           start == [out |-> <<>>, cur |-> Head(t)]
           end == MeetAll(Tail(t), start, pulse)
<1>1. CASE l = <<>>
  <2>1. out = <<>>
    BY <1>1 DEF Flood
  <2> HIDE DEF out
  <2>2. Timed(l) = {} /\ Timed(out) = {} /\ out \in Seq(Events(D)) /\ Len(out) = 0
    BY <1>1, <2>1 DEF Timed
  <2>3. 1..(Len(out) - 1) = {}
    BY <2>2
  <2> QED
    BY <2>2, <2>3 DEF out
<1>2. CASE l # <<>>
  <2>1. out = Append(end.out, end.cur)
    BY <1>2 DEF Flood, MeetAll
  <2>2. t \in Seq(Events(D)) /\ Len(t) = Len(l) /\ Ordered(t) /\ Rearranged(t, l)
    BY SortKeeps
  <2> HIDE DEF t
  <2> DEFINE N == Len(t)
             r == Tail(t)
  <2>3. N \in Nat /\ N # 0 /\ DOMAIN t = 1..N /\ t[1] = Head(t) /\ t[1] \in Events(D)
    BY <1>2, <2>2
  <2>4. r \in Seq(Events(D)) /\ Len(r) = N - 1 /\ \A k \in 1..(N - 1) : r[k] = t[k + 1]
    BY <2>2, <2>3
  <2>5. start \in FloodState(D)
    BY <2>3 DEF FloodState
  <2> HIDE DEF start, r
  <2>6. PICK c \in [0..Len(r) -> FloodState(D)] :
            /\ c[0] = start
            /\ \A k \in 1..Len(r) : c[k] = Meet(c[k - 1], r[k], pulse)
            /\ MeetAll(r, start, pulse) = c[Len(r)]
    <3>1. FloodGoes(D, r, start, pulse)
      BY <2>4, <2>5, FloodCourse
    <3> QED
      BY <3>1 DEF FloodGoes
  <2>7. end = c[N - 1]
    BY <2>4, <2>6 DEF r
  <2> HIDE DEF end
  <2>8. Flooded(t, pulse, 1, start)
    <3>1. start.out = <<>> /\ start.cur = t[1]
      BY <2>3 DEF start
    <3>2. t[1].s <= t[1].s
      BY <2>3, EventOf
    <3>3. 1..1 = {1} /\ 1 \in 1..N /\ DOMAIN start.out = {} /\ Len(start.out) = 0
      BY <2>3, <3>1
    <3>4. 1..(Len(start.out) - 1) = {}
      BY <3>3
    <3>5. \A x \in Span(t[1]) : Explained(t, pulse, t[1].d, x)
      BY <2>3, <3>3 DEF Explained
    <3>6. \A x \in Span(t[1]) : Covers(start, t[1].d, x)
      BY <3>1 DEF Covers
    <3> QED
      BY <3>1, <3>2, <3>3, <3>4, <3>5, <3>6 DEF Flooded
  <2>9. Flooded(t, pulse, N, end)
    <3> DEFINE G == {k \in 0..(N - 1) : Flooded(t, pulse, k + 1, c[k])}
    <3>1. 0 \in G
      <4>1. 0 + 1 = 1 /\ 0 \in 0..(N - 1)
        BY <2>3
      <4> QED
        BY <2>6, <2>8, <4>1
    <3>2. ASSUME NEW k \in 1..(N - 1), k - 1 \in G PROVE k \in G
      <4>1. /\ k \in Nat /\ k \in 1..(Len(t) - 1) /\ c[k - 1] \in FloodState(D)
            /\ Flooded(t, pulse, k, c[k - 1]) /\ k \in 0..(N - 1)
        BY <2>3, <2>4, <3>2, SMTT(20)
      <4>2. c[k] = Meet(c[k - 1], t[k + 1], pulse)
        BY <2>4, <2>6, <4>1
      <4> DEFINE st == c[k - 1]
      <4>3. st \in FloodState(D) /\ Flooded(t, pulse, k, st)
        BY <4>1
      <4> HIDE DEF st
      <4>4. Flooded(t, pulse, k + 1, Meet(st, t[k + 1], pulse))
        BY <2>2, <4>1, <4>3, MeetFloods
      <4> QED
        BY <4>1, <4>2, <4>4 DEF st
    <3> HIDE DEF G
    <3>3. N - 1 \in Nat /\ N - 1 \in 0..(N - 1)
      BY <2>3
    <3>4. \A k \in 0..(N - 1) : k \in G
      BY <3>1, <3>2, <3>3, AllTheWay
    <3>5. N - 1 \in G
      BY <3>3, <3>4
    <3>6. Flooded(t, pulse, N - 1 + 1, c[N - 1])
      BY <3>5 DEF G
    <3>7. N - 1 + 1 = N
      BY <2>3
    <3> QED
      BY <2>7, <3>6, <3>7
  <2>10. end \in FloodState(D)
    <3>1. N - 1 \in 0..Len(r)
      BY <2>3, <2>4
    <3> QED
      BY <2>7, <3>1
  <2> DEFINE n == Len(end.out)
  <2>11. /\ n \in Nat /\ out \in Seq(Events(D)) /\ Len(out) = n + 1 /\ DOMAIN out = 1..(n + 1)
         /\ DOMAIN end.out = 1..n /\ out[n + 1] = end.cur
         /\ \A i \in 1..n : out[i] = end.out[i]
         /\ (n # 0 => end.out # <<>>)
    <3>1. end.out \in Seq(Events(D)) /\ end.cur \in Events(D)
      BY <2>10 DEF FloodState
    <3> QED
      BY <2>1, <3>1
  <2> HIDE DEF out, n
  <2>12. \A d, x : Covers(end, d, x) => \E i \in DOMAIN out : d = out[i].d /\ x \in Span(out[i])
    <3>1. \A i \in 1..n : i \in DOMAIN out
      BY <2>11
    <3>2. n + 1 \in DOMAIN out
      BY <2>11
    <3> QED
      BY <2>11, <3>1, <3>2 DEF Covers
  <2>13. \A i \in DOMAIN out : \A x \in Span(out[i]) : Explained(t, pulse, out[i].d, x)
    <3>1. \A i \in DOMAIN out : i \in 1..n \/ i = n + 1
      BY <2>11
    <3> QED
      BY <2>9, <2>11, <3>1 DEF Flooded
  <2>14. \A k \in 1..(Len(out) - 1) : GapClosed(out[k], out[k + 1], pulse)
    <3> TAKE k \in 1..(Len(out) - 1)
    <3>1. k \in 1..n /\ ((k \in 1..(n - 1) /\ k + 1 \in 1..n) \/ (k = n /\ n # 0))
      BY <2>11
    <3>2. CASE k = n /\ n # 0
      <4>1. GapClosed(end.out[n], end.cur, pulse)
        BY <2>9, <2>11, <3>2 DEF Flooded, n
      <4> QED
        BY <2>11, <3>1, <3>2, <4>1
    <3>3. CASE k \in 1..(n - 1) /\ k + 1 \in 1..n
      <4>1. GapClosed(end.out[k], end.out[k + 1], pulse)
        BY <2>9, <3>3 DEF Flooded, n
      <4> QED
        BY <2>11, <3>1, <3>3, <4>1
    <3> QED
      BY <3>1, <3>2, <3>3
  <2>15. Timed(l) \subseteq Timed(out)
    <3>1. \A j \in 1..N : \A x \in Span(t[j]) : Covers(end, t[j].d, x)
      BY <2>9 DEF Flooded
    <3>2. \A x \in Timed(t) : x \in Timed(out)
      <4> TAKE x \in Timed(t)
      <4>1. PICK j \in 1..N : x = <<x[1], x[2]>> /\ x[1] = t[j].d /\ x[2] \in Span(t[j])
        BY <2>3, TimedHas
      <4>2. PICK i \in DOMAIN out : t[j].d = out[i].d /\ x[2] \in Span(out[i])
        BY <2>12, <3>1, <4>1
      <4> QED
        BY <4>1, <4>2, TimedHas
    <3>3. Timed(t) = Timed(l)
      BY <2>2, RearrangedKeeps
    <3> QED
      BY <3>2, <3>3
  <2>16. \A x \in Timed(out) : Explained(l, pulse, x[1], x[2])
    <3> TAKE x \in Timed(out)
    <3>1. Explained(t, pulse, x[1], x[2])
      BY <2>13, TimedHas
    <3>2. \A k \in DOMAIN t : \E i \in DOMAIN l : t[k] = l[i]
      BY <2>2 DEF Rearranged
    <3> QED
      BY <3>1, <3>2 DEF Explained
  <2> QED
    BY <2>11, <2>14, <2>15, <2>16 DEF out
<1> QED
  BY <1>1, <1>2

(***************************************************************************)
(* The time of lists that are put behind each other.                       *)
(***************************************************************************)
\* c has the elements of l and of m, and no other.
MadeOf(c, l, m) ==
    /\ \A k \in DOMAIN c : \/ \E i \in DOMAIN l : c[k] = l[i]
                           \/ \E i \in DOMAIN m : c[k] = m[i]
    /\ \A i \in DOMAIN l : \E k \in DOMAIN c : c[k] = l[i]
    /\ \A i \in DOMAIN m : \E k \in DOMAIN c : c[k] = m[i]

LEMMA TimeOfUnited ==
  ASSUME NEW c, NEW l, NEW m, MadeOf(c, l, m)
  PROVE  TimeOf(c) = TimeOf(l) \cup TimeOf(m) /\ Timed(c) = Timed(l) \cup Timed(m)
<1>1. ASSUME NEW x \in TimeOf(c) PROVE x \in TimeOf(l) \/ x \in TimeOf(m)
  BY <1>1 DEF TimeOf, MadeOf
<1>2. ASSUME NEW x, x \in TimeOf(l) \/ x \in TimeOf(m) PROVE x \in TimeOf(c)
  BY <1>2 DEF TimeOf, MadeOf
<1>3. ASSUME NEW x \in Timed(c) PROVE x \in Timed(l) \/ x \in Timed(m)
  <2>1. PICK k \in DOMAIN c : x \in {c[k].d} \X Span(c[k])
    BY DEF Timed
  <2> QED
    BY <2>1 DEF Timed, MadeOf
<1>4. ASSUME NEW x, x \in Timed(l) PROVE x \in Timed(c)
  <2>1. PICK i \in DOMAIN l : x \in {l[i].d} \X Span(l[i])
    BY <1>4 DEF Timed
  <2> QED
    BY <2>1 DEF Timed, MadeOf
<1>5. ASSUME NEW x, x \in Timed(m) PROVE x \in Timed(c)
  <2>1. PICK i \in DOMAIN m : x \in {m[i].d} \X Span(m[i])
    BY <1>5 DEF Timed
  <2> QED
    BY <2>1 DEF Timed, MadeOf
<1> QED
  BY <1>1, <1>2, <1>3, <1>4, <1>5

LEMMA TimeOfConcat ==
  ASSUME NEW S, NEW l \in Seq(S), NEW m \in Seq(S)
  PROVE  /\ l \o m \in Seq(S)
         /\ TimeOf(l \o m) = TimeOf(l) \cup TimeOf(m)
         /\ Timed(l \o m) = Timed(l) \cup Timed(m)
         /\ Disjoint(l \o m) <=> /\ Disjoint(l) /\ Disjoint(m)
                                 /\ TimeOf(l) \cap TimeOf(m) = {}
<1> DEFINE a == Len(l)
           b == Len(m)
           c == l \o m
<1>1. /\ a \in Nat /\ b \in Nat /\ DOMAIN l = 1..a /\ DOMAIN m = 1..b
      /\ c \in Seq(S) /\ DOMAIN c = 1..(a + b)
      /\ \A k \in 1..a : c[k] = l[k]
      /\ \A k \in 1..b : c[a + k] = m[k]
  OBVIOUS
<1> HIDE DEF a, b, c
<1>2. /\ \A k \in 1..a : k \in DOMAIN c
      /\ \A k \in 1..b : a + k \in DOMAIN c
      /\ \A k \in DOMAIN c : k \in 1..a \/ \E n \in 1..b : k = a + n
  <2>1. \A k \in 1..(a + b) : k \in 1..a \/ (k - a \in 1..b /\ k = a + (k - a))
    BY <1>1
  <2> QED
    BY <1>1, <2>1
<1>3. /\ \A k \in DOMAIN c : \/ \E i \in DOMAIN l : c[k] = l[i]
                            \/ \E i \in DOMAIN m : c[k] = m[i]
      /\ \A i \in DOMAIN l : \E k \in DOMAIN c : c[k] = l[i]
      /\ \A i \in DOMAIN m : \E k \in DOMAIN c : c[k] = m[i]
  BY <1>1, <1>2
<1>4. TimeOf(c) = TimeOf(l) \cup TimeOf(m) /\ Timed(c) = Timed(l) \cup Timed(m)
  <2>1. MadeOf(c, l, m)
    BY <1>3 DEF MadeOf
  <2> QED
    BY <2>1, TimeOfUnited
<1>5. ASSUME Disjoint(c)
      PROVE  Disjoint(l) /\ Disjoint(m) /\ TimeOf(l) \cap TimeOf(m) = {}
  <2>1. Disjoint(l)
    BY <1>1, <1>2, <1>5 DEF Disjoint
  <2>2. Disjoint(m)
    <3> SUFFICES ASSUME NEW k \in 1..b, NEW n \in 1..b, k # n
                 PROVE  Span(m[k]) \cap Span(m[n]) = {}
      BY <1>1 DEF Disjoint
    <3>1. a + k # a + n /\ a + k \in DOMAIN c /\ a + n \in DOMAIN c
      BY <1>1, <1>2
    <3>2. c[a + k] = m[k] /\ c[a + n] = m[n]
      BY <1>1
    <3> QED
      BY <1>5, <3>1, <3>2 DEF Disjoint
  <2>3. ASSUME NEW x \in TimeOf(l), x \in TimeOf(m) PROVE FALSE
    <3>1. PICK k \in 1..a : x \in Span(l[k])
      BY <1>1, TimeOfHas
    <3>2. PICK n \in 1..b : x \in Span(m[n])
      BY <1>1, <2>3, TimeOfHas
    <3>3. k # a + n
      BY <1>1
    <3> QED
      BY <1>1, <1>2, <1>5, <3>1, <3>2, <3>3 DEF Disjoint
  <2> QED
    BY <2>1, <2>2, <2>3
<1>6. ASSUME Disjoint(l), Disjoint(m), TimeOf(l) \cap TimeOf(m) = {}
      PROVE  Disjoint(c)
  <2> SUFFICES ASSUME NEW k \in DOMAIN c, NEW n \in DOMAIN c, k # n, NEW x, x \in Span(c[k]), x \in Span(c[n])
               PROVE  FALSE
    BY DEF Disjoint
  <2>1. ASSUME NEW i \in 1..a, x \in Span(l[i]) PROVE x \in TimeOf(l)
    BY <1>1, <2>1, TimeOfHas
  <2>2. ASSUME NEW i \in 1..b, x \in Span(m[i]) PROVE x \in TimeOf(m)
    BY <1>1, <2>2, TimeOfHas
  <2>3. CASE k \in 1..a /\ n \in 1..a
    BY <1>1, <1>6, <2>3 DEF Disjoint
  <2>4. CASE (\E i \in 1..b : k = a + i) /\ (\E i \in 1..b : n = a + i)
    <3>1. PICK i \in 1..b, j \in 1..b : k = a + i /\ n = a + j
      BY <2>4
    <3>2. i # j /\ c[k] = m[i] /\ c[n] = m[j]
      BY <1>1, <3>1
    <3> QED
      BY <1>1, <1>6, <3>1, <3>2 DEF Disjoint
  <2>5. CASE k \in 1..a /\ \E i \in 1..b : n = a + i
    BY <1>1, <1>6, <2>1, <2>2, <2>5
  <2>6. CASE n \in 1..a /\ \E i \in 1..b : k = a + i
    BY <1>1, <1>6, <2>1, <2>2, <2>6
  <2> QED
    BY <1>2, <2>3, <2>4, <2>5, <2>6
<1> QED
  BY <1>1, <1>3, <1>4, <1>5, <1>6 DEF c

LEMMA TimeOfOne ==
  ASSUME NEW v
  PROVE  TimeOf(<<v>>) = Span(v) /\ Timed(<<v>>) = {v.d} \X Span(v) /\ Disjoint(<<v>>)
<1>1. DOMAIN <<v>> = {1} /\ <<v>>[1] = v
  OBVIOUS
<1>2. \A x : x \in TimeOf(<<v>>) <=> x \in Span(v)
  BY <1>1, TimeOfHas
<1>3. \A x : x \in Timed(<<v>>) <=> x \in {v.d} \X Span(v)
  BY <1>1 DEF Timed
<1>4. Disjoint(<<v>>)
  BY <1>1 DEF Disjoint
<1> QED
  BY <1>2, <1>3, <1>4

LEMMA TimeOfNone == TimeOf(<<>>) = {} /\ Timed(<<>>) = {} /\ Disjoint(<<>>)
BY DEF TimeOf, Timed, Disjoint

LEMMA TimeOfAppend ==
  ASSUME NEW S, NEW l \in Seq(S), NEW v \in S
  PROVE  /\ Append(l, v) \in Seq(S)
         /\ TimeOf(Append(l, v)) = TimeOf(l) \cup Span(v)
         /\ Timed(Append(l, v)) = Timed(l) \cup ({v.d} \X Span(v))
         /\ Disjoint(Append(l, v)) <=> Disjoint(l) /\ TimeOf(l) \cap Span(v) = {}
<1> DEFINE m == <<v>>
<1>1. m \in Seq(S) /\ Append(l, v) = l \o m
  OBVIOUS
<1>2. TimeOf(m) = Span(v) /\ Timed(m) = {v.d} \X Span(v) /\ Disjoint(m)
  BY TimeOfOne
<1> HIDE DEF m
<1> QED
  BY <1>1, <1>2, TimeOfConcat

LEMMA TimeOfCons ==
  ASSUME NEW S, NEW l \in Seq(S), NEW v \in S
  PROVE  /\ <<v>> \o l \in Seq(S) /\ Len(<<v>> \o l) = Len(l) + 1
         /\ (<<v>> \o l)[1] = v /\ \A k \in 1..Len(l) : (<<v>> \o l)[k + 1] = l[k]
         /\ TimeOf(<<v>> \o l) = Span(v) \cup TimeOf(l)
         /\ Timed(<<v>> \o l) = ({v.d} \X Span(v)) \cup Timed(l)
         /\ Disjoint(<<v>> \o l) <=> Disjoint(l) /\ TimeOf(l) \cap Span(v) = {}
<1> DEFINE m == <<v>>
<1>1. /\ m \in Seq(S) /\ Len(m) = 1 /\ m[1] = v
  OBVIOUS
<1>2. TimeOf(m) = Span(v) /\ Timed(m) = {v.d} \X Span(v) /\ Disjoint(m)
  BY TimeOfOne
<1>3. /\ Len(m \o l) = Len(l) + 1 /\ (m \o l)[1] = v
      /\ \A k \in 1..Len(l) : (m \o l)[k + 1] = l[k]
  OBVIOUS
<1> HIDE DEF m
<1>4. /\ m \o l \in Seq(S)
      /\ TimeOf(m \o l) = Span(v) \cup TimeOf(l)
      /\ Timed(m \o l) = ({v.d} \X Span(v)) \cup Timed(l)
      /\ Disjoint(m \o l) <=> Disjoint(l) /\ TimeOf(l) \cap Span(v) = {}
  BY <1>1, <1>2, TimeOfConcat
<1> QED
  BY <1>3, <1>4 DEF m

LEMMA TimeOfHeadTail ==
  ASSUME NEW S, NEW l \in Seq(S), l # <<>>
  PROVE  /\ Head(l) \in S /\ Head(l) = l[1] /\ 1 \in DOMAIN l
         /\ Tail(l) \in Seq(S) /\ Len(Tail(l)) = Len(l) - 1 /\ Len(l) \in Nat \ {0}
         /\ \A k \in 1..(Len(l) - 1) : Tail(l)[k] = l[k + 1]
         /\ TimeOf(l) = Span(Head(l)) \cup TimeOf(Tail(l))
         /\ Timed(l) = ({Head(l).d} \X Span(Head(l))) \cup Timed(Tail(l))
         /\ Disjoint(l) <=> Disjoint(Tail(l)) /\ TimeOf(Tail(l)) \cap Span(Head(l)) = {}
<1> DEFINE v == Head(l)
           m == Tail(l)
<1>1. /\ v \in S /\ v = l[1] /\ 1 \in DOMAIN l
      /\ m \in Seq(S) /\ Len(m) = Len(l) - 1 /\ Len(l) \in Nat \ {0}
      /\ \A k \in 1..(Len(l) - 1) : m[k] = l[k + 1]
  OBVIOUS
<1>2. l = <<v>> \o m
  OBVIOUS
<1> HIDE DEF v, m
<1>3. /\ TimeOf(l) = Span(v) \cup TimeOf(m)
      /\ Timed(l) = ({v.d} \X Span(v)) \cup Timed(m)
      /\ Disjoint(l) <=> Disjoint(m) /\ TimeOf(m) \cap Span(v) = {}
  BY <1>1, <1>2, TimeOfCons
<1> QED
  BY <1>1, <1>3 DEF v, m

(***************************************************************************)
(* union_no_overlap.                                                       *)
(***************************************************************************)
UnionState(D) == [out : Seq(Events(D)), a : Seq(Events(D)), b : Seq(Events(D))]

\* The first list's event is put out, and rest remains of the second list.
PutsFirst(st, rest) ==
    PutNext(st) = [out |-> Append(st.out, Head(st.a)), a |-> Tail(st.a), b |-> rest]

\* v is put out, and rest remains of the second list.
PutsSecond(st, v, rest) ==
    PutNext(st) = [out |-> Append(st.out, v), a |-> st.a, b |-> rest]

FirstSwallows(x, y, st) == /\ Intersects(x, y) /\ x.s <= y.s /\ y.e <= x.e
                           /\ PutsFirst(st, Tail(st.b))
FirstCuts(x, y, st) == /\ Intersects(x, y) /\ x.s <= y.s /\ y.s < x.e /\ x.e < y.e
                       /\ PutsFirst(st, <<[s |-> x.e, e |-> y.e, d |-> y.d]>> \o Tail(st.b))
SecondIsSplit(x, y, st) ==
    /\ Intersects(x, y) /\ y.s < x.s /\ x.s < y.e
    /\ PutsSecond(st, [s |-> y.s, e |-> x.s, d |-> y.d],
                  <<[s |-> x.s, e |-> y.e, d |-> y.d]>> \o Tail(st.b))
FirstPasses(x, y, st) == ~Intersects(x, y) /\ x.s <= y.s /\ PutsFirst(st, st.b)
SecondPasses(x, y, st) == ~Intersects(x, y) /\ y.s < x.s /\ PutsSecond(st, y, Tail(st.b))

LEMMA IntersectsMeans ==
  ASSUME NEW D, NEW E, NEW x \in Events(D), NEW y \in Events(E)
  PROVE  /\ Intersects(x, y) <=> x.s < x.e /\ x.s < y.e /\ y.s < x.e /\ y.s < y.e
         /\ ~Intersects(x, y) <=> Span(x) \cap Span(y) = {}
<1>1. /\ x.s \in Int /\ x.e \in Int /\ x.s <= x.e
      /\ \A z : z \in Span(x) <=> z \in Int /\ x.s <= z /\ z < x.e
  BY EventOf
<1>2. /\ y.s \in Int /\ y.e \in Int /\ y.s <= y.e
      /\ \A z : z \in Span(y) <=> z \in Int /\ y.s <= z /\ z < y.e
  BY EventOf
<1>3. Intersects(x, y) <=> x.s < x.e /\ x.s < y.e /\ y.s < x.e /\ y.s < y.e
  BY <1>1, <1>2 DEF Intersects, Later, Earlier
<1>4. Intersects(x, y) => Later(x.s, y.s) \in Span(x) \cap Span(y)
  BY <1>1, <1>2, <1>3 DEF Later
<1>5. ASSUME NEW z \in Span(x), z \in Span(y) PROVE Intersects(x, y)
  BY <1>1, <1>2, <1>3, <1>5
<1> QED
  BY <1>3, <1>4, <1>5

LEMMA StateWith ==
  ASSUME NEW st, st = [out |-> st.out, a |-> st.a, b |-> st.b], NEW o, NEW b
  PROVE  [[st EXCEPT !.out = o] EXCEPT !.b = b] = [out |-> o, a |-> st.a, b |-> b]
<1> DEFINE p == st.out
           q == st.a
           r == st.b
<1>1. st = [out |-> p, a |-> q, b |-> r]
  OBVIOUS
<1> HIDE DEF p, q, r
<1> DEFINE mid == [st EXCEPT !.out = o]
<1>2. mid = [out |-> o, a |-> q, b |-> r]
  BY <1>1
<1> HIDE DEF mid
<1>3. [mid EXCEPT !.b = b] = [out |-> o, a |-> q, b |-> b]
  BY <1>2
<1> QED
  BY <1>3 DEF mid, q

LEMMA PutNextCases ==
  ASSUME NEW D, NEW st \in UnionState(D), st.a # <<>>, st.b # <<>>
  PROVE  LET x == Head(st.a)
             y == Head(st.b)
         IN  \/ FirstSwallows(x, y, st) \/ FirstCuts(x, y, st) \/ SecondIsSplit(x, y, st)
             \/ FirstPasses(x, y, st) \/ SecondPasses(x, y, st)
<1> DEFINE x == Head(st.a)
           y == Head(st.b)
           r == Tail(st.b)
<1>1. /\ st.out \in Seq(Events(D)) /\ st.a \in Seq(Events(D)) /\ st.b \in Seq(Events(D))
      /\ st = [out |-> st.out, a |-> st.a, b |-> st.b]
  BY DEF UnionState
<1>2. x \in Events(D) /\ y \in Events(D) /\ r \in Seq(Events(D))
  BY <1>1
<1>3. /\ x.s \in Int /\ x.e \in Int /\ x.s <= x.e
      /\ y.s \in Int /\ y.e \in Int /\ y.s <= y.e /\ y = [s |-> y.s, e |-> y.e, d |-> y.d]
  BY <1>2, EventOf
<1>4. /\ Intersects(x, y) /\ x.s <= y.s => PutsFirst(st, Behind(y, x.e) \o r)
      /\ Intersects(x, y) /\ ~(x.s <= y.s) => PutsSecond(st, Before(y, x.s), Behind(y, x.s) \o r)
      /\ ~Intersects(x, y) /\ x.s <= y.s => PutsFirst(st, st.b)
      /\ ~Intersects(x, y) /\ ~(x.s <= y.s) => PutsSecond(st, y, <<>> \o r)
  <2> DEFINE second(ev, rest) == [st EXCEPT !.out = Append(@, ev), !.b = rest \o Tail(@)]
  <2>1. \A ev, rest : second(ev, rest) = [out |-> Append(st.out, ev), a |-> st.a, b |-> rest \o r]
    BY <1>1, StateWith
  <2> HIDE DEF second
  <2>2. PutNext(st) =
           IF Intersects(x, y) /\ x.s <= y.s
           THEN [out |-> Append(st.out, x), a |-> Tail(st.a), b |-> Behind(y, x.e) \o r]
           ELSE IF Intersects(x, y) THEN second(Before(y, x.s), Behind(y, x.s))
           ELSE IF x.s <= y.s THEN [out |-> Append(st.out, x), a |-> Tail(st.a), b |-> st.b]
           ELSE second(y, <<>>)
    BY DEF PutNext, second
  <2> HIDE DEF x, y, r
  <2>3. CASE Intersects(x, y) /\ x.s <= y.s
    BY <2>2, <2>3 DEF PutsFirst, x
  <2>4. CASE Intersects(x, y) /\ ~(x.s <= y.s)
    BY <2>1, <2>2, <2>4 DEF PutsSecond
  <2>5. CASE ~Intersects(x, y) /\ x.s <= y.s
    BY <2>2, <2>5 DEF PutsFirst, x
  <2>6. CASE ~Intersects(x, y) /\ ~(x.s <= y.s)
    BY <2>1, <2>2, <2>6 DEF PutsSecond
  <2> QED
    BY <2>3, <2>4, <2>5, <2>6
<1>5. <<>> \o r = r
  BY <1>2
<1>6. Intersects(x, y) <=> x.s < x.e /\ x.s < y.e /\ y.s < x.e /\ y.s < y.e
  BY <1>2, IntersectsMeans
<1> HIDE DEF x, y, r
<1>7. \A t : /\ [y EXCEPT !.s = t] = [s |-> t, e |-> y.e, d |-> y.d]
             /\ [y EXCEPT !.e = t] = [s |-> y.s, e |-> t, d |-> y.d]
  BY <1>3, EventWith
<1>8. \A t \in Int : y.s < t /\ t < y.e =>
                        /\ Before(y, t) = [s |-> y.s, e |-> t, d |-> y.d]
                        /\ Behind(y, t) = <<[s |-> t, e |-> y.e, d |-> y.d]>>
  BY <1>7 DEF Before, Behind
<1>9. CASE Intersects(x, y) /\ x.s <= y.s /\ y.e <= x.e
  <2>1. Behind(y, x.e) = <<>>
    BY <1>3, <1>9 DEF Behind
  <2>2. PutsFirst(st, r)
    BY <1>4, <1>5, <1>9, <2>1
  <2> QED
    BY <1>9, <2>2 DEF FirstSwallows, x, y, r
<1>10. CASE Intersects(x, y) /\ x.s <= y.s /\ x.e < y.e
  <2>1. y.s < x.e
    BY <1>6, <1>10
  <2>2. Behind(y, x.e) = <<[s |-> x.e, e |-> y.e, d |-> y.d]>>
    BY <1>3, <1>8, <1>10, <2>1
  <2>3. PutsFirst(st, <<[s |-> x.e, e |-> y.e, d |-> y.d]>> \o r)
    BY <1>4, <1>10, <2>2
  <2> QED
    BY <1>10, <2>1, <2>3 DEF FirstCuts, x, y, r
<1>11. CASE Intersects(x, y) /\ y.s < x.s
  <2>1. x.s < y.e /\ ~(x.s <= y.s)
    BY <1>3, <1>6, <1>11
  <2>2. /\ Before(y, x.s) = [s |-> y.s, e |-> x.s, d |-> y.d]
        /\ Behind(y, x.s) = <<[s |-> x.s, e |-> y.e, d |-> y.d]>>
    BY <1>3, <1>8, <1>11, <2>1
  <2>3. PutsSecond(st, [s |-> y.s, e |-> x.s, d |-> y.d], <<[s |-> x.s, e |-> y.e, d |-> y.d]>> \o r)
    BY <1>4, <1>11, <2>1, <2>2
  <2> QED
    BY <1>11, <2>1, <2>3 DEF SecondIsSplit, x, y, r
<1>12. CASE ~Intersects(x, y) /\ x.s <= y.s
  BY <1>4, <1>12 DEF FirstPasses, x, y
<1>13. CASE ~Intersects(x, y) /\ y.s < x.s
  <2>1. ~(x.s <= y.s)
    BY <1>3, <1>13
  <2> QED
    BY <1>4, <1>5, <1>13, <2>1 DEF SecondPasses, x, y, r
<1>14. (x.s <= y.s \/ y.s < x.s) /\ (y.e <= x.e \/ x.e < y.e)
  BY <1>3
<1> QED
  BY <1>9, <1>10, <1>11, <1>12, <1>13, <1>14 DEF x, y

RestOf(p, q) == p.e = q.e /\ q.s <= p.s /\ (p.s = q.s \/ p.s < p.e)

\* What is left of the lists: the ends of them, and of an event of the second one
\* perhaps its end.
UnionShape(l1, l2, a, b) ==
    /\ Len(a) <= Len(l1) /\ \A m \in DOMAIN a : a[m] = l1[Len(l1) - Len(a) + m]
    /\ Len(b) <= Len(l2) /\ \A m \in DOMAIN b : RestOf(b[m], l2[Len(l2) - Len(b) + m])

InstantIn(p, q) == p.s = p.e /\ q.s <= p.s /\ p.s < q.e

\* Lists without the exceptions to the union's precedence.
Plain(l1, l2) ==
    /\ Disjoint(l1) /\ Disjoint(l2) /\ Ordered(l1) /\ Ordered(l2)
    /\ \A k \in DOMAIN l1 : \A n, m \in DOMAIN l2 :
          Intersects(l1[k], l2[n]) /\ Intersects(l1[k], l2[m]) => n = m
    /\ \A k \in DOMAIN l1 : \A n \in DOMAIN l2 : /\ ~InstantIn(l1[k], l2[n])
                                                 /\ ~InstantIn(l2[n], l1[k])

\* What the heads do not share, whichever of them is put out.
HeadsApart(x, y, a, b) ==
    /\ TimeOf(Tail(a)) \cap Span(x) = {}
    /\ TimeOf(Tail(b)) \cap Span(y) = {}
    /\ Intersects(x, y) => TimeOf(Tail(b)) \cap Span(x) = {}
    /\ ~Intersects(x, y) /\ x.s <= y.s => TimeOf(b) \cap Span(x) = {}
    /\ ~Intersects(x, y) /\ y.s < x.s => TimeOf(a) \cap Span(y) = {}
    /\ \A z \in TimeOf(a) : x.s <= z

LEMMA HeadsAreApart ==
  ASSUME NEW D, NEW l1 \in Seq(Events(D)), NEW l2 \in Seq(Events(D)),
         NEW a \in Seq(Events(D)), NEW b \in Seq(Events(D)), a # <<>>, b # <<>>,
         UnionShape(l1, l2, a, b), Plain(l1, l2)
  PROVE  HeadsApart(Head(a), Head(b), a, b)
<1> DEFINE x == Head(a)
           y == Head(b)
           i == Len(l1) - Len(a)
           j == Len(l2) - Len(b)
<1>1. /\ x = a[1] /\ 1 \in DOMAIN a /\ y = b[1] /\ 1 \in DOMAIN b
      /\ i \in Nat /\ j \in Nat
      /\ \A m \in DOMAIN a : m \in Nat /\ m >= 1 /\ a[m] \in Events(D) /\ i + m \in DOMAIN l1 /\ i + m \in Nat
      /\ \A m \in DOMAIN b : m \in Nat /\ m >= 1 /\ b[m] \in Events(D) /\ j + m \in DOMAIN l2 /\ j + m \in Nat
  BY DEF UnionShape
<1>2. /\ \A m \in DOMAIN a : a[m] = l1[i + m]
      /\ \A m \in DOMAIN b : RestOf(b[m], l2[j + m])
  BY DEF UnionShape
<1>0. \A n \in Nat : \A m \in Nat :
         m >= 1 => n + 1 <= n + m /\ (m # 1 => n + 1 < n + m /\ n + 1 # n + m)
  OBVIOUS
<1>3. /\ \A k \in DOMAIN l1 : l1[k] \in Events(D) /\ k \in Nat
      /\ \A k \in DOMAIN l2 : l2[k] \in Events(D) /\ k \in Nat
  OBVIOUS
<1> HIDE DEF x, y, i, j
<1> DEFINE z1 == l1[i + 1]
           z2 == l2[j + 1]
<1>4. /\ x = z1 /\ RestOf(y, z2) /\ i + 1 \in DOMAIN l1 /\ j + 1 \in DOMAIN l2
      /\ x \in Events(D) /\ y \in Events(D) /\ z2 \in Events(D)
  BY <1>1, <1>2, <1>3
<1>5. /\ x.s \in Int /\ x.e \in Int /\ x.s <= x.e
      /\ y.s \in Int /\ y.e \in Int /\ y.s <= y.e
      /\ z2.s \in Int /\ z2.e \in Int /\ z2.s <= z2.e
      /\ \A z : z \in Span(x) <=> z \in Int /\ x.s <= z /\ z < x.e
      /\ \A z : z \in Span(y) <=> z \in Int /\ y.s <= z /\ z < y.e
      /\ \A z : z \in Span(z2) <=> z \in Int /\ z2.s <= z /\ z < z2.e
  BY <1>4, EventOf
<1>6. /\ z2.e = y.e /\ z2.s <= y.s /\ (y.s = z2.s \/ y.s < y.e)
      /\ ~InstantIn(x, z2) /\ ~InstantIn(z2, x)
  BY <1>4 DEF RestOf, Plain
<1> HIDE DEF z1, z2
<1>7. ASSUME NEW m \in DOMAIN a, NEW z \in Span(a[m])
      PROVE  z \in Int /\ x.s <= z /\ (m # 1 => z \notin Span(x))
  <2>1. /\ a[m] \in Events(D) /\ i + m \in DOMAIN l1
        /\ m # 1 => i + 1 < i + m /\ i + 1 # i + m
    <3>1. m \in Nat /\ m >= 1 /\ i \in Nat
      BY <1>1
    <3> QED
      BY <1>0, <1>1, <3>1
  <2>2. x.s <= a[m].s
    <3>1. m = 1 \/ i + 1 < i + m
      BY <2>1
    <3>2. CASE m = 1
      <4>1. a[m] = x
        BY <1>1, <3>2
      <4> QED
        BY <1>5, <4>1
    <3>3. CASE i + 1 < i + m
      BY <1>1, <1>2, <1>4, <3>3 DEF Plain, Ordered, z1
    <3> QED
      BY <3>1, <3>2, <3>3
  <2>3. z \in Int /\ a[m].s <= z /\ a[m].s \in Int
    BY <2>1, EventOf
  <2>4. m # 1 => z \notin Span(x)
    <3>1. ASSUME m # 1 PROVE Span(l1[i + m]) \cap Span(l1[i + 1]) = {}
      BY <1>1, <1>4, <2>1, <3>1 DEF Plain, Disjoint
    <3> QED
      BY <1>2, <1>4, <3>1 DEF z1
  <2> QED
    BY <1>5, <2>2, <2>3, <2>4
<1>8. ASSUME NEW m \in DOMAIN b, NEW z \in Span(b[m])
      PROVE  /\ z \in Int /\ z \in Span(l2[j + m]) /\ z2.s <= z
             /\ m # 1 => j + m # j + 1 /\ z \notin Span(z2)
  <2>1. /\ b[m] \in Events(D) /\ l2[j + m] \in Events(D) /\ RestOf(b[m], l2[j + m])
        /\ j + m \in DOMAIN l2
        /\ m # 1 => j + 1 < j + m /\ j + 1 # j + m
    <3>1. m \in Nat /\ m >= 1 /\ j \in Nat
      BY <1>1
    <3> QED
      BY <1>0, <1>1, <1>2, <1>3, <3>1
  <2>2. /\ z \in Int /\ b[m].s <= z /\ z < b[m].e /\ b[m].s \in Int /\ b[m].e \in Int
        /\ l2[j + m].s \in Int
        /\ (z \in Span(l2[j + m]) <=> z \in Int /\ l2[j + m].s <= z /\ z < l2[j + m].e)
    BY <2>1, EventOf
  <2>3. z \in Span(l2[j + m]) /\ l2[j + m].s <= z
    BY <2>1, <2>2 DEF RestOf
  <2>4. ASSUME m # 1 PROVE j + m # j + 1 /\ z \notin Span(z2) /\ z2.s <= l2[j + m].s
    <3>1. j + 1 # j + m /\ j + 1 < j + m
      BY <2>1, <2>4
    <3>2. Span(l2[j + m]) \cap Span(z2) = {}
      BY <1>4, <2>1, <3>1 DEF Plain, Disjoint, z2
    <3>3. z2.s <= l2[j + m].s
      BY <1>4, <2>1, <3>1 DEF Plain, Ordered, z2
    <3> QED
      BY <2>3, <3>1, <3>2, <3>3
  <2>5. z2.s <= z
    <3>1. CASE m = 1
      BY <2>3, <3>1 DEF z2
    <3>2. CASE m # 1
      BY <1>5, <2>2, <2>3, <2>4, <3>2
    <3> QED
      BY <3>1, <3>2
  <2> QED
    BY <2>2, <2>3, <2>4, <2>5
<1>9. /\ \A z \in TimeOf(Tail(a)) : \E m \in DOMAIN a : m # 1 /\ z \in Span(a[m])
      /\ \A z \in TimeOf(Tail(b)) : \E m \in DOMAIN b : m # 1 /\ z \in Span(b[m])
  <2>1. ASSUME NEW l \in Seq(Events(D)), l # <<>>, NEW z \in TimeOf(Tail(l))
        PROVE  \E m \in DOMAIN l : m # 1 /\ z \in Span(l[m])
    <3>1. PICK k \in DOMAIN Tail(l) : z \in Span(Tail(l)[k])
      BY TimeOfHas
    <3>2. k + 1 \in DOMAIN l /\ k + 1 # 1 /\ Tail(l)[k] = l[k + 1]
      BY <2>1
    <3> QED
      BY <3>1, <3>2
  <2> QED
    BY <2>1
<1>10. \A z \in TimeOf(a) : x.s <= z
  BY <1>7, TimeOfHas
<1>11. TimeOf(Tail(a)) \cap Span(x) = {}
  BY <1>7, <1>9
<1>12. Span(y) \subseteq Span(z2)
  BY <1>5, <1>6
<1>13. TimeOf(Tail(b)) \cap Span(y) = {}
  BY <1>8, <1>9, <1>12
<1>14. ASSUME Intersects(x, y), NEW z \in TimeOf(Tail(b)), z \in Span(x) PROVE FALSE
  <2>1. PICK m \in DOMAIN b : m # 1 /\ z \in Span(b[m])
    BY <1>9
  <2>2. z \in Span(l2[j + m]) /\ j + m # j + 1 /\ j + m \in DOMAIN l2
    BY <1>1, <1>8, <2>1
  <2>3. Intersects(x, l2[j + m])
    <3> DEFINE v == l2[j + m]
    <3>1. v \in Events(D) /\ Span(x) \cap Span(v) # {}
      BY <1>3, <1>14, <2>2
    <3> HIDE DEF v
    <3>2. Intersects(x, v)
      BY <1>4, <3>1, IntersectsMeans
    <3> QED
      BY <3>2 DEF v
  <2>4. Intersects(x, z2)
    <3>1. Span(x) \cap Span(y) # {}
      BY <1>4, <1>14, IntersectsMeans
    <3>2. Span(x) \cap Span(z2) # {}
      BY <1>12, <3>1
    <3> QED
      BY <1>4, <3>2, IntersectsMeans
  <2> QED
    BY <1>4, <2>2, <2>3, <2>4 DEF Plain, z1, z2
<1>15. Intersects(x, y) <=> x.s < x.e /\ x.s < y.e /\ y.s < x.e /\ y.s < y.e
  BY <1>4, IntersectsMeans
<1>16. ASSUME ~Intersects(x, y), x.s <= y.s, NEW z \in TimeOf(b), z \in Span(x) PROVE FALSE
  <2>1. PICK m \in DOMAIN b : z \in Span(b[m])
    BY TimeOfHas
  <2>2. z \in Int /\ z2.s <= z /\ (m # 1 => z \notin Span(z2))
    BY <1>8, <2>1
  <2>3. CASE m = 1
    <3>1. z \in Span(y)
      BY <1>1, <2>1, <2>3
    <3> QED
      BY <1>4, <1>16, <3>1, IntersectsMeans
  <2>4. CASE m # 1 /\ x.e <= y.s
    <3>1. z < y.s /\ y.s # z2.s
      BY <1>5, <1>16, <2>2, <2>4
    <3>2. z \in Span(z2)
      BY <1>5, <1>6, <2>2, <3>1, SMTT(20)
    <3> QED
      BY <2>2, <2>4, <3>2
  <2>5. CASE m # 1 /\ y.s < x.e
    <3>1. y.s = y.e
      BY <1>5, <1>15, <1>16, <2>5, SMTT(20)
    <3>2. InstantIn(z2, x)
      BY <1>5, <1>6, <1>16, <2>5, <3>1 DEF InstantIn
    <3> QED
      BY <1>6, <3>2
  <2> QED
    BY <1>5, <2>3, <2>4, <2>5
<1>17. ASSUME ~Intersects(x, y), y.s < x.s, NEW z \in TimeOf(a), z \in Span(y) PROVE FALSE
  <2>1. x.s <= z /\ z \in Int /\ z < y.e
    BY <1>5, <1>10, <1>17
  <2>2. x.s = x.e /\ x.s < y.e
    BY <1>5, <1>15, <1>17, <2>1
  <2>3. InstantIn(x, z2)
    BY <1>5, <1>6, <1>17, <2>2 DEF InstantIn
  <2> QED
    BY <1>6, <2>3
<1> QED
  BY <1>10, <1>11, <1>13, <1>14, <1>16, <1>17 DEF HeadsApart, x, y

LEMMA ShapeOfTails ==
  ASSUME NEW D, NEW l1 \in Seq(Events(D)), NEW l2 \in Seq(Events(D)),
         NEW a \in Seq(Events(D)), NEW b \in Seq(Events(D)), UnionShape(l1, l2, a, b)
  PROVE  /\ a # <<>> => UnionShape(l1, l2, Tail(a), b)
         /\ b # <<>> => UnionShape(l1, l2, a, Tail(b))
         /\ \A w \in Events(D) : b # <<>> /\ RestOf(w, Head(b)) => UnionShape(l1, l2, a, <<w>> \o Tail(b))
<1>1. /\ Len(l1) \in Nat /\ Len(l2) \in Nat /\ Len(a) \in Nat /\ Len(b) \in Nat
      /\ DOMAIN a = 1..Len(a) /\ DOMAIN b = 1..Len(b)
      /\ Len(a) <= Len(l1) /\ \A m \in DOMAIN a : a[m] = l1[Len(l1) - Len(a) + m]
      /\ Len(b) <= Len(l2) /\ \A m \in DOMAIN b : RestOf(b[m], l2[Len(l2) - Len(b) + m])
  BY DEF UnionShape
<1>2. ASSUME a # <<>> PROVE UnionShape(l1, l2, Tail(a), b)
  <2> DEFINE q == Tail(a)
  <2>1. /\ Len(a) \in Nat \ {0} /\ Len(q) = Len(a) - 1 /\ DOMAIN q = 1..(Len(a) - 1)
        /\ \A k \in 1..(Len(a) - 1) : q[k] = a[k + 1]
    BY <1>2
  <2> HIDE DEF q
  <2>2. ASSUME NEW m \in DOMAIN q PROVE q[m] = l1[Len(l1) - Len(q) + m]
    <3>1. m \in 1..(Len(a) - 1) /\ m + 1 \in DOMAIN a
      BY <1>1, <2>1
    <3>2. Len(l1) - Len(a) + (m + 1) = Len(l1) - Len(q) + m
      BY <1>1, <2>1, <3>1
    <3> QED
      BY <1>1, <2>1, <3>1, <3>2
  <2>3. Len(q) <= Len(l1)
    BY <1>1, <2>1
  <2> QED
    BY <1>1, <2>2, <2>3 DEF UnionShape, q
<1>3. ASSUME b # <<>> PROVE UnionShape(l1, l2, a, Tail(b))
  <2> DEFINE q == Tail(b)
  <2>1. /\ Len(b) \in Nat \ {0} /\ Len(q) = Len(b) - 1 /\ DOMAIN q = 1..(Len(b) - 1)
        /\ \A k \in 1..(Len(b) - 1) : q[k] = b[k + 1]
    BY <1>3
  <2> HIDE DEF q
  <2>2. ASSUME NEW m \in DOMAIN q PROVE RestOf(q[m], l2[Len(l2) - Len(q) + m])
    <3>1. m \in 1..(Len(b) - 1) /\ m + 1 \in DOMAIN b
      BY <1>1, <2>1
    <3>2. Len(l2) - Len(b) + (m + 1) = Len(l2) - Len(q) + m
      BY <1>1, <2>1, <3>1
    <3> QED
      BY <1>1, <2>1, <3>1, <3>2
  <2>3. Len(q) <= Len(l2)
    BY <1>1, <2>1
  <2> QED
    BY <1>1, <2>2, <2>3 DEF UnionShape, q
<1>4. ASSUME NEW w \in Events(D), b # <<>>, RestOf(w, Head(b))
      PROVE  UnionShape(l1, l2, a, <<w>> \o Tail(b))
  <2> DEFINE c == <<w>> \o Tail(b)
             v == l2[Len(l2) - Len(b) + 1]
  <2>1. /\ Len(c) = Len(b) /\ DOMAIN c = DOMAIN b /\ c[1] = w /\ 1 \in DOMAIN b
        /\ \A k \in DOMAIN b : k # 1 => c[k] = b[k]
        /\ Head(b) = b[1] /\ b[1] \in Events(D)
    BY <1>4
  <2>2. RestOf(b[1], v) /\ v \in Events(D)
    <3>1. Len(l2) - Len(b) + 1 \in DOMAIN l2
      BY <1>1, <2>1
    <3>2. v \in Events(D)
      BY <3>1
    <3>3. RestOf(b[1], v)
      BY <1>1, <2>1
    <3> QED
      BY <3>2, <3>3
  <2> HIDE DEF c, v
  <2>3. RestOf(w, v)
    <3>1. /\ w.s \in Int /\ w.e \in Int /\ v.s \in Int /\ v.e \in Int
          /\ b[1].s \in Int /\ b[1].e \in Int
      BY <1>4, <2>1, <2>2, EventOf
    <3>2. /\ b[1].e = v.e /\ v.s <= b[1].s /\ (b[1].s = v.s \/ b[1].s < b[1].e)
          /\ w.e = b[1].e /\ b[1].s <= w.s /\ (w.s = b[1].s \/ w.s < w.e)
      BY <1>4, <2>1, <2>2 DEF RestOf
    <3> QED
      BY <3>1, <3>2 DEF RestOf
  <2>4. \A m \in DOMAIN c : RestOf(c[m], l2[Len(l2) - Len(c) + m])
    BY <1>1, <2>1, <2>3 DEF v
  <2> QED
    BY <1>1, <2>1, <2>4 DEF UnionShape, c
<1> QED
  BY <1>2, <1>3, <1>4

\* Both heads overlap and the second list's is not split first: the next step
\* takes the first list's.
Ready(a, b) == IF Intersects(Head(a), Head(b)) /\ Head(a).s <= Head(b).s THEN 1 ELSE 0

\* The steps that are left at most: two for an event of the first list, one for
\* an event of the second.
Remain(a, b) == 2 * Len(a) + Len(b) - Ready(a, b)

UnionInv(l1, l2, k, st) ==
    /\ UnionShape(l1, l2, st.a, st.b)
    /\ TimeOf(st.out) \cup TimeOf(st.a) \cup TimeOf(st.b) = TimeOf(l1) \cup TimeOf(l2)
    /\ Timed(l1) \subseteq Timed(st.out) \cup Timed(st.a)
    /\ Plain(l1, l2) => /\ Disjoint(st.out)
                        /\ TimeOf(st.out) \cap (TimeOf(st.a) \cup TimeOf(st.b)) = {}
    /\ \/ st.a = <<>> \/ st.b = <<>>
       \/ Remain(st.a, st.b) + k <= 2 * (Len(l1) + Len(l2))

\* Putting out v is right if this holds of it and of what remains.
RightPut(l1, l2, v, a, b, a2, b2) ==
    /\ UnionShape(l1, l2, a2, b2)
    /\ Span(v) \cup TimeOf(a2) \cup TimeOf(b2) = TimeOf(a) \cup TimeOf(b)
    /\ Timed(a) \subseteq ({v.d} \X Span(v)) \cup Timed(a2)
    /\ Plain(l1, l2) => Span(v) \cap (TimeOf(a2) \cup TimeOf(b2)) = {}
    /\ a2 = <<>> \/ b2 = <<>> \/ Remain(a2, b2) + 1 <= Remain(a, b)

LEMMA RemainIsInt ==
  ASSUME NEW D, NEW a \in Seq(Events(D)), NEW b \in Seq(Events(D))
  PROVE  /\ Remain(a, b) \in Int /\ Ready(a, b) \in {0, 1}
         /\ a # <<>> /\ b # <<>> => Remain(a, b) >= 2
<1>1. Len(a) \in Nat /\ Len(b) \in Nat /\ (a # <<>> => Len(a) >= 1) /\ (b # <<>> => Len(b) >= 1)
  OBVIOUS
<1>2. Ready(a, b) \in {0, 1}
  BY DEF Ready
<1> QED
  BY <1>1, <1>2 DEF Remain

LEMMA RightPutKeepsInv ==
  ASSUME NEW D, NEW l1 \in Seq(Events(D)), NEW l2 \in Seq(Events(D)), NEW k \in Nat,
         NEW st \in UnionState(D), st.a # <<>>, st.b # <<>>, UnionInv(l1, l2, k, st),
         NEW v \in Events(D), NEW a2 \in Seq(Events(D)), NEW b2 \in Seq(Events(D)),
         RightPut(l1, l2, v, st.a, st.b, a2, b2),
         PutNext(st) = [out |-> Append(st.out, v), a |-> a2, b |-> b2]
  PROVE  PutNext(st) \in UnionState(D) /\ UnionInv(l1, l2, k + 1, PutNext(st))
<1> DEFINE new == PutNext(st)
           o == Append(st.out, v)
<1>1. st.out \in Seq(Events(D)) /\ st.a \in Seq(Events(D)) /\ st.b \in Seq(Events(D))
  BY DEF UnionState
<1>2. /\ o \in Seq(Events(D))
      /\ TimeOf(o) = TimeOf(st.out) \cup Span(v)
      /\ Timed(o) = Timed(st.out) \cup ({v.d} \X Span(v))
      /\ Disjoint(o) <=> Disjoint(st.out) /\ TimeOf(st.out) \cap Span(v) = {}
  BY <1>1, TimeOfAppend
<1>3. new = [out |-> o, a |-> a2, b |-> b2]
  OBVIOUS
<1> HIDE DEF o, new
<1>4. new.out = o /\ new.a = a2 /\ new.b = b2 /\ new \in UnionState(D)
  BY <1>2, <1>3 DEF UnionState
<1>5. /\ TimeOf(st.out) \cup TimeOf(st.a) \cup TimeOf(st.b) = TimeOf(l1) \cup TimeOf(l2)
      /\ Timed(l1) \subseteq Timed(st.out) \cup Timed(st.a)
      /\ Plain(l1, l2) => /\ Disjoint(st.out)
                          /\ TimeOf(st.out) \cap (TimeOf(st.a) \cup TimeOf(st.b)) = {}
      /\ Remain(st.a, st.b) + k <= 2 * (Len(l1) + Len(l2))
  BY DEF UnionInv
<1>6. /\ UnionShape(l1, l2, a2, b2)
      /\ Span(v) \cup TimeOf(a2) \cup TimeOf(b2) = TimeOf(st.a) \cup TimeOf(st.b)
      /\ Timed(st.a) \subseteq ({v.d} \X Span(v)) \cup Timed(a2)
      /\ Plain(l1, l2) => Span(v) \cap (TimeOf(a2) \cup TimeOf(b2)) = {}
      /\ a2 = <<>> \/ b2 = <<>> \/ Remain(a2, b2) + 1 <= Remain(st.a, st.b)
  BY DEF RightPut
<1>7. TimeOf(o) \cup TimeOf(a2) \cup TimeOf(b2) = TimeOf(l1) \cup TimeOf(l2)
  BY <1>2, <1>5, <1>6
<1>8. Timed(l1) \subseteq Timed(o) \cup Timed(a2)
  BY <1>2, <1>5, <1>6
<1>9. Plain(l1, l2) => Disjoint(o) /\ TimeOf(o) \cap (TimeOf(a2) \cup TimeOf(b2)) = {}
  BY <1>2, <1>5, <1>6
<1>10. a2 = <<>> \/ b2 = <<>> \/ Remain(a2, b2) + (k + 1) <= 2 * (Len(l1) + Len(l2))
  <2>1. Remain(a2, b2) \in Int /\ Remain(st.a, st.b) \in Int /\ Len(l1) \in Nat /\ Len(l2) \in Nat
    <3> DEFINE p == st.a
               q == st.b
    <3>1. p \in Seq(Events(D)) /\ q \in Seq(Events(D))
      BY <1>1
    <3> HIDE DEF p, q
    <3>2. Remain(p, q) \in Int
      BY <3>1, RemainIsInt
    <3>3. Remain(a2, b2) \in Int
      BY RemainIsInt
    <3>4. Len(l1) \in Nat /\ Len(l2) \in Nat
      OBVIOUS
    <3> QED
      BY <3>2, <3>3, <3>4 DEF p, q
  <2> QED
    BY <1>5, <1>6, <2>1
<1> QED
  BY <1>4, <1>6, <1>7, <1>8, <1>9, <1>10 DEF UnionInv, new

LEMMA PutNextKeepsInv ==
  ASSUME NEW D, NEW l1 \in Seq(Events(D)), NEW l2 \in Seq(Events(D)), NEW k \in Nat,
         NEW st \in UnionState(D), st.a # <<>>, st.b # <<>>, UnionInv(l1, l2, k, st)
  PROVE  PutNext(st) \in UnionState(D) /\ UnionInv(l1, l2, k + 1, PutNext(st))
<1> DEFINE a == st.a
           b == st.b
           x == Head(a)
           y == Head(b)
           q == Tail(a)
           r == Tail(b)
<1>1. a \in Seq(Events(D)) /\ b \in Seq(Events(D)) /\ a # <<>> /\ b # <<>>
  BY DEF UnionState
<1>2. UnionShape(l1, l2, a, b)
  BY DEF UnionInv
<1>3. FirstSwallows(x, y, st) \/ FirstCuts(x, y, st) \/ SecondIsSplit(x, y, st)
      \/ FirstPasses(x, y, st) \/ SecondPasses(x, y, st)
  BY PutNextCases
<1>4. \A v \in Events(D), a2, b2 \in Seq(Events(D)) :
         RightPut(l1, l2, v, a, b, a2, b2) /\ PutNext(st) = [out |-> Append(st.out, v), a |-> a2, b |-> b2]
            => PutNext(st) \in UnionState(D) /\ UnionInv(l1, l2, k + 1, PutNext(st))
  BY RightPutKeepsInv
<1>5. /\ PutsFirst(st, r) => PutNext(st) = [out |-> Append(st.out, x), a |-> q, b |-> r]
      /\ PutsFirst(st, b) => PutNext(st) = [out |-> Append(st.out, x), a |-> q, b |-> b]
      /\ \A v : PutsFirst(st, <<v>> \o r) =>
                   PutNext(st) = [out |-> Append(st.out, x), a |-> q, b |-> <<v>> \o r]
      /\ \A v : PutsSecond(st, v, r) => PutNext(st) = [out |-> Append(st.out, v), a |-> a, b |-> r]
      /\ \A v, w : PutsSecond(st, v, <<w>> \o r) =>
                   PutNext(st) = [out |-> Append(st.out, v), a |-> a, b |-> <<w>> \o r]
  BY DEF PutsFirst, PutsSecond
<1>6. /\ x \in Events(D) /\ q \in Seq(Events(D)) /\ Len(q) = Len(a) - 1 /\ Len(a) \in Nat \ {0}
      /\ TimeOf(a) = Span(x) \cup TimeOf(q) /\ Timed(a) = ({x.d} \X Span(x)) \cup Timed(q)
  <2> HIDE DEF a
  <2> QED
    BY <1>1, TimeOfHeadTail
<1>7. /\ y \in Events(D) /\ r \in Seq(Events(D)) /\ Len(r) = Len(b) - 1 /\ Len(b) \in Nat \ {0}
      /\ TimeOf(b) = Span(y) \cup TimeOf(r)
  <2> HIDE DEF b
  <2> QED
    BY <1>1, TimeOfHeadTail
<1>8. /\ x.s \in Int /\ x.e \in Int /\ x.s <= x.e
      /\ y.s \in Int /\ y.e \in Int /\ y.s <= y.e /\ y.d \in D
      /\ \A z : z \in Span(x) <=> z \in Int /\ x.s <= z /\ z < x.e
      /\ \A z : z \in Span(y) <=> z \in Int /\ y.s <= z /\ z < y.e
  BY <1>6, <1>7, EventOf
<1>9. Plain(l1, l2) => HeadsApart(x, y, a, b)
  <2> HIDE DEF a, b
  <2> QED
    BY <1>1, <1>2, HeadsAreApart
<1>10. /\ UnionShape(l1, l2, q, b) /\ UnionShape(l1, l2, a, r)
       /\ \A w \in Events(D) : RestOf(w, y) => UnionShape(l1, l2, a, <<w>> \o r)
  <2> HIDE DEF a, b
  <2> QED
    BY <1>1, <1>2, ShapeOfTails
<1>11. /\ UnionShape(l1, l2, q, r)
       /\ \A w \in Events(D) : RestOf(w, y) => UnionShape(l1, l2, q, <<w>> \o r)
  <2>1. UnionShape(l1, l2, q, b)
    BY <1>10
  <2> HIDE DEF a, b, q
  <2> QED
    BY <1>1, <1>6, <2>1, ShapeOfTails
<1>12. Intersects(x, y) <=> x.s < x.e /\ x.s < y.e /\ y.s < x.e /\ y.s < y.e
  BY <1>6, <1>7, IntersectsMeans
<1>13. Ready(a, b) = IF Intersects(x, y) /\ x.s <= y.s THEN 1 ELSE 0
  BY DEF Ready
<1>14. \A w \in Events(D) : /\ <<w>> \o r \in Seq(Events(D)) /\ Len(<<w>> \o r) = Len(r) + 1
                            /\ Head(<<w>> \o r) = w
                            /\ TimeOf(<<w>> \o r) = Span(w) \cup TimeOf(r)
  <2> HIDE DEF r
  <2> TAKE w \in Events(D)
  <2>1. /\ <<w>> \o r \in Seq(Events(D)) /\ Len(<<w>> \o r) = Len(r) + 1
        /\ TimeOf(<<w>> \o r) = Span(w) \cup TimeOf(r)
    BY <1>7, TimeOfCons
  <2>2. Head(<<w>> \o r) = w
    BY <1>7
  <2> QED
    BY <2>1, <2>2
<1>15. Plain(l1, l2) =>
         /\ TimeOf(q) \cap Span(x) = {}
         /\ TimeOf(r) \cap Span(y) = {}
         /\ Intersects(x, y) => TimeOf(r) \cap Span(x) = {}
         /\ ~Intersects(x, y) /\ x.s <= y.s => TimeOf(b) \cap Span(x) = {}
         /\ ~Intersects(x, y) /\ y.s < x.s => TimeOf(a) \cap Span(y) = {}
         /\ \A z \in TimeOf(a) : x.s <= z
  BY <1>9 DEF HeadsApart
<1> HIDE DEF a, b, x, y, q, r
<1>16. ASSUME NEW c \in Seq(Events(D)), NEW e \in Seq(Events(D))
       PROVE  Ready(c, e) \in {0, 1}
  BY RemainIsInt
<1>17. CASE FirstSwallows(x, y, st)
  <2>1. Intersects(x, y) /\ x.s <= y.s /\ y.e <= x.e /\ PutsFirst(st, r)
    BY <1>17 DEF FirstSwallows, r, b
  <2>2. Span(y) \subseteq Span(x)
    BY <1>8, <2>1
  <2>3. Remain(q, r) + 1 <= Remain(a, b)
    BY <1>6, <1>7, <1>13, <1>16, <2>1 DEF Remain
  <2>4. RightPut(l1, l2, x, a, b, q, r)
    <3>1. Span(x) \cup TimeOf(q) \cup TimeOf(r) = TimeOf(a) \cup TimeOf(b)
      BY <1>6, <1>7, <2>2
    <3>2. Plain(l1, l2) => Span(x) \cap (TimeOf(q) \cup TimeOf(r)) = {}
      BY <1>15, <2>1
    <3>3. UnionShape(l1, l2, q, r) /\ Timed(a) \subseteq ({x.d} \X Span(x)) \cup Timed(q)
      BY <1>6, <1>11
    <3> QED
      BY <2>3, <3>1, <3>2, <3>3 DEF RightPut
  <2> QED
    BY <1>4, <1>5, <1>6, <1>7, <2>1, <2>4
<1>18. CASE FirstCuts(x, y, st)
  <2> DEFINE w == [s |-> x.e, e |-> y.e, d |-> y.d]
             c == <<w>> \o r
  <2>1. Intersects(x, y) /\ x.s <= y.s /\ y.s < x.e /\ x.e < y.e /\ PutsFirst(st, c)
    BY <1>18 DEF FirstCuts, r, b
  <2>2. w \in Events(D)
    BY <1>8, <2>1, IsEvent
  <2>3. w.s = x.e /\ w.e = y.e
    OBVIOUS
  <2> HIDE DEF w
  <2>4. \A z : z \in Span(w) <=> z \in Int /\ x.e <= z /\ z < y.e
    BY <2>2, <2>3, EventOf
  <2>5. /\ Span(y) \subseteq Span(x) \cup Span(w) /\ Span(w) \subseteq Span(y)
        /\ Span(x) \cap Span(w) = {}
    <3>1. Span(y) \subseteq Span(x) \cup Span(w)
      BY <1>8, <2>1, <2>4
    <3>2. Span(w) \subseteq Span(y)
      BY <1>8, <2>1, <2>4
    <3>3. Span(x) \cap Span(w) = {}
      BY <1>8, <2>4
    <3> QED
      BY <3>1, <3>2, <3>3
  <2>6. RestOf(w, y)
    BY <1>8, <2>1, <2>3 DEF RestOf
  <2>7. c \in Seq(Events(D)) /\ Len(c) = Len(r) + 1 /\ TimeOf(c) = Span(w) \cup TimeOf(r)
    BY <1>14, <2>2
  <2>8. UnionShape(l1, l2, q, c)
    BY <1>11, <2>2, <2>6
  <2> HIDE DEF c
  <2>9. Remain(q, c) + 1 <= Remain(a, b)
    BY <1>6, <1>7, <1>13, <1>16, <2>1, <2>7, SMTT(20) DEF Remain
  <2>10. Span(x) \cup TimeOf(q) \cup TimeOf(c) = TimeOf(a) \cup TimeOf(b)
    BY <1>6, <1>7, <2>5, <2>7
  <2>11. Plain(l1, l2) => Span(x) \cap (TimeOf(q) \cup TimeOf(c)) = {}
    BY <1>15, <2>1, <2>5, <2>7
  <2>12. RightPut(l1, l2, x, a, b, q, c)
    BY <1>6, <2>8, <2>9, <2>10, <2>11 DEF RightPut
  <2>13. PutNext(st) = [out |-> Append(st.out, x), a |-> q, b |-> c]
    BY <1>5, <2>1 DEF c
  <2> QED
    BY <1>4, <1>6, <2>7, <2>12, <2>13
<1>19. CASE SecondIsSplit(x, y, st)
  <2> DEFINE v == [s |-> y.s, e |-> x.s, d |-> y.d]
             w == [s |-> x.s, e |-> y.e, d |-> y.d]
             c == <<w>> \o r
  <2>1. Intersects(x, y) /\ y.s < x.s /\ x.s < y.e /\ PutsSecond(st, v, c)
    BY <1>19 DEF SecondIsSplit, r, b
  <2>2. v \in Events(D) /\ w \in Events(D)
    BY <1>8, <2>1, IsEvent
  <2>3. v.s = y.s /\ v.e = x.s /\ w.s = x.s /\ w.e = y.e
    OBVIOUS
  <2> HIDE DEF v, w
  <2>4. /\ \A z : z \in Span(v) <=> z \in Int /\ y.s <= z /\ z < x.s
        /\ \A z : z \in Span(w) <=> z \in Int /\ x.s <= z /\ z < y.e
    BY <2>2, <2>3, EventOf
  <2>5. Span(y) = Span(v) \cup Span(w) /\ Span(v) \cap Span(w) = {}
    <3>1. \A z : z \in Span(y) <=> z \in Span(v) \/ z \in Span(w)
      BY <1>8, <2>1, <2>4
    <3>2. Span(v) \cap Span(w) = {}
      BY <1>8, <2>4
    <3> QED
      BY <3>1, <3>2
  <2>6. RestOf(w, y)
    BY <1>8, <2>1, <2>3 DEF RestOf
  <2>7. /\ c \in Seq(Events(D)) /\ Len(c) = Len(r) + 1 /\ Head(c) = w
        /\ TimeOf(c) = Span(w) \cup TimeOf(r)
    BY <1>14, <2>2
  <2>8. UnionShape(l1, l2, a, c)
    BY <1>10, <2>2, <2>6
  <2> HIDE DEF c
  <2>9. Remain(a, c) + 1 <= Remain(a, b)
    <3>1. Intersects(x, w)
      <4>1. Intersects(x, w) <=> x.s < x.e /\ x.s < w.e /\ w.s < x.e /\ w.s < w.e
        BY <1>6, <2>2, IntersectsMeans
      <4> QED
        BY <1>12, <2>1, <2>3, <4>1
    <3>2. Ready(a, c) = 1
      BY <1>8, <2>3, <2>7, <3>1 DEF Ready, x
    <3>3. Ready(a, b) = 0
      BY <1>8, <1>13, <2>1
    <3> QED
      BY <1>6, <1>7, <2>7, <3>2, <3>3 DEF Remain
  <2>10. Span(v) \cup TimeOf(a) \cup TimeOf(c) = TimeOf(a) \cup TimeOf(b)
    BY <1>7, <2>5, <2>7
  <2>11. Plain(l1, l2) => Span(v) \cap (TimeOf(a) \cup TimeOf(c)) = {}
    <3> SUFFICES ASSUME Plain(l1, l2), NEW z \in Span(v), z \in TimeOf(a) \/ z \in TimeOf(c)
                 PROVE  FALSE
      OBVIOUS
    <3>1. z < x.s /\ z \in Int /\ z \in Span(y) /\ z \notin Span(w)
      BY <2>4, <2>5
    <3>2. z \notin TimeOf(a)
      BY <1>8, <1>15, <3>1
    <3>3. z \notin TimeOf(r)
      BY <1>15, <3>1
    <3> QED
      BY <2>7, <3>1, <3>2, <3>3
  <2>12. RightPut(l1, l2, v, a, b, a, c)
    BY <2>8, <2>9, <2>10, <2>11 DEF RightPut
  <2>13. PutNext(st) = [out |-> Append(st.out, v), a |-> a, b |-> c]
    BY <1>5, <2>1 DEF c
  <2> QED
    BY <1>1, <1>4, <2>2, <2>7, <2>12, <2>13
<1>20. CASE FirstPasses(x, y, st)
  <2>1. ~Intersects(x, y) /\ x.s <= y.s /\ PutsFirst(st, b)
    BY <1>20 DEF FirstPasses, b
  <2>2. Remain(q, b) + 1 <= Remain(a, b)
    <3>1. Ready(q, b) \in {0, 1} /\ Ready(a, b) = 0
      BY <1>1, <1>6, <1>13, <1>16, <2>1
    <3> QED
      BY <1>6, <1>7, <3>1 DEF Remain
  <2>3. RightPut(l1, l2, x, a, b, q, b)
    BY <1>6, <1>10, <1>15, <2>1, <2>2 DEF RightPut
  <2> QED
    BY <1>1, <1>4, <1>5, <1>6, <2>1, <2>3
<1>21. CASE SecondPasses(x, y, st)
  <2>1. ~Intersects(x, y) /\ y.s < x.s /\ PutsSecond(st, y, r)
    BY <1>21 DEF SecondPasses, r, b
  <2>2. Remain(a, r) + 1 <= Remain(a, b)
    <3>1. Ready(a, r) \in {0, 1} /\ Ready(a, b) = 0
      BY <1>1, <1>7, <1>13, <1>16, <2>1
    <3> QED
      BY <1>6, <1>7, <3>1 DEF Remain
  <2>3. RightPut(l1, l2, y, a, b, a, r)
    BY <1>7, <1>10, <1>15, <2>1, <2>2 DEF RightPut
  <2> QED
    BY <1>1, <1>4, <1>5, <1>7, <2>1, <2>3
<1> QED
  BY <1>3, <1>17, <1>18, <1>19, <1>20, <1>21

LEMMA PutNextType ==
  ASSUME NEW D, NEW st \in UnionState(D)
  PROVE  PutNext(st) \in UnionState(D)
<1> DEFINE a == st.a
           b == st.b
           x == Head(a)
           y == Head(b)
           q == Tail(a)
           r == Tail(b)
<1>1. st.out \in Seq(Events(D)) /\ a \in Seq(Events(D)) /\ b \in Seq(Events(D))
  BY DEF UnionState
<1>2. CASE a = <<>> \/ b = <<>>
  BY <1>2 DEF PutNext
<1>3. CASE a # <<>> /\ b # <<>>
  <2>1. FirstSwallows(x, y, st) \/ FirstCuts(x, y, st) \/ SecondIsSplit(x, y, st)
        \/ FirstPasses(x, y, st) \/ SecondPasses(x, y, st)
    BY <1>3, PutNextCases
  <2>2. /\ x \in Events(D) /\ q \in Seq(Events(D)) /\ y \in Events(D) /\ r \in Seq(Events(D))
    BY <1>1, <1>3
  <2>3. /\ x.s \in Int /\ x.e \in Int /\ y.s \in Int /\ y.e \in Int /\ y.d \in D
    BY <2>2, EventOf
  <2> HIDE DEF a, b, x, y, q, r
  <2>4. \A v \in Events(D), c, e \in Seq(Events(D)) :
           PutNext(st) = [out |-> Append(st.out, v), a |-> c, b |-> e] => PutNext(st) \in UnionState(D)
    <3> TAKE v \in Events(D), c \in Seq(Events(D)), e \in Seq(Events(D))
    <3>1. Append(st.out, v) \in Seq(Events(D))
      BY <1>1
    <3> QED
      BY <3>1 DEF UnionState
  <2>5. \A w \in Events(D) : <<w>> \o r \in Seq(Events(D))
    BY <2>2
  <2>6. CASE FirstSwallows(x, y, st)
    BY <2>2, <2>4, <2>6 DEF FirstSwallows, PutsFirst, a, b, x, q, r
  <2>7. CASE FirstCuts(x, y, st)
    <3> DEFINE w == [s |-> x.e, e |-> y.e, d |-> y.d]
               c == <<w>> \o r
    <3>1. w \in Events(D)
      BY <2>3, <2>7, IsEvent DEF FirstCuts
    <3>2. c \in Seq(Events(D))
      BY <2>5, <3>1
    <3>3. PutNext(st) = [out |-> Append(st.out, x), a |-> q, b |-> c]
      BY <2>7 DEF FirstCuts, PutsFirst, a, b, x, q, r
    <3> HIDE DEF c
    <3> QED
      BY <2>2, <2>4, <3>2, <3>3
  <2>8. CASE SecondIsSplit(x, y, st)
    <3> DEFINE v == [s |-> y.s, e |-> x.s, d |-> y.d]
               w == [s |-> x.s, e |-> y.e, d |-> y.d]
               c == <<w>> \o r
    <3>1. v \in Events(D) /\ w \in Events(D)
      <4>1. y.s <= x.s /\ x.s <= y.e
        BY <2>3, <2>8 DEF SecondIsSplit
      <4> QED
        BY <2>3, <4>1, IsEvent
    <3>2. c \in Seq(Events(D))
      BY <2>5, <3>1
    <3>3. PutNext(st) = [out |-> Append(st.out, v), a |-> a, b |-> c]
      BY <2>8 DEF SecondIsSplit, PutsSecond, a, b, r
    <3> HIDE DEF c, v
    <3> QED
      BY <1>1, <2>4, <3>1, <3>2, <3>3
  <2>9. CASE FirstPasses(x, y, st)
    <3>1. PutNext(st) = [out |-> Append(st.out, x), a |-> q, b |-> b]
      BY <2>9 DEF FirstPasses, PutsFirst, a, b, x, q
    <3> QED
      BY <1>1, <2>2, <2>4, <3>1
  <2>10. CASE SecondPasses(x, y, st)
    <3>1. PutNext(st) = [out |-> Append(st.out, y), a |-> a, b |-> r]
      BY <2>10 DEF SecondPasses, PutsSecond, a, b, r
    <3> QED
      BY <1>1, <2>2, <2>4, <3>1
  <2> QED
    BY <2>1, <2>6, <2>7, <2>8, <2>9, <2>10
<1> QED
  BY <1>2, <1>3

PutAll(st, n) == Iterated(PutNext, st, n)

UnionGoes(D, st, n) ==
    \E c \in [0..n -> UnionState(D)] :
       /\ c[0] = st
       /\ \A k \in 1..n : c[k] = PutNext(c[k - 1])
       /\ PutAll(st, n) = c[n]

\* The states union_no_overlap goes through.
LEMMA UnionCourse ==
  ASSUME NEW D, NEW st \in UnionState(D), NEW n \in Nat
  PROVE  UnionGoes(D, st, n)
<1> DEFINE S == UnionState(D)
           Is(f) == f = [s \in SUBSET (1..n) |->
                            IF s = {} THEN st ELSE PutNext(f[s \ {Max(s)}])]
           fold == CHOOSE f : Is(f)
           F == [p \in S \X (1..n) |-> PutNext(p[1])]
<1>2. PutAll(st, n)
         = (CHOOSE f : f = [s \in SUBSET DOMAIN [k \in 1..n |-> k] |->
                               IF s = {} THEN st ELSE PutNext(f[s \ {Max(s)}])])[DOMAIN [k \in 1..n |-> k]]
  BY DEF PutAll, Iterated, FoldLeft, MapThenFoldSet
<1>3. PutAll(st, n) = fold[1..n]
  <2>1. DOMAIN [k \in 1..n |-> k] = 1..n
    OBVIOUS
  <2> QED
    BY <1>2, <2>1
<1> HIDE DEF S
<1>4. F \in [S \X (1..n) -> S]
  <2>1. ASSUME NEW p \in S \X (1..n) PROVE PutNext(p[1]) \in S
    BY PutNextType DEF S
  <2> QED
    BY <2>1
<1>5. \A u \in S, k \in 1..n : F[<<u, k>>] = PutNext(u)
  OBVIOUS
<1> HIDE DEF F
<1>6. PICK g \in [SUBSET (1..n) -> S] :
         \A s \in SUBSET (1..n) : g[s] = IF s = {} THEN st ELSE F[<<g[s \ {Max(s)}], Max(s)>>]
  <2>1. st \in S
    BY DEF S
  <2>2. HasFold(S, st, n, F)
    BY <1>4, <2>1, FoldExists
  <2> QED
    BY <2>2 DEF HasFold
<1>7. Is(g)
  <2>1. ASSUME NEW s \in SUBSET (1..n)
        PROVE  g[s] = IF s = {} THEN st ELSE PutNext(g[s \ {Max(s)}])
    <3>1. CASE s = {}
      BY <1>6, <3>1
    <3>2. CASE s # {}
      <4>1. Max(s) \in 1..n
        BY <3>2, LastOfPositions
      <4>2. g[s \ {Max(s)}] \in S
        OBVIOUS
      <4> QED
        BY <1>5, <1>6, <3>2, <4>1, <4>2
    <3> QED
      BY <3>1, <3>2
  <2> QED
    BY <2>1
<1>8. Is(fold)
  <2> HIDE DEF Is
  <2> QED
    BY <1>7
<1>9. \A s \in SUBSET (1..n) :
         fold[s] = IF s = {} THEN st ELSE PutNext(fold[s \ {Max(s)}])
  <2> HIDE DEF fold
  <2> QED
    BY <1>8
<1> HIDE DEF fold
<1> DEFINE c == [k \in 0..n |-> fold[1..k]]
<1>10. c[0] = st
  <2>1. 0 \in 0..n /\ 1..0 = {} /\ {} \in SUBSET (1..n)
    OBVIOUS
  <2> QED
    BY <1>9, <2>1
<1>11. ASSUME NEW k \in 1..n PROVE c[k] = PutNext(c[k - 1])
  <2>1. k \in Nat /\ k # 0 /\ k \in 0..n /\ k - 1 \in 0..n /\ 1..k \in SUBSET (1..n)
    OBVIOUS
  <2>2. Max(1..k) = k /\ (1..k) \ {k} = 1..(k - 1) /\ 1..k # {}
    BY <2>1, LastOfSegment
  <2>3. fold[1..k] = PutNext(fold[1..(k - 1)])
    BY <1>9, <2>1, <2>2
  <2> QED
    BY <2>1, <2>3
<1>12. \A k \in 0..n : c[k] \in S
  <2> DEFINE G == {k \in 0..n : c[k] \in S}
  <2>1. 0 \in G
    BY <1>10 DEF S
  <2>2. ASSUME NEW k \in 1..n, k - 1 \in G PROVE k \in G
    <3>1. c[k - 1] \in UnionState(D) /\ k \in 0..n
      BY <2>2 DEF S
    <3> HIDE DEF c
    <3>2. PutNext(c[k - 1]) \in UnionState(D)
      BY <3>1, PutNextType
    <3> QED
      BY <1>11, <3>1, <3>2 DEF S
  <2> HIDE DEF G
  <2>3. \A k \in 0..n : k \in G
    BY <2>1, <2>2, AllTheWay
  <2> QED
    BY <2>3 DEF G
<1>13. c \in [0..n -> S] /\ c[n] = fold[1..n]
  <2>1. n \in 0..n
    OBVIOUS
  <2> QED
    BY <1>12, <2>1
<1> HIDE DEF c
<1> QED
  BY <1>3, <1>10, <1>11, <1>13 DEF S, UnionGoes

\* union_no_overlap keeps the time of both lists and all of the first one's, and
\* counts none twice if the lists are plain.
LEMMA UnionKeeps ==
  ASSUME NEW D, NEW l1 \in Seq(Events(D)), NEW l2 \in Seq(Events(D))
  PROVE  LET out == UnionNoOverlap(l1, l2)
         IN  /\ TimeOf(out) = TimeOf(l1) \cup TimeOf(l2)
             /\ Timed(l1) \subseteq Timed(out)
             /\ Plain(l1, l2) => Disjoint(out)
<1> DEFINE n == 2 * (Len(l1) + Len(l2))
           start == [out |-> <<>>, a |-> l1, b |-> l2]
           end == PutAll(start, n)
           out == UnionNoOverlap(l1, l2)
<1>1. n \in Nat /\ start \in UnionState(D) /\ Len(l1) \in Nat /\ Len(l2) \in Nat
  BY DEF UnionState
<1>2. out = end.out \o end.a \o end.b
  BY DEF UnionNoOverlap, PutAll
<1>3. start.out = <<>> /\ start.a = l1 /\ start.b = l2
  OBVIOUS
<1>4. UnionInv(l1, l2, 0, start)
  <2>1. UnionShape(l1, l2, l1, l2)
    <3>1. \A m \in DOMAIN l1 : Len(l1) - Len(l1) + m = m
      OBVIOUS
    <3>2. \A m \in DOMAIN l2 : Len(l2) - Len(l2) + m = m /\ RestOf(l2[m], l2[m])
      <4> TAKE m \in DOMAIN l2
      <4>1. l2[m] \in Events(D) /\ Len(l2) - Len(l2) + m = m
        OBVIOUS
      <4> DEFINE v == l2[m]
      <4>2. v \in Events(D)
        BY <4>1
      <4> HIDE DEF v
      <4>3. RestOf(v, v)
        BY <4>2, EventOf DEF RestOf
      <4> QED
        BY <4>1, <4>3 DEF v
    <3> QED
      BY <1>1, <3>1, <3>2 DEF UnionShape
  <2>2. l1 = <<>> \/ l2 = <<>> \/ Remain(l1, l2) + 0 <= n
    <3>1. Ready(l1, l2) \in {0, 1}
      BY RemainIsInt
    <3> QED
      BY <1>1, <3>1 DEF Remain
  <2> HIDE DEF start
  <2> QED
    BY <1>3, <2>1, <2>2, TimeOfNone DEF UnionInv
<1> HIDE DEF n, start, out
<1>5. PICK c \in [0..n -> UnionState(D)] :
         /\ c[0] = start
         /\ \A k \in 1..n : c[k] = PutNext(c[k - 1])
         /\ end = c[n]
  <2>1. UnionGoes(D, start, n)
    BY <1>1, UnionCourse
  <2> QED
    BY <2>1 DEF UnionGoes
<1> HIDE DEF end
<1> DEFINE G == {k \in 0..n : UnionInv(l1, l2, k, c[k])}
<1>6. 0 \in G
  BY <1>1, <1>4, <1>5
<1>7. ASSUME NEW k \in 1..n, k - 1 \in G PROVE k \in G
  <2> DEFINE u == c[k - 1]
  <2>1. /\ k - 1 \in Nat /\ u \in UnionState(D) /\ UnionInv(l1, l2, k - 1, u)
        /\ k \in 0..n /\ k - 1 + 1 = k /\ c[k] = PutNext(u)
    BY <1>1, <1>5, <1>7
  <2> HIDE DEF u
  <2>2. CASE u.a # <<>> /\ u.b # <<>>
    <3>1. UnionInv(l1, l2, k - 1 + 1, PutNext(u))
      BY <2>1, <2>2, PutNextKeepsInv
    <3> QED
      BY <2>1, <3>1
  <2>3. CASE u.a = <<>> \/ u.b = <<>>
    <3>1. PutNext(u) = u
      BY <2>3 DEF PutNext
    <3>2. UnionInv(l1, l2, k, u)
      BY <2>1, <2>3 DEF UnionInv
    <3> QED
      BY <2>1, <3>1, <3>2
  <2> QED
    BY <2>2, <2>3
<1>8. UnionInv(l1, l2, n, end) /\ end \in UnionState(D)
  <2> HIDE DEF G
  <2>1. \A k \in 0..n : k \in G
    BY <1>1, <1>6, <1>7, AllTheWay
  <2>2. n \in 0..n
    BY <1>1
  <2> QED
    BY <1>5, <2>1, <2>2 DEF G
<1> HIDE DEF G
<1>9. end.out \in Seq(Events(D)) /\ end.a \in Seq(Events(D)) /\ end.b \in Seq(Events(D))
  BY <1>8 DEF UnionState
<1>10. end.a = <<>> \/ end.b = <<>>
  <2> SUFFICES ASSUME end.a # <<>>, end.b # <<>> PROVE FALSE
    OBVIOUS
  <2>1. Remain(end.a, end.b) + n <= n
    BY <1>8 DEF UnionInv, n
  <2> DEFINE p == end.a
             q == end.b
  <2>2. p \in Seq(Events(D)) /\ q \in Seq(Events(D)) /\ p # <<>> /\ q # <<>>
    BY <1>9
  <2> HIDE DEF p, q
  <2>3. Remain(p, q) \in Int /\ Remain(p, q) >= 2
    BY <2>2, RemainIsInt
  <2> QED
    BY <1>1, <2>1, <2>3 DEF p, q
<1> DEFINE m == end.out \o end.a
<1>11. /\ m \in Seq(Events(D))
       /\ TimeOf(m) = TimeOf(end.out) \cup TimeOf(end.a)
       /\ Timed(m) = Timed(end.out) \cup Timed(end.a)
       /\ Disjoint(m) <=> /\ Disjoint(end.out) /\ Disjoint(end.a)
                          /\ TimeOf(end.out) \cap TimeOf(end.a) = {}
  BY <1>9, TimeOfConcat
<1> HIDE DEF m
<1>12. /\ TimeOf(out) = TimeOf(m) \cup TimeOf(end.b)
       /\ Timed(out) = Timed(m) \cup Timed(end.b)
       /\ Disjoint(out) <=> /\ Disjoint(m) /\ Disjoint(end.b)
                            /\ TimeOf(m) \cap TimeOf(end.b) = {}
  <2>1. out = m \o end.b
    BY <1>2 DEF m
  <2> QED
    BY <1>9, <1>11, <2>1, TimeOfConcat
<1>13. Plain(l1, l2) => Disjoint(end.a) /\ Disjoint(end.b)
  <2> SUFFICES ASSUME Plain(l1, l2) PROVE Disjoint(end.a) /\ Disjoint(end.b)
    OBVIOUS
  <2> DEFINE a == end.a
             b == end.b
  <2>1. a \in Seq(Events(D)) /\ b \in Seq(Events(D)) /\ UnionShape(l1, l2, a, b)
    BY <1>8, <1>9 DEF UnionInv
  <2> HIDE DEF a, b
  <2>2. /\ Len(a) \in Nat /\ Len(b) \in Nat /\ DOMAIN a = 1..Len(a) /\ DOMAIN b = 1..Len(b)
        /\ DOMAIN l1 = 1..Len(l1) /\ DOMAIN l2 = 1..Len(l2)
        /\ Len(a) <= Len(l1) /\ Len(b) <= Len(l2)
    BY <2>1 DEF UnionShape
  <2>3. ASSUME NEW i \in DOMAIN a, NEW j \in DOMAIN a, i # j PROVE Span(a[i]) \cap Span(a[j]) = {}
    <3> DEFINE o == Len(l1) - Len(a)
    <3>1. o + i \in DOMAIN l1 /\ o + j \in DOMAIN l1 /\ o + i # o + j
      BY <1>1, <2>2, <2>3
    <3>2. a[i] = l1[o + i] /\ a[j] = l1[o + j]
      BY <2>1 DEF UnionShape
    <3> HIDE DEF o
    <3> QED
      BY <3>1, <3>2 DEF Plain, Disjoint
  <2>4. ASSUME NEW i \in DOMAIN b, NEW j \in DOMAIN b, i # j PROVE Span(b[i]) \cap Span(b[j]) = {}
    <3> DEFINE o == Len(l2) - Len(b)
    <3>1. o + i \in DOMAIN l2 /\ o + j \in DOMAIN l2 /\ o + i # o + j
      BY <1>1, <2>2, <2>4
    <3>2. RestOf(b[i], l2[o + i]) /\ RestOf(b[j], l2[o + j])
      BY <2>1 DEF UnionShape
    <3> HIDE DEF o
    <3>3. ASSUME NEW v \in Events(D), NEW w \in Events(D), RestOf(v, w) PROVE Span(v) \subseteq Span(w)
      <4>1. /\ v.s \in Int /\ w.s \in Int /\ w.s <= v.s /\ v.e = w.e
            /\ \A z : z \in Span(v) <=> z \in Int /\ v.s <= z /\ z < v.e
            /\ \A z : z \in Span(w) <=> z \in Int /\ w.s <= z /\ z < w.e
        BY <3>3, EventOf DEF RestOf
      <4> QED
        BY <4>1
    <3>4. b[i] \in Events(D) /\ b[j] \in Events(D) /\ l2[o + i] \in Events(D) /\ l2[o + j] \in Events(D)
      BY <2>1, <3>1
    <3>5. Span(b[i]) \subseteq Span(l2[o + i]) /\ Span(b[j]) \subseteq Span(l2[o + j])
      BY <3>2, <3>3, <3>4
    <3> QED
      BY <3>1, <3>5 DEF Plain, Disjoint
  <2> QED
    BY <2>3, <2>4 DEF Disjoint, a, b
<1>14. /\ TimeOf(end.out) \cup TimeOf(end.a) \cup TimeOf(end.b) = TimeOf(l1) \cup TimeOf(l2)
       /\ Timed(l1) \subseteq Timed(end.out) \cup Timed(end.a)
       /\ Plain(l1, l2) => /\ Disjoint(end.out)
                           /\ TimeOf(end.out) \cap (TimeOf(end.a) \cup TimeOf(end.b)) = {}
  BY <1>8 DEF UnionInv
<1>15. TimeOf(end.a) \cap TimeOf(end.b) = {}
  BY <1>10, TimeOfNone
<1>16. TimeOf(out) = TimeOf(l1) \cup TimeOf(l2) /\ Timed(l1) \subseteq Timed(out)
  BY <1>11, <1>12, <1>14
<1>17. Plain(l1, l2) => Disjoint(out)
  BY <1>11, <1>12, <1>13, <1>14, <1>15
<1> QED
  BY <1>16, <1>17 DEF out

\* The states a fold goes through, one for each position.
Runs(S, base, n, F, end) ==
    \E c \in [0..n -> S] :
       /\ c[0] = base /\ end = c[n]
       /\ \A k \in 1..n : c[k] = F[<<c[k - 1], k>>]

LEMMA FoldRuns ==
  ASSUME NEW S, NEW base \in S, NEW n \in Nat, NEW F \in [S \X (1..n) -> S],
         NEW fold, fold[{}] = base,
         \A s \in SUBSET (1..n) :
            s # {} /\ fold[s \ {Max(s)}] \in S => fold[s] = F[<<fold[s \ {Max(s)}], Max(s)>>]
  PROVE  Runs(S, base, n, F, fold[1..n])
<1> DEFINE c == [k \in 0..n |-> fold[1..k]]
           G == {k \in 0..n : c[k] \in S}
<1>1. c[0] = base
  <2>1. 0 \in 0..n /\ 1..0 = {}
    OBVIOUS
  <2> QED
    BY <2>1
<1>2. ASSUME NEW k \in 1..n, c[k - 1] \in S PROVE c[k] = F[<<c[k - 1], k>>]
  <2>1. k \in Nat /\ k # 0 /\ k \in 0..n /\ k - 1 \in 0..n /\ 1..k \in SUBSET (1..n)
    OBVIOUS
  <2>2. Max(1..k) = k /\ (1..k) \ {k} = 1..(k - 1) /\ 1..k # {}
    BY <2>1, LastOfSegment
  <2>3. c[k - 1] = fold[1..(k - 1)] /\ c[k] = fold[1..k]
    BY <2>1
  <2> HIDE DEF c
  <2> DEFINE s == 1..k
  <2>4. s \in SUBSET (1..n) /\ s # {} /\ Max(s) = k /\ s \ {Max(s)} = 1..(k - 1)
    BY <2>1, <2>2
  <2>5. fold[s \ {Max(s)}] \in S
    BY <1>2, <2>3, <2>4
  <2> HIDE DEF s
  <2>6. fold[s] = F[<<fold[s \ {Max(s)}], Max(s)>>]
    BY <2>4, <2>5
  <2> QED
    BY <2>3, <2>4, <2>6 DEF s
<1>3. 0 \in G
  BY <1>1
<1>4. ASSUME NEW k \in 1..n, k - 1 \in G PROVE k \in G
  <2>1. c[k - 1] \in S /\ k \in 0..n
    BY <1>4
  <2> HIDE DEF c
  <2>2. c[k] = F[<<c[k - 1], k>>] /\ F[<<c[k - 1], k>>] \in S
    BY <1>2, <2>1
  <2> QED
    BY <2>1, <2>2
<1>5. \A k \in 0..n : k \in G
  <2> HIDE DEF G
  <2> QED
    BY <1>3, <1>4, AllTheWay
<1>6. c \in [0..n -> S] /\ c[n] = fold[1..n] /\ \A k \in 1..n : k - 1 \in 0..n
  <2>1. n \in 0..n
    OBVIOUS
  <2> QED
    BY <1>5, <2>1
<1> HIDE DEF c
<1>7. \A k \in 1..n : c[k] = F[<<c[k - 1], k>>]
  BY <1>2, <1>6
<1> QED
  BY <1>1, <1>6, <1>7 DEF Runs

(***************************************************************************)
(* period_union.                                                           *)
(***************************************************************************)
LEMMA FrontAndLast ==
  ASSUME NEW S, NEW l \in Seq(S), l # <<>>
  PROVE  /\ Front(l) \in Seq(S) /\ Last(l) \in S /\ l = Append(Front(l), Last(l))
         /\ Len(l) \in Nat \ {0} /\ Len(Front(l)) = Len(l) - 1 /\ Last(l) = l[Len(l)]
         /\ \A i \in 1..(Len(l) - 1) : Front(l)[i] = l[i]
<1>1. Len(l) \in Nat \ {0} /\ Last(l) = l[Len(l)] /\ l[Len(l)] \in S
  BY DEF Last
<1>2. Front(l) = SubSeq(l, 1, Len(l) - 1)
  BY DEF Front
<1>3. /\ Front(l) \in Seq(S) /\ Len(Front(l)) = Len(l) - 1
      /\ \A i \in 1..(Len(l) - 1) : Front(l)[i] = l[i]
  <2> DEFINE n == Len(l) - 1
             f == [i \in 1..n |-> l[i]]
  <2>1. n \in Nat /\ 1 \in Int /\ \A i \in 1..n : i \in 1..Len(l) /\ l[i] \in S
    BY <1>1
  <2>2. Front(l) = f
    <3>1. SubSeq(l, 1, Len(l) - 1) = [i \in 1..(Len(l) - 1) |-> l[i]]
      BY <1>1, <2>1, SMT
    <3> QED
      BY <1>2, <3>1
  <2> HIDE DEF n
  <2>3. f \in Seq(S) /\ Len(f) = n /\ \A i \in 1..n : f[i] = l[i]
    BY <2>1
  <2> HIDE DEF f
  <2> QED
    BY <2>2, <2>3 DEF n
<1> DEFINE m == Append(Front(l), Last(l))
<1>4. m \in Seq(S) /\ Len(m) = Len(l) /\ \A i \in 1..Len(l) : m[i] = l[i]
  <2> DEFINE f == Front(l)
             v == Last(l)
  <2>1. f \in Seq(S) /\ v \in S /\ Len(f) = Len(l) - 1
    BY <1>1, <1>3
  <2>2. v = l[Len(l)] /\ \A i \in 1..(Len(l) - 1) : f[i] = l[i]
    BY <1>1, <1>3
  <2> HIDE DEF f, v
  <2>3. Append(f, v) \in Seq(S) /\ Len(Append(f, v)) = Len(l)
    BY <1>1, <2>1
  <2>4. ASSUME NEW i \in 1..Len(l) PROVE Append(f, v)[i] = l[i]
    <3>1. i \in 1..(Len(l) - 1) \/ i = Len(f) + 1
      BY <1>1, <2>1
    <3> QED
      BY <1>1, <2>1, <2>2, <3>1
  <2> QED
    BY <2>3, <2>4 DEF f, v
<1> HIDE DEF m
<1>5. m = l
  <2>1. DOMAIN m = 1..Len(l) /\ DOMAIN l = 1..Len(l) /\ m = [i \in DOMAIN m |-> m[i]]
        /\ l = [i \in DOMAIN l |-> l[i]]
    BY <1>4
  <2> QED
    BY <1>4, <2>1
<1> QED
  BY <1>1, <1>3, <1>5 DEF m

\* Each ends before the next begins.
InTurn(l) == \A k, n \in DOMAIN l : k < n => l[k].e < l[n].s

\* The first k events of l as periods.
United(l, k, out) ==
    /\ InTurn(out)
    /\ \A j \in (k + 1)..Len(l) : \A i \in DOMAIN out : out[i].s <= l[j].s
    /\ \A z : z \in TimeOf(out) <=> \E j \in 1..k : z \in Span(l[j])

LEMMA UniteCases ==
  ASSUME NEW D, NEW out \in Seq(Events(D)), NEW ev \in Events(D)
  PROVE  \/ /\ out = <<>> \/ ev.e < Last(out).s \/ Last(out).e < ev.s
            /\ Unite(out, ev) = Append(out, ev)
         \/ /\ out # <<>> /\ Last(out).s <= ev.e /\ ev.s <= Last(out).e
            /\ Unite(out, ev) = Append(Front(out), [s |-> Last(out).s, e |-> Later(ev.e, Last(out).e),
                                                    d |-> Last(out).d])
<1>1. CASE out = <<>>
  BY <1>1 DEF Unite
<1>2. CASE out # <<>>
  <2> DEFINE w == Last(out)
             f == Front(out)
  <2>1. w \in Events(D)
    BY <1>2, FrontAndLast
  <2>2. Unite(out, ev) = IF Gap(ev, w) THEN Append(out, ev)
                         ELSE Append(f, [w EXCEPT !.e = Union(ev, w).e])
    BY <1>2 DEF Unite
  <2> HIDE DEF w, f
  <2>3. /\ w.s \in Int /\ w.e \in Int /\ w = [s |-> w.s, e |-> w.e, d |-> w.d]
        /\ ev.s \in Int /\ ev.e \in Int /\ ev = [s |-> ev.s, e |-> ev.e, d |-> ev.d]
    BY <2>1, EventOf
  <2>4. Union(ev, w).e = Later(ev.e, w.e)
    <3> DEFINE a == Earlier(ev.s, w.s)
               b == Later(ev.e, w.e)
               mid == [ev EXCEPT !.s = a]
    <3>1. Union(ev, w) = [mid EXCEPT !.e = b]
      BY DEF Union
    <3> HIDE DEF a, b
    <3>2. mid = [s |-> a, e |-> ev.e, d |-> ev.d]
      BY <2>3, EventWith
    <3> HIDE DEF mid
    <3>3. [mid EXCEPT !.e = b].e = b
      BY <3>2
    <3> QED
      BY <3>1, <3>3 DEF b
  <2>5. [w EXCEPT !.e = Union(ev, w).e] = [s |-> w.s, e |-> Later(ev.e, w.e), d |-> w.d]
    <3> DEFINE b == Later(ev.e, w.e)
    <3> HIDE DEF b
    <3>1. [w EXCEPT !.e = b] = [s |-> w.s, e |-> b, d |-> w.d]
      BY <2>3, EventWith
    <3> QED
      BY <2>4, <3>1 DEF b
  <2>6. CASE Gap(ev, w)
    BY <2>2, <2>6 DEF Gap, w
  <2>7. CASE ~Gap(ev, w)
    <3>1. w.s <= ev.e /\ ev.s <= w.e
      BY <2>3, <2>7 DEF Gap
    <3>2. Unite(out, ev) = Append(f, [s |-> w.s, e |-> Later(ev.e, w.e), d |-> w.d])
      BY <2>2, <2>5, <2>7
    <3> QED
      BY <1>2, <3>1, <3>2 DEF w, f
  <2> QED
    BY <2>6, <2>7
<1> QED
  BY <1>1, <1>2

LEMMA UniteType ==
  ASSUME NEW D, NEW out \in Seq(Events(D)), NEW ev \in Events(D)
  PROVE  Unite(out, ev) \in Seq(Events(D))
<1> DEFINE w == Last(out)
           v == [s |-> w.s, e |-> Later(ev.e, w.e), d |-> w.d]
<1>1. ASSUME out # <<>> PROVE Front(out) \in Seq(Events(D)) /\ v \in Events(D)
  <2>1. w \in Events(D) /\ Front(out) \in Seq(Events(D))
    BY <1>1, FrontAndLast
  <2> HIDE DEF w
  <2>2. w.s \in Int /\ w.e \in Int /\ w.d \in D /\ w.s <= w.e /\ ev.e \in Int
    BY <2>1, EventOf
  <2>3. Later(ev.e, w.e) \in Int /\ w.s <= Later(ev.e, w.e)
    BY <2>2 DEF Later
  <2> QED
    BY <2>1, <2>2, <2>3, IsEvent
<1>2. Unite(out, ev) = Append(out, ev) \/ (out # <<>> /\ Unite(out, ev) = Append(Front(out), v))
  BY UniteCases
<1> HIDE DEF v
<1> DEFINE f == Front(out)
<1>3. f \in Seq(Events(D)) /\ v \in Events(D) => Append(f, v) \in Seq(Events(D))
  <2> HIDE DEF f
  <2> QED
    OBVIOUS
<1>4. Append(out, ev) \in Seq(Events(D))
  OBVIOUS
<1> QED
  BY <1>1, <1>2, <1>3, <1>4

LEMMA UniteKeeps ==
  ASSUME NEW D, NEW l \in Seq(Events(D)), Ordered(l), NEW k \in 1..Len(l),
         NEW out \in Seq(Events(D)), United(l, k - 1, out)
  PROVE  United(l, k, Unite(out, l[k]))
<1> DEFINE ev == l[k]
           n == Len(l)
<1>1. /\ n \in Nat /\ DOMAIN l = 1..n /\ k \in 1..n /\ ev \in Events(D)
      /\ \A j \in 1..n : l[j] \in Events(D)
  OBVIOUS
<1>2. /\ ev.s \in Int /\ ev.e \in Int /\ ev.s <= ev.e
      /\ \A x : x \in Span(ev) <=> x \in Int /\ ev.s <= x /\ x < ev.e
  BY <1>1, EventOf
<1>3. \A j \in (k + 1)..n : ev.s <= l[j].s
  BY <1>1 DEF Ordered
<1>4. /\ InTurn(out)
      /\ \A j \in k..n : \A i \in DOMAIN out : out[i].s <= l[j].s
      /\ \A z : z \in TimeOf(out) <=> \E j \in 1..(k - 1) : z \in Span(l[j])
  <2>1. (k - 1) + 1 = k
    BY <1>1
  <2> QED
    BY <2>1 DEF United
<1>5. \A j \in 1..k : j \in 1..(k - 1) \/ j = k
  BY <1>1
<1>6. \A j \in 1..(k - 1) : j \in 1..k
  BY <1>1
<1>7. k \in 1..k /\ k \in k..n /\ \A j \in (k + 1)..n : j \in k..n
  BY <1>1
<1> DEFINE N == Len(out)
<1>8. N \in Nat /\ DOMAIN out = 1..N /\ \A i \in 1..N : out[i] \in Events(D)
  OBVIOUS
<1>9. \A i \in 1..N : /\ out[i].s \in Int /\ out[i].e \in Int /\ out[i].s <= out[i].e
                      /\ out[i].s <= ev.s
  BY <1>4, <1>7, <1>8, EventOf
<1>10. ASSUME NEW m, \A z : z \in TimeOf(m) <=> z \in TimeOf(out) \/ z \in Span(ev),
              InTurn(m), \A i \in DOMAIN m : \/ m[i].s = ev.s
                                             \/ \E j \in 1..N : m[i].s = out[j].s
       PROVE  United(l, k, m)
  <2>1. \A z : z \in TimeOf(m) <=> \E j \in 1..k : z \in Span(l[j])
    BY <1>4, <1>5, <1>6, <1>7, <1>10
  <2>2. \A j \in (k + 1)..n : \A i \in DOMAIN m : m[i].s <= l[j].s
    BY <1>3, <1>4, <1>7, <1>8, <1>10
  <2> QED
    BY <1>10, <2>1, <2>2 DEF United
<1> HIDE DEF ev, n, N
<1>11. CASE /\ out = <<>> \/ ev.e < Last(out).s \/ Last(out).e < ev.s
            /\ Unite(out, ev) = Append(out, ev)
  <2> DEFINE m == Append(out, ev)
  <2>1. /\ m \in Seq(Events(D)) /\ TimeOf(m) = TimeOf(out) \cup Span(ev)
    BY <1>1, TimeOfAppend
  <2>2. DOMAIN m = 1..(N + 1) /\ m[N + 1] = ev /\ \A i \in 1..N : m[i] = out[i]
    BY <1>1, <1>8 DEF N
  <2>3. \A i \in 1..(N + 1) : i \in 1..N \/ i = N + 1
    BY <1>8
  <2>4. \A i \in 1..N : out[i].e < ev.s
    <3> TAKE i \in 1..N
    <3>1. out # <<>> /\ Last(out) = out[N] /\ N \in 1..N
      BY <1>8 DEF Last, N
    <3>2. out[N].e < ev.s
      BY <1>2, <1>9, <1>11, <3>1
    <3>3. CASE i = N
      BY <3>2, <3>3
    <3>4. CASE i # N
      <4>1. i < N
        BY <1>8, <3>4
      <4>2. out[i].e < out[N].s
        BY <1>4, <1>8, <3>1, <4>1 DEF InTurn
      <4> QED
        BY <1>2, <1>9, <3>1, <3>2, <4>2
    <3> QED
      BY <3>3, <3>4
  <2>5. InTurn(m)
    <3> SUFFICES ASSUME NEW i \in 1..(N + 1), NEW j \in 1..(N + 1), i < j
                 PROVE  m[i].e < m[j].s
      BY <2>2 DEF InTurn
    <3>1. i \in 1..N
      BY <1>8
    <3>2. CASE j \in 1..N
      BY <1>4, <1>8, <2>2, <3>1, <3>2 DEF InTurn
    <3>3. CASE j = N + 1
      BY <2>2, <2>4, <3>1, <3>3
    <3> QED
      BY <2>3, <3>2, <3>3
  <2>6. \A i \in DOMAIN m : m[i].s = ev.s \/ \E j \in 1..N : m[i].s = out[j].s
    BY <2>2, <2>3
  <2>7. \A z : z \in TimeOf(m) <=> z \in TimeOf(out) \/ z \in Span(ev)
    BY <2>1
  <2> HIDE DEF m
  <2>8. United(l, k, m)
    BY <1>10, <2>5, <2>6, <2>7
  <2> QED
    BY <1>11, <2>8 DEF m, ev
<1>12. CASE /\ out # <<>> /\ Last(out).s <= ev.e /\ ev.s <= Last(out).e
            /\ Unite(out, ev) = Append(Front(out), [s |-> Last(out).s, e |-> Later(ev.e, Last(out).e),
                                                    d |-> Last(out).d])
  <2> DEFINE f == Front(out)
             w == Last(out)
             b == Later(ev.e, w.e)
             v == [s |-> w.s, e |-> b, d |-> w.d]
             m == Append(f, v)
  <2>1. /\ f \in Seq(Events(D)) /\ w \in Events(D) /\ out = Append(f, w)
        /\ N # 0 /\ Len(f) = N - 1 /\ w = out[N] /\ \A i \in 1..(N - 1) : f[i] = out[i]
    BY <1>12, FrontAndLast DEF N
  <2>2. ev.s <= w.e /\ Unite(out, ev) = m
    BY <1>12
  <2> HIDE DEF f, w
  <2>3. /\ w.s \in Int /\ w.e \in Int /\ w.d \in D /\ w.s <= w.e
        /\ \A x : x \in Span(w) <=> x \in Int /\ w.s <= x /\ x < w.e
    BY <2>1, EventOf
  <2>4. /\ N \in 1..N /\ N \in Nat /\ \A i \in 1..N : i \in 1..(N - 1) \/ i = N
        /\ \A i \in 1..(N - 1) : i \in 1..N
    BY <1>8, <2>1
  <2>5. w.s <= ev.s
    BY <1>9, <2>1, <2>4
  <2>6. b \in Int /\ w.s <= b /\ v.s = w.s /\ v.e = b
    BY <1>2, <2>3 DEF Later
  <2>7. v \in Events(D)
    BY <2>3, <2>6, IsEvent
  <2>8. \A x : x \in Span(v) <=> x \in Span(w) \/ x \in Span(ev)
    <3>1. \A x : x \in Span(v) <=> x \in Int /\ w.s <= x /\ x < b
      BY <2>6, <2>7, EventOf
    <3> HIDE DEF v
    <3> QED
      BY <1>2, <2>2, <2>3, <2>5, <3>1 DEF Later
  <2> HIDE DEF v, b
  <2>9. m \in Seq(Events(D)) /\ TimeOf(m) = TimeOf(f) \cup Span(v)
    BY <2>1, <2>7, TimeOfAppend
  <2>10. TimeOf(out) = TimeOf(f) \cup Span(w)
    <3>1. f \in Seq(Events(D)) /\ w \in Events(D)
      BY <2>1
    <3>2. TimeOf(Append(f, w)) = TimeOf(f) \cup Span(w)
      BY <3>1, TimeOfAppend
    <3> QED
      BY <2>1, <3>2
  <2>11. DOMAIN m = 1..N /\ m[N] = v /\ \A i \in 1..(N - 1) : m[i] = out[i]
    BY <2>1, <2>4, <2>7
  <2>12. InTurn(m)
    <3> SUFFICES ASSUME NEW i \in 1..N, NEW j \in 1..N, i < j
                 PROVE  m[i].e < m[j].s
      BY <2>11 DEF InTurn
    <3>1. i \in 1..(N - 1) /\ out[i].e < out[j].s
      BY <1>4, <1>8 DEF InTurn
    <3>2. m[j].s = out[j].s
      BY <2>1, <2>4, <2>6, <2>11
    <3> QED
      BY <2>11, <3>1, <3>2
  <2>13. \A i \in DOMAIN m : m[i].s = ev.s \/ \E j \in 1..N : m[i].s = out[j].s
    BY <2>1, <2>4, <2>6, <2>11
  <2>14. \A z : z \in TimeOf(m) <=> z \in TimeOf(out) \/ z \in Span(ev)
    BY <2>8, <2>9, <2>10
  <2> HIDE DEF m
  <2>15. United(l, k, m)
    BY <1>10, <2>12, <2>13, <2>14
  <2> QED
    BY <2>2, <2>15 DEF ev
<1> QED
  BY <1>1, <1>11, <1>12, UniteCases DEF ev

UniteAll(l) == FoldLeft(Unite, <<>>, l)

\* All of it: periods in turn, with the time of the events.
LEMMA UniteCourse ==
  ASSUME NEW D, NEW l \in Seq(Events(D)), Ordered(l)
  PROVE  UniteAll(l) \in Seq(Events(D)) /\ United(l, Len(l), UniteAll(l))
<1> DEFINE S == Seq(Events(D))
           n == Len(l)
           base == <<>>
           Is(f) == f = [s \in SUBSET (1..n) |->
                            IF s = {} THEN base ELSE Unite(f[s \ {Max(s)}], l[Max(s)])]
           fold == CHOOSE f : Is(f)
           F == [p \in S \X (1..n) |-> Unite(p[1], l[p[2]])]
<1>1. n \in Nat /\ DOMAIN l = 1..n /\ base \in S /\ \A k \in 1..n : l[k] \in Events(D)
  OBVIOUS
<1>2. UniteAll(l)
         = (CHOOSE f : f = [s \in SUBSET DOMAIN l |->
                               IF s = {} THEN base ELSE Unite(f[s \ {Max(s)}], l[Max(s)])])[DOMAIN l]
  BY DEF UniteAll, FoldLeft, MapThenFoldSet
<1>3. UniteAll(l) = fold[1..n]
  BY <1>1, <1>2
<1> HIDE DEF n, S
<1>4. F \in [S \X (1..n) -> S]
  <2>1. ASSUME NEW p \in S \X (1..n) PROVE Unite(p[1], l[p[2]]) \in S
    <3>1. p[1] \in Seq(Events(D)) /\ l[p[2]] \in Events(D)
      BY <1>1 DEF S
    <3>2. Unite(p[1], l[p[2]]) \in Seq(Events(D))
      BY <3>1, UniteType
    <3> QED
      BY <3>2 DEF S
  <2> QED
    BY <2>1
<1>5. \A out \in S, k \in 1..n : F[<<out, k>>] = Unite(out, l[k])
  OBVIOUS
<1> HIDE DEF F
<1>6. PICK g \in [SUBSET (1..n) -> S] :
         \A s \in SUBSET (1..n) : g[s] = IF s = {} THEN base ELSE F[<<g[s \ {Max(s)}], Max(s)>>]
  <2> HIDE DEF base
  <2>1. HasFold(S, base, n, F)
    BY <1>1, <1>4, FoldExists
  <2> QED
    BY <2>1 DEF HasFold
<1> HIDE DEF base
<1>7. \A s \in SUBSET (1..n) : s # {} => Max(s) \in 1..n
  BY <1>1, LastOfPositions
<1>8. Is(g)
  <2>1. ASSUME NEW s \in SUBSET (1..n)
        PROVE  g[s] = IF s = {} THEN base ELSE Unite(g[s \ {Max(s)}], l[Max(s)])
    BY <1>5, <1>6, <1>7
  <2> QED
    BY <2>1
<1>9. Is(fold)
  <2> HIDE DEF Is
  <2> QED
    BY <1>8
<1>10. \A s \in SUBSET (1..n) :
         fold[s] = IF s = {} THEN base ELSE Unite(fold[s \ {Max(s)}], l[Max(s)])
  <2> HIDE DEF fold
  <2> QED
    BY <1>9
<1> HIDE DEF fold
<1>11. Runs(S, base, n, F, fold[1..n])
  <2>1. fold[{}] = base
    BY <1>10
  <2>2. \A s \in SUBSET (1..n) :
           s # {} /\ fold[s \ {Max(s)}] \in S => fold[s] = F[<<fold[s \ {Max(s)}], Max(s)>>]
    BY <1>5, <1>7, <1>10
  <2> QED
    BY <1>1, <1>4, <2>1, <2>2, FoldRuns
<1>12. PICK c \in [0..n -> S] : /\ c[0] = base /\ fold[1..n] = c[n]
                               /\ \A k \in 1..n : c[k] = F[<<c[k - 1], k>>]
  BY <1>11 DEF Runs
<1> DEFINE G == {k \in 0..n : United(l, k, c[k])}
<1>13. 0 \in G
  <2>1. United(l, 0, <<>>)
    BY TimeOfNone DEF United, InTurn
  <2> QED
    BY <1>1, <1>12, <2>1 DEF base
<1>14. ASSUME NEW k \in 1..n, k - 1 \in G PROVE k \in G
  <2>1. k - 1 \in 0..n /\ k \in 0..n /\ k \in 1..Len(l)
    BY <1>1 DEF n
  <2>2. c[k - 1] \in Seq(Events(D)) /\ United(l, k - 1, c[k - 1]) /\ c[k] = Unite(c[k - 1], l[k])
    BY <1>5, <1>12, <1>14, <2>1 DEF S
  <2>3. United(l, k, Unite(c[k - 1], l[k]))
    <3> DEFINE out == c[k - 1]
    <3> HIDE DEF out
    <3>1. out \in Seq(Events(D)) /\ United(l, k - 1, out)
      BY <2>2 DEF out
    <3>2. United(l, k, Unite(out, l[k]))
      BY <2>1, <3>1, UniteKeeps
    <3> QED
      BY <3>2 DEF out
  <2> QED
    BY <2>1, <2>2, <2>3
<1>15. \A k \in 0..n : k \in G
  <2> HIDE DEF G
  <2>1. \A k \in 1..n : k - 1 \in G => k \in G
    BY <1>14
  <2> QED
    BY <1>1, <1>13, <2>1, AllTheWay
<1>16. n \in 0..n
  BY <1>1
<1> QED
  BY <1>3, <1>12, <1>15, <1>16 DEF n, S

\* period_union.
LEMMA PeriodUnionJoins ==
  ASSUME NEW D, NEW l1 \in Seq(Events(D)), NEW l2 \in Seq(Events(D))
  PROVE  LET out == PeriodUnion(l1, l2)
         IN  /\ out \in Seq(Events({{}})) /\ InTurn(out)
             /\ TimeOf(out) = TimeOf(l1) \cup TimeOf(l2)
<1> DEFINE m == l1 \o l2
           l == SortByTimestamp(m)
           u == UniteAll(l)
           out == [k \in DOMAIN u |-> [u[k] EXCEPT !.d = {}]]
<1>1. PeriodUnion(l1, l2) = out
  BY DEF PeriodUnion, UniteAll
<1>2. m \in Seq(Events(D)) /\ TimeOf(m) = TimeOf(l1) \cup TimeOf(l2)
  BY TimeOfConcat
<1> HIDE DEF m
<1>3. l \in Seq(Events(D)) /\ Ordered(l) /\ TimeOf(l) = TimeOf(m)
  BY <1>2, SortKeeps, RearrangedKeeps
<1> HIDE DEF l
<1>4. u \in Seq(Events(D)) /\ United(l, Len(l), u)
  BY <1>3, UniteCourse
<1> HIDE DEF u
<1>5. InTurn(u) /\ TimeOf(u) = TimeOf(l)
  <2>1. DOMAIN l = 1..Len(l)
    BY <1>3
  <2> QED
    BY <1>4, <2>1, TimeOfHas DEF United
<1>6. \A k \in DOMAIN u : /\ u[k] \in Events(D)
                          /\ out[k] = [s |-> u[k].s, e |-> u[k].e, d |-> {}]
  <2> TAKE k \in DOMAIN u
  <2>1. u[k] \in Events(D) /\ out[k] = [u[k] EXCEPT !.d = {}]
    BY <1>4
  <2> DEFINE v == u[k]
  <2> HIDE DEF v
  <2>2. v = [s |-> v.s, e |-> v.e, d |-> v.d]
    BY <2>1, EventOf DEF v
  <2>3. [v EXCEPT !.d = {}] = [s |-> v.s, e |-> v.e, d |-> {}]
    BY <2>2, EventWith
  <2> QED
    BY <2>1, <2>3 DEF v
<1>7. DOMAIN out = DOMAIN u /\ DOMAIN u = 1..Len(u) /\ Len(u) \in Nat
  BY <1>4
<1>8. out = [k \in 1..Len(u) |-> out[k]]
  BY <1>7
<1> HIDE DEF out
<1>9. \A k \in DOMAIN u : out[k] \in Events({{}})
  <2> TAKE k \in DOMAIN u
  <2>1. u[k].s \in Int /\ u[k].e \in Int /\ u[k].s <= u[k].e
    BY <1>6, EventOf
  <2> QED
    BY <1>6, <2>1, IsEvent
<1>10. out \in Seq(Events({{}}))
  <2>1. out \in [1..Len(u) -> Events({{}})]
    BY <1>7, <1>8, <1>9
  <2> QED
    BY <1>7, <2>1, SegmentIsSeq
<1>11. \A k \in DOMAIN u : out[k].s = u[k].s /\ out[k].e = u[k].e /\ Span(out[k]) = Span(u[k])
  <2> TAKE k \in DOMAIN u
  <2> DEFINE a == u[k].s
             b == u[k].e
  <2>1. out[k] = [s |-> a, e |-> b, d |-> {}]
    BY <1>6
  <2> HIDE DEF a, b
  <2>2. out[k].s = a /\ out[k].e = b
    BY <2>1
  <2> QED
    BY <2>2 DEF Span, a, b
<1>12. InTurn(out)
  BY <1>5, <1>7, <1>11 DEF InTurn
<1>13. TimeOf(out) = TimeOf(u)
  <2>1. \A z : z \in TimeOf(out) <=> z \in TimeOf(u)
    BY <1>7, <1>11, TimeOfHas
  <2> QED
    BY <2>1
<1> QED
  BY <1>1, <1>2, <1>3, <1>5, <1>10, <1>12, <1>13

(***************************************************************************)
(* filter_keyvals.                                                         *)
(***************************************************************************)
LEMMA FilterKeeps ==
  ASSUME NEW D, NEW l \in Seq(Events(D)), NEW vals
  PROVE  /\ FilterKeyvals(l, vals) \in Seq(Events(D))
         /\ FilterKeyvals(l, vals) \in Seq(Events(vals))
<1> DEFINE K == {k \in DOMAIN l : l[k].d \in vals}
           m == FilterKeyvals(l, vals)
           p(k) == Nth(K, k)
<1>1. K \in SUBSET DOMAIN l /\ m = Subsequence(l, K)
  BY DEF FilterKeyvals
<1>2. /\ m \in Seq(Events(D)) /\ DOMAIN m = 1..Cardinality(K) /\ Cardinality(K) \in Nat
      /\ \A k \in DOMAIN m : p(k) \in K /\ m[k] = l[p(k)]
  <2> HIDE DEF K
  <2> QED
    BY <1>1, SubsequenceElements
<1>3. \A k \in DOMAIN m : m[k] \in Events(vals)
  <2> TAKE k \in DOMAIN m
  <2> DEFINE i == p(k)
  <2>1. i \in DOMAIN l /\ l[i].d \in vals /\ m[k] = l[i]
    BY <1>2
  <2> HIDE DEF i
  <2>2. l[i] \in Events(D)
    BY <2>1
  <2> DEFINE v == l[i]
  <2> HIDE DEF v
  <2>3. v.s \in Int /\ v.e \in Int /\ v.s <= v.e /\ v = [s |-> v.s, e |-> v.e, d |-> v.d]
    BY <2>2, EventOf DEF v
  <2>4. [s |-> v.s, e |-> v.e, d |-> v.d] \in Events(vals)
    BY <2>1, <2>3, IsEvent DEF v
  <2> QED
    BY <2>1, <2>3, <2>4 DEF v
<1> HIDE DEF m, K
<1>4. m \in [1..Cardinality(K) -> Events(vals)]
  <2>1. m = [k \in 1..Cardinality(K) |-> m[k]]
    BY <1>2
  <2> QED
    BY <1>2, <1>3, <2>1
<1>5. m \in Seq(Events(vals))
  BY <1>2, <1>4, SegmentIsSeq
<1> QED
  BY <1>2, <1>5 DEF m

(***************************************************************************)
(* Totals.                                                                 *)
(***************************************************************************)
Lengths(l) == [k \in DOMAIN l |-> l[k].e - l[k].s]

LEMMA LengthsType ==
  ASSUME NEW D, NEW l \in Seq(Events(D))
  PROVE  /\ Lengths(l) \in [DOMAIN l -> Int] /\ IsFiniteSet(DOMAIN l)
         /\ \A k \in DOMAIN l : Lengths(l)[k] = l[k].e - l[k].s
         /\ DOMAIN l = 1..Len(l) /\ Len(l) \in Nat
         /\ \A k \in DOMAIN l : l[k] \in Events(D) /\ l[k].s \in Int /\ l[k].e \in Int
<1>1. /\ DOMAIN l = 1..Len(l) /\ Len(l) \in Nat /\ IsFiniteSet(DOMAIN l)
      /\ \A k \in DOMAIN l : l[k] \in Events(D)
  BY Positions
<1>2. \A k \in DOMAIN l : l[k].s \in Int /\ l[k].e \in Int
  BY <1>1, EventOf
<1> QED
  BY <1>1, <1>2 DEF Lengths

LEMMA DurationsAdd ==
  ASSUME NEW D, NEW l \in Seq(Events(D)), NEW g, Adds(g, Lengths(l), DOMAIN l)
  PROVE  Durations(l) = g[DOMAIN l]
<1> DEFINE n == Len(l)
           f == Lengths(l)
           pick == [s \in SUBSET (1..n) |-> Max(s)]
           Is(h) == h = [s \in SUBSET (1..n) |->
                            IF s = {} THEN 0
                            ELSE h[s \ {Max(s)}] + (l[Max(s)].e - l[Max(s)].s)]
           fold == CHOOSE h : Is(h)
<1>1. /\ n \in Nat /\ DOMAIN l = 1..n /\ IsFiniteSet(1..n) /\ f \in [1..n -> Int]
      /\ \A k \in 1..n : f[k] = l[k].e - l[k].s
  BY LengthsType
<1>2. Durations(l)
         = (CHOOSE h : h = [s \in SUBSET DOMAIN l |->
                               IF s = {} THEN 0
                               ELSE h[s \ {Max(s)}] + (l[Max(s)].e - l[Max(s)].s)])[DOMAIN l]
  BY DEF Durations, FoldLeft, MapThenFoldSet
<1>3. Durations(l) = fold[1..n]
  BY <1>1, <1>2
<1> HIDE DEF n, f
<1>4. Adds(g, f, 1..n)
  BY <1>1 DEF f
<1>5. \A s \in SUBSET (1..n) : s # {} => Max(s) \in s /\ pick[s] = Max(s)
  BY <1>1, LastOfPositions
<1>6. ASSUME NEW s \in SUBSET (1..n)
      PROVE  g[s] = IF s = {} THEN 0 ELSE g[s \ {Max(s)}] + (l[Max(s)].e - l[Max(s)].s)
  <2>1. CASE s = {}
    BY <1>4, <2>1 DEF Adds
  <2>2. CASE s # {}
    <3> DEFINE x == Max(s)
               r == s \ {x}
    <3>1. x \in s
      BY <1>5, <2>2
    <3> HIDE DEF x
    <3>2. r \in SUBSET (1..n) /\ x \in (1..n) \ r /\ r \cup {x} = s
      BY <3>1
    <3>3. f[x] = l[x].e - l[x].s
      BY <1>1, <3>1
    <3> HIDE DEF r
    <3>4. g[s] = g[r] + f[x]
      BY <1>4, <3>2 DEF Adds
    <3> QED
      BY <2>2, <3>3, <3>4 DEF x, r
  <2> QED
    BY <2>1, <2>2
<1>7. Is(g)
  <2>1. g = [s \in SUBSET (1..n) |-> g[s]]
    BY <1>4 DEF Adds
  <2> QED
    BY <1>6, <2>1
<1>8. Is(fold)
  <2> HIDE DEF Is
  <2> QED
    BY <1>7
<1>9. \A s \in SUBSET (1..n) :
         fold[s] = IF s = {} THEN 0 ELSE fold[s \ {Max(s)}] + (l[Max(s)].e - l[Max(s)].s)
  <2> HIDE DEF fold
  <2> QED
    BY <1>8
<1> HIDE DEF fold
<1>10. StepsUp(fold, f, 1..n, pick)
  <2>1. fold[{}] = 0
    BY <1>9
  <2>2. ASSUME NEW s \in SUBSET (1..n), s # {}, fold[s \ {pick[s]}] \in Int
        PROVE  fold[s] = f[pick[s]] + fold[s \ {pick[s]}]
    <3> DEFINE x == Max(s)
    <3>1. x \in 1..n /\ pick[s] = x
      BY <1>5, <2>2
    <3>2. fold[s] = fold[s \ {x}] + (l[x].e - l[x].s)
      BY <1>9, <2>2
    <3>3. f[x] = l[x].e - l[x].s /\ f[x] \in Int
      BY <1>1, <3>1
    <3> HIDE DEF x, pick
    <3> QED
      BY <2>2, <3>1, <3>2, <3>3
  <2>3. \A s \in SUBSET (1..n) : s # {} => pick[s] \in s
    BY <1>5
  <2> DEFINE K == 1..n
  <2>4. /\ IsFiniteSet(K) /\ f \in [K -> Int] /\ \A s \in SUBSET K : s # {} => pick[s] \in s
        /\ \A s \in SUBSET K :
              s # {} /\ fold[s \ {pick[s]}] \in Int => fold[s] = f[pick[s]] + fold[s \ {pick[s]}]
    BY <1>1, <2>2, <2>3
  <2> HIDE DEF K, pick
  <2>5. StepsUp(fold, f, K, pick)
    BY <2>1, <2>4 DEF StepsUp
  <2> QED
    BY <2>5 DEF K
<1>11. fold[1..n] = g[1..n]
  <2> HIDE DEF pick
  <2> DEFINE K == 1..n
  <2>1. Adds(g, f, K) /\ StepsUp(fold, f, K, pick)
    BY <1>4, <1>10
  <2> HIDE DEF K
  <2>2. \A s \in SUBSET K : fold[s] = g[s]
    BY <2>1, StepsAdd
  <2>3. fold[K] = g[K]
    BY <2>2
  <2> QED
    BY <2>3 DEF K
<1> QED
  BY <1>1, <1>3, <1>11

\* Events that all have the same value become one, or none.
OneOf(d) == {<<>>} \cup {<<v>> : v \in Events({d})}

LengthOf(out) == IF out = <<>> THEN 0 ELSE out[1].e - out[1].s

LEMMA ChunkGrows ==
  ASSUME NEW d, NEW out \in OneOf(d), NEW ev \in Events({d})
  PROVE  /\ Chunk(out, ev) \in OneOf(d) /\ Chunk(out, ev) # <<>>
         /\ LengthOf(Chunk(out, ev)) = LengthOf(out) + (ev.e - ev.s)
         /\ LengthOf(out) \in Int
<1>1. ev.s \in Int /\ ev.e \in Int /\ ev.s <= ev.e /\ ev.d = d
  <2>1. ev.d \in {d}
    BY EventOf
  <2> QED
    BY <2>1, EventOf
<1>2. CASE out = <<>>
  <2>1. Chunk(out, ev) = <<ev>>
    BY <1>2 DEF Chunk
  <2>2. LengthOf(<<ev>>) = ev.e - ev.s /\ <<ev>> # <<>> /\ LengthOf(out) = 0
    BY <1>2 DEF LengthOf
  <2>3. <<ev>> \in OneOf(d)
    BY DEF OneOf
  <2> QED
    BY <1>1, <2>1, <2>2, <2>3
<1>3. CASE out # <<>>
  <2>1. PICK v \in Events({d}) : out = <<v>>
    BY <1>3 DEF OneOf
  <2>2. /\ v.s \in Int /\ v.e \in Int /\ v.s <= v.e /\ v.d = d
        /\ v = [s |-> v.s, e |-> v.e, d |-> v.d]
    <3>1. v.d \in {d}
      BY EventOf
    <3> QED
      BY <3>1, EventOf
  <2> DEFINE len == ev.e - ev.s
             end == v.e + len
             w == [s |-> v.s, e |-> end, d |-> d]
  <2>3. len \in Int /\ 0 <= len /\ end \in Int /\ v.s <= end
    BY <1>1, <2>2
  <2>4. Last(out) = v /\ Front(out) = <<>>
    BY <2>1 DEF Last, Front
  <2>5. Chunk(out, ev) = Append(<<>>, [v EXCEPT !.e = end])
    BY <1>1, <1>3, <2>2, <2>4 DEF Chunk
  <2> HIDE DEF end, len
  <2>6. [v EXCEPT !.e = end] = w
    BY <2>2, EventWith
  <2>7. w \in Events({d})
    BY <2>2, <2>3, IsEvent
  <2>8. w.e = end /\ w.s = v.s
    OBVIOUS
  <2> HIDE DEF w
  <2>9. Chunk(out, ev) = <<w>>
    BY <2>5, <2>6
  <2>10. <<w>> \in OneOf(d) /\ <<w>> # <<>> /\ <<w>>[1] = w /\ out[1] = v
    BY <2>1, <2>7 DEF OneOf
  <2>11. LengthOf(<<w>>) = end - v.s /\ LengthOf(out) = v.e - v.s
    BY <1>3, <2>8, <2>10 DEF LengthOf
  <2>12. end - v.s = (v.e - v.s) + len /\ v.e - v.s \in Int
    BY <2>2, <2>3 DEF end
  <2> QED
    BY <2>9, <2>10, <2>11, <2>12 DEF len
<1> QED
  BY <1>2, <1>3

\* chunk_events_by_key on events that all have the same value.
LEMMA ChunkAdds ==
  ASSUME NEW d, NEW l \in Seq(Events({d})), NEW g, Adds(g, Lengths(l), DOMAIN l)
  PROVE  /\ ChunkEventsByKey(l) \in OneOf(d)
         /\ LengthOf(ChunkEventsByKey(l)) = g[DOMAIN l]
         /\ l # <<>> => ChunkEventsByKey(l) # <<>>
<1> DEFINE S == OneOf(d)
           n == Len(l)
           base == <<>>
           Is(f) == f = [s \in SUBSET (1..n) |->
                            IF s = {} THEN base ELSE Chunk(f[s \ {Max(s)}], l[Max(s)])]
           fold == CHOOSE f : Is(f)
           F == [p \in S \X (1..n) |-> Chunk(p[1], l[p[2]])]
<1>1. /\ n \in Nat /\ DOMAIN l = 1..n /\ base \in S /\ \A k \in 1..n : l[k] \in Events({d})
  BY DEF OneOf
<1>2. ChunkEventsByKey(l)
         = (CHOOSE f : f = [s \in SUBSET DOMAIN l |->
                               IF s = {} THEN base ELSE Chunk(f[s \ {Max(s)}], l[Max(s)])])[DOMAIN l]
  BY DEF ChunkEventsByKey, FoldLeft, MapThenFoldSet
<1>3. ChunkEventsByKey(l) = fold[1..n]
  BY <1>1, <1>2
<1>4. l # <<>> => n # 0
  OBVIOUS
<1> HIDE DEF n, S
<1>5. F \in [S \X (1..n) -> S]
  <2>1. ASSUME NEW p \in S \X (1..n) PROVE Chunk(p[1], l[p[2]]) \in S
    <3>1. p[1] \in OneOf(d) /\ l[p[2]] \in Events({d})
      BY <1>1 DEF S
    <3> QED
      BY <3>1, ChunkGrows DEF S
  <2> QED
    BY <2>1
<1>6. \A out \in S, k \in 1..n : F[<<out, k>>] = Chunk(out, l[k])
  OBVIOUS
<1> HIDE DEF F
<1>7. PICK r \in [SUBSET (1..n) -> S] :
         \A s \in SUBSET (1..n) : r[s] = IF s = {} THEN base ELSE F[<<r[s \ {Max(s)}], Max(s)>>]
  <2> HIDE DEF base
  <2>1. HasFold(S, base, n, F)
    BY <1>1, <1>5, FoldExists
  <2> QED
    BY <2>1 DEF HasFold
<1> HIDE DEF base
<1>8. \A s \in SUBSET (1..n) : s # {} => Max(s) \in 1..n
  BY <1>1, LastOfPositions
<1>9. Is(r)
  <2>1. ASSUME NEW s \in SUBSET (1..n)
        PROVE  r[s] = IF s = {} THEN base ELSE Chunk(r[s \ {Max(s)}], l[Max(s)])
    BY <1>6, <1>7, <1>8
  <2> QED
    BY <2>1
<1>10. Is(fold)
  <2> HIDE DEF Is
  <2> QED
    BY <1>9
<1>11. \A s \in SUBSET (1..n) :
         fold[s] = IF s = {} THEN base ELSE Chunk(fold[s \ {Max(s)}], l[Max(s)])
  <2> HIDE DEF fold
  <2> QED
    BY <1>10
<1> HIDE DEF fold
<1>12. Runs(S, base, n, F, fold[1..n])
  <2>1. fold[{}] = base
    BY <1>11
  <2>2. \A s \in SUBSET (1..n) :
           s # {} /\ fold[s \ {Max(s)}] \in S => fold[s] = F[<<fold[s \ {Max(s)}], Max(s)>>]
    BY <1>6, <1>8, <1>11
  <2> QED
    BY <1>1, <1>5, <2>1, <2>2, FoldRuns
<1>13. PICK c \in [0..n -> S] : /\ c[0] = base /\ fold[1..n] = c[n]
                               /\ \A k \in 1..n : c[k] = F[<<c[k - 1], k>>]
  BY <1>12 DEF Runs
<1> DEFINE G == {k \in 0..n : LengthOf(c[k]) = g[1..k] /\ (k # 0 => c[k] # <<>>)}
<1>14. Adds(g, Lengths(l), 1..n) /\ \A k \in 1..n : Lengths(l)[k] = l[k].e - l[k].s
  <2>1. \A k \in DOMAIN l : Lengths(l)[k] = l[k].e - l[k].s
    BY LengthsType
  <2> QED
    BY <1>1, <2>1
<1>15. 0 \in G
  <2>1. LengthOf(<<>>) = 0 /\ 1..0 = {} /\ 0 \in 0..n
    BY <1>1 DEF LengthOf
  <2>2. g[{}] = 0
    BY <1>14 DEF Adds
  <2> QED
    BY <1>13, <2>1, <2>2 DEF base
<1>16. ASSUME NEW k \in 1..n, k - 1 \in G PROVE k \in G
  <2>1. k - 1 \in 0..n /\ k \in 0..n /\ l[k] \in Events({d})
    BY <1>1
  <2> DEFINE out == c[k - 1]
  <2>2. out \in OneOf(d) /\ LengthOf(out) = g[1..(k - 1)] /\ c[k] = Chunk(out, l[k])
    BY <1>6, <1>13, <1>16, <2>1 DEF S
  <2> HIDE DEF out
  <2>3. c[k] # <<>> /\ LengthOf(c[k]) = LengthOf(out) + (l[k].e - l[k].s)
    BY <2>1, <2>2, ChunkGrows
  <2>4. g[1..k] = g[1..(k - 1)] + (l[k].e - l[k].s)
    <3> DEFINE s == 1..(k - 1)
               f == Lengths(l)
    <3>1. s \in SUBSET (1..n) /\ k \in (1..n) \ s /\ s \cup {k} = 1..k
      BY <1>1
    <3>2. f[k] = l[k].e - l[k].s
      BY <1>14
    <3> HIDE DEF s, f
    <3>3. g[s \cup {k}] = g[s] + f[k]
      BY <1>14, <3>1 DEF Adds, f
    <3> QED
      BY <3>1, <3>2, <3>3 DEF s
  <2> QED
    BY <2>1, <2>2, <2>3, <2>4
<1>17. \A k \in 0..n : k \in G
  <2> HIDE DEF G
  <2>1. \A k \in 1..n : k - 1 \in G => k \in G
    BY <1>16
  <2> QED
    BY <1>1, <1>15, <2>1, AllTheWay
<1>18. n \in 0..n
  BY <1>1
<1> QED
  BY <1>1, <1>3, <1>4, <1>13, <1>17, <1>18 DEF S

\* The events of one value, and the one they become.
Group(l, x) == {k \in DOMAIN l : l[k].d = x}
AsOne(l, x) == ChunkEventsByKey(FilterKeyvals(l, {x}))[1]

\* It lasts as long as they do together.
LEMMA GroupLasts ==
  ASSUME NEW D, NEW l \in Seq(Events(D)), NEW g, Adds(g, Lengths(l), DOMAIN l),
         NEW i \in DOMAIN l, NEW x, x = l[i].d
  PROVE  AsOne(l, x).e - AsOne(l, x).s = g[Group(l, x)]
<1> DEFINE K == {k \in DOMAIN l : l[k].d \in {x}}
           m == FilterKeyvals(l, {x})
           L == DOMAIN m
           p == [k \in L |-> Nth(K, k)]
           f == Lengths(l)
           h == [s \in SUBSET L |-> g[{p[y] : y \in s}]]
           e == [y \in L |-> f[p[y]]]
<1>1. K \in SUBSET DOMAIN l /\ i \in K /\ m = Subsequence(l, K)
  BY DEF FilterKeyvals
<1>2. K = Group(l, x)
  BY DEF Group
<1>3. m \in Seq(Events({x}))
  BY FilterKeeps
<1>4. f \in [DOMAIN l -> Int] /\ \A k \in DOMAIN l : f[k] = l[k].e - l[k].s
  BY LengthsType
<1>5. /\ \A k \in L : Nth(K, k) \in K /\ m[k] = l[Nth(K, k)]
      /\ \A k, n \in L : Nth(K, k) = Nth(K, n) => k = n
      /\ \A k \in K : \E n \in L : Nth(K, n) = k
  <2> HIDE DEF K, m
  <2> DEFINE t == Subsequence(l, K)
  <2>1. /\ \A k \in DOMAIN t : Nth(K, k) \in K /\ t[k] = l[Nth(K, k)]
        /\ \A k, n \in DOMAIN t : Nth(K, k) = Nth(K, n) => k = n
        /\ \A k \in K : \E n \in DOMAIN t : Nth(K, n) = k /\ t[n] = l[k]
    BY <1>1, SubsequenceElements
  <2> HIDE DEF t
  <2>2. m = t
    BY <1>1 DEF t
  <2> QED
    BY <2>1, <2>2
<1> HIDE DEF K, m, f
<1>6. p \in [L -> DOMAIN l] /\ \A k, n \in L : p[k] = p[n] => k = n
  BY <1>1, <1>5
<1>7. \A k \in L : m[k] = l[p[k]]
  BY <1>5
<1>8. {p[y] : y \in L} = K
  BY <1>5
<1> HIDE DEF p
<1>9. Adds(h, e, L)
  <2> DEFINE N == DOMAIN l
  <2>1. /\ f \in [N -> Int] /\ Adds(g, f, N) /\ p \in [L -> N]
        /\ \A k, n \in L : p[k] = p[n] => k = n
        /\ h = [s \in SUBSET L |-> g[{p[y] : y \in s}]] /\ e = [y \in L |-> f[p[y]]]
    BY <1>4, <1>6 DEF f
  <2> HIDE DEF N, h, e, L
  <2>2. Adds(g, f, N) /\ Along(h, e, L, p, g, f, N)
    BY <2>1 DEF Along
  <2> QED
    BY <2>2, SumAlong
<1>10. e = Lengths(m)
  <2>1. \A y \in L : f[p[y]] = m[y].e - m[y].s
    BY <1>4, <1>6, <1>7
  <2> QED
    BY <2>1 DEF Lengths
<1>11. h[L] = g[K]
  BY <1>8
<1> HIDE DEF h, e
<1>12. /\ ChunkEventsByKey(m) \in OneOf(x) /\ LengthOf(ChunkEventsByKey(m)) = g[K]
       /\ ChunkEventsByKey(m) # <<>>
  <2>1. m # <<>>
    BY <1>1, <1>5 DEF L
  <2>2. Adds(h, Lengths(m), DOMAIN m)
    BY <1>9, <1>10 DEF L
  <2> QED
    BY <1>3, <1>11, <2>1, <2>2, ChunkAdds DEF L
<1> QED
  BY <1>2, <1>12 DEF LengthOf, m, AsOne

\* What becomes of a list whose events of a value become one.
LEMMA MergeKeepsDurations ==
  ASSUME NEW D, NEW l \in Seq(Events(D))
  PROVE  Total(MergeEventsByKey(l)) = Durations(l)
<1> DEFINE K == DOMAIN l
           f == Lengths(l)
           X == {l[k].d : k \in DOMAIN l}
           M == MergeEventsByKey(l)
           of(s) == {k \in K : l[k].d \in s}
           pick == [s \in SUBSET X |-> CHOOSE x \in s : TRUE]
           e == [x \in X |-> M[x].e - M[x].s]
           Is(h) == h = [s \in SUBSET X |->
                            IF s = {} THEN 0
                            ELSE h[s \ {CHOOSE x \in s : TRUE}]
                                   + (M[CHOOSE x \in s : TRUE].e - M[CHOOSE x \in s : TRUE].s)]
           iter == CHOOSE h : Is(h)
<1>1. f \in [K -> Int] /\ IsFiniteSet(K)
  BY LengthsType
<1>2. PICK g : Adds(g, f, K)
  BY <1>1, SumExists
<1> DEFINE h == [s \in SUBSET X |-> g[of(s)]]
<1>3. Durations(l) = g[K]
  BY <1>2, DurationsAdd
<1>4. IsFiniteSet(X)
  <2> DEFINE d == [k \in DOMAIN l |-> l[k].d]
  <2>1. d \in Surjection(DOMAIN l, X)
    BY DEF Surjection
  <2> HIDE DEF d, X
  <2> QED
    BY <1>1, <2>1, FS_Surjection DEF K
<1>5. \A x \in X : M[x].e - M[x].s = g[of({x})]
  <2> TAKE x \in X
  <2>1. PICK i \in K : x = l[i].d
    OBVIOUS
  <2>2. M[x] = AsOne(l, x)
    BY DEF MergeEventsByKey, AsOne
  <2>3. of({x}) = Group(l, x)
    BY DEF Group
  <2>4. AsOne(l, x).e - AsOne(l, x).s = g[Group(l, x)]
    BY <1>2, <2>1, GroupLasts
  <2> HIDE DEF M, of
  <2> QED
    BY <2>2, <2>3, <2>4
<1>6. DOMAIN M = X
  BY DEF MergeEventsByKey
<1>7. Total(M) = iter[X]
  <2> HIDE DEF M
  <2>1. Total(M)
           = (CHOOSE h0 : h0 = [s \in SUBSET DOMAIN M |->
                            IF s = {} THEN 0
                            ELSE h0[s \ {CHOOSE x \in s : TRUE}]
                                   + (M[CHOOSE x \in s : TRUE].e - M[CHOOSE x \in s : TRUE].s)])[DOMAIN M]
    BY DEF Total, FoldFunction, FoldFunctionOnSet, MapThenFoldSet
  <2> QED
    BY <1>6, <2>1
<1>8. \A s \in SUBSET X : of(s) \in SUBSET K /\ g[of(s)] \in Int
  BY <1>2 DEF Adds
<1>9. Adds(h, e, X)
  <2>1. h \in [SUBSET X -> Int]
    BY <1>8
  <2>2. h[{}] = 0
    <3>1. of({}) = {}
      OBVIOUS
    <3> QED
      BY <1>2, <3>1 DEF Adds
  <2>3. ASSUME NEW s \in SUBSET X, NEW x \in X \ s PROVE h[s \cup {x}] = h[s] + e[x]
    <3> DEFINE A == of(s)
               B == of({x})
    <3>1. of(s \cup {x}) = A \cup B /\ A \cap B = {} /\ A \in SUBSET K /\ B \in SUBSET K
      BY <2>3
    <3>2. e[x] = g[B]
      BY <1>5
    <3>3. h[s] = g[A] /\ h[s \cup {x}] = g[of(s \cup {x})]
      OBVIOUS
    <3> HIDE DEF A, B, of, K, f, e, h
    <3>4. g[A \cup B] = g[A] + g[B]
      BY <1>1, <1>2, <3>1, SumOfParts
    <3> QED
      BY <3>1, <3>2, <3>3, <3>4
  <2> HIDE DEF h, e, X
  <2> QED
    BY <2>1, <2>2, <2>3 DEF Adds
<1>10. h[X] = g[K]
  <2>1. of(X) = K
    OBVIOUS
  <2> QED
    BY <2>1
<1>11. \A s \in SUBSET X : s # {} => pick[s] \in s /\ pick[s] = CHOOSE x \in s : TRUE
  OBVIOUS
<1>12. e \in [X -> Int]
  <2>1. \A x \in X : {x} \in SUBSET X
    OBVIOUS
  <2> QED
    BY <1>5, <1>8, <2>1
<1>13. \A x \in X : e[x] = M[x].e - M[x].s
  OBVIOUS
<1> HIDE DEF h, e, M, of, X, pick
<1>14. Is(h)
  <2>1. ASSUME NEW s \in SUBSET X
        PROVE  h[s] = IF s = {} THEN 0
                      ELSE h[s \ {CHOOSE x \in s : TRUE}]
                             + (M[CHOOSE x \in s : TRUE].e - M[CHOOSE x \in s : TRUE].s)
    <3>1. CASE s = {}
      BY <1>9, <3>1 DEF Adds
    <3>2. CASE s # {}
      <4> DEFINE x == CHOOSE y \in s : TRUE
                 r == s \ {x}
      <4>1. x \in s
        BY <3>2
      <4> HIDE DEF x
      <4>2. r \in SUBSET X /\ x \in X \ r /\ r \cup {x} = s
        BY <4>1
      <4>3. e[x] = M[x].e - M[x].s
        BY <1>13, <4>2
      <4> HIDE DEF r
      <4>4. h[s] = h[r] + e[x]
        BY <1>9, <4>2 DEF Adds
      <4>5. h[s] = IF s = {} THEN 0 ELSE h[r] + (M[x].e - M[x].s)
        BY <3>2, <4>3, <4>4
      <4> QED
        BY <4>5 DEF r, x
    <3> QED
      BY <3>1, <3>2
  <2>2. h = [s \in SUBSET X |-> h[s]]
    BY <1>9 DEF Adds
  <2> QED
    BY <2>1, <2>2
<1>15. Is(iter)
  <2> HIDE DEF Is
  <2> QED
    BY <1>14
<1>16. StepsUp(iter, e, X, pick)
  <2>1. \A s \in SUBSET X :
           iter[s] = IF s = {} THEN 0
                     ELSE iter[s \ {CHOOSE x \in s : TRUE}]
                            + (M[CHOOSE x \in s : TRUE].e - M[CHOOSE x \in s : TRUE].s)
    <3> HIDE DEF iter
    <3> QED
      BY <1>15
  <2> HIDE DEF iter
  <2>2. iter[{}] = 0
    BY <2>1
  <2>3. ASSUME NEW s \in SUBSET X, s # {}, iter[s \ {pick[s]}] \in Int
        PROVE  iter[s] = e[pick[s]] + iter[s \ {pick[s]}]
    <3> DEFINE x == CHOOSE y \in s : TRUE
    <3>1. x \in X /\ pick[s] = x
      BY <1>11, <2>3
    <3>2. iter[s] = iter[s \ {x}] + (M[x].e - M[x].s)
      BY <2>1, <2>3
    <3>3. e[x] = M[x].e - M[x].s /\ e[x] \in Int
      BY <1>12, <1>13, <3>1
    <3> HIDE DEF x
    <3> QED
      BY <2>3, <3>1, <3>2, <3>3
  <2> HIDE DEF Is
  <2> QED
    BY <1>4, <1>11, <1>12, <2>2, <2>3 DEF StepsUp
<1>17. iter[X] = h[X]
  <2> HIDE DEF iter
  <2>1. Adds(h, e, X) /\ StepsUp(iter, e, X, pick)
    BY <1>9, <1>16
  <2>2. \A s \in SUBSET X : iter[s] = h[s]
    BY <2>1, StepsAdd
  <2> QED
    BY <2>2
<1> QED
  BY <1>3, <1>7, <1>10, <1>17 DEF M

(***************************************************************************)
(* filter_period_intersect.                                                *)
(***************************************************************************)
\* What of the first list is in the time of the second.
Within(l, m) == {x \in Timed(l) : x[2] \in TimeOf(m)}

\* No time is before the first event; behind it they are in order.
Starts(l) ==
    l # <<>> => Ordered(Tail(l)) /\ \A z \in TimeOf(l) : Head(l).s <= z

LEMMA OrderedStarts ==
  ASSUME NEW D, NEW l \in Seq(Events(D)), Ordered(l)
  PROVE  Starts(l)
<1> SUFFICES ASSUME l # <<>> PROVE Ordered(Tail(l)) /\ \A z \in TimeOf(l) : Head(l).s <= z
  BY DEF Starts
<1> DEFINE n == Len(l)
           t == Tail(l)
<1>1. /\ n \in Nat \ {0} /\ DOMAIN l = 1..n /\ Head(l) = l[1]
      /\ t \in Seq(Events(D)) /\ DOMAIN t = 1..(n - 1) /\ \A k \in 1..(n - 1) : t[k] = l[k + 1]
  OBVIOUS
<1> HIDE DEF n, t
<1>2. Ordered(t)
  <2> SUFFICES ASSUME NEW i \in 1..(n - 1), NEW j \in 1..(n - 1), i < j PROVE t[i].s <= t[j].s
    BY <1>1 DEF Ordered
  <2>1. i + 1 \in 1..n /\ j + 1 \in 1..n /\ i + 1 < j + 1
    BY <1>1
  <2> QED
    BY <1>1, <2>1 DEF Ordered
<1>3. ASSUME NEW z \in TimeOf(l) PROVE Head(l).s <= z
  <2>1. PICK k \in DOMAIN l : z \in Span(l[k])
    BY TimeOfHas
  <2>2. l[1] \in Events(D) /\ l[k] \in Events(D) /\ 1 \in DOMAIN l
    BY <1>1
  <2>3. l[1].s \in Int /\ l[k].s \in Int /\ z \in Int /\ l[k].s <= z
    BY <2>1, <2>2, EventOf
  <2>4. l[1].s <= l[k].s
    BY <1>1, <2>2, <2>3, SMTT(20) DEF Ordered
  <2> QED
    BY <1>1, <2>3, <2>4
<1> QED
  BY <1>2, <1>3 DEF t

LEMMA TimedIsInTime ==
  ASSUME NEW l
  PROVE  \A x \in Timed(l) : x[2] \in TimeOf(l)
BY TimedHas, TimeOfHas

\* Of the sorted lists E and P, a and b remain: what was put out is within them,
Sound(E, P, out, a, b) ==
    Timed(a) \subseteq Timed(E) /\ TimeOf(b) \subseteq TimeOf(P) /\ Timed(out) \subseteq Within(E, P)

\* and nothing is lost or counted twice.
Whole(E, P, out, a, b) ==
    /\ Disjoint(a) /\ Disjoint(out) /\ TimeOf(out) \cap TimeOf(a) = {}
    /\ Starts(a) /\ Ordered(b)
    /\ Within(E, P) \subseteq Timed(out) \cup Within(a, b)

\* The first event or the first period is passed over.
EventLeaves(ev, p) == ev.s = ev.e \/ ev.e <= p.s
PeriodLeaves(ev, p) == ~EventLeaves(ev, p) /\ p.e <= ev.s

LEMMA PassingEvent ==
  ASSUME NEW D, NEW F, NEW E, NEW P, NEW out,
         NEW a \in Seq(Events(D)), NEW b \in Seq(Events(F)), a # <<>>, b # <<>>,
         EventLeaves(Head(a), Head(b))
  PROVE  /\ Sound(E, P, out, a, b) => Sound(E, P, out, Tail(a), b)
         /\ Whole(E, P, out, a, b) => Whole(E, P, out, Tail(a), b)
<1> DEFINE ev == Head(a)
           p == Head(b)
           r == Tail(a)
<1>1. /\ ev \in Events(D) /\ r \in Seq(Events(D)) /\ TimeOf(a) = Span(ev) \cup TimeOf(r)
      /\ Timed(a) = ({ev.d} \X Span(ev)) \cup Timed(r)
      /\ Disjoint(a) => Disjoint(r)
  BY TimeOfHeadTail
<1>2. ev.s \in Int /\ ev.e \in Int /\ \A z : z \in Span(ev) <=> z \in Int /\ ev.s <= z /\ z < ev.e
  BY <1>1, EventOf
<1>3. p.s \in Int
  <2>1. p \in Events(F)
    OBVIOUS
  <2> QED
    BY <2>1, EventOf
<1>4. ev.s = ev.e \/ ev.e <= p.s
  BY DEF EventLeaves
<1>5. Ordered(b) => \A z \in TimeOf(b) : p.s <= z
  BY OrderedStarts DEF Starts
<1>6. Starts(a) => Starts(r)
  <2> SUFFICES ASSUME Starts(a) PROVE Starts(r)
    OBVIOUS
  <2>1. Ordered(r)
    BY DEF Starts
  <2> HIDE DEF r
  <2> QED
    BY <1>1, <2>1, OrderedStarts
<1> HIDE DEF ev, p, r
<1>7. ASSUME Ordered(b) PROVE Within(a, b) \subseteq Within(r, b)
  <2> SUFFICES ASSUME NEW x \in Timed(a), x[2] \in TimeOf(b) PROVE x \in Timed(r)
    BY DEF Within
  <2>1. CASE x \in {ev.d} \X Span(ev)
    <3>1. x[2] \in Span(ev)
      BY <2>1
    <3>2. p.s <= x[2]
      BY <1>5, <1>7
    <3> QED
      BY <1>2, <1>3, <1>4, <3>1, <3>2
  <2> QED
    BY <1>1, <2>1
<1>8. Sound(E, P, out, a, b) => Sound(E, P, out, r, b)
  BY <1>1 DEF Sound
<1>9. Whole(E, P, out, a, b) => Whole(E, P, out, r, b)
  BY <1>1, <1>6, <1>7 DEF Whole
<1> QED
  BY <1>8, <1>9 DEF r

LEMMA PassingPeriod ==
  ASSUME NEW D, NEW F, NEW E, NEW P, NEW out,
         NEW a \in Seq(Events(D)), NEW b \in Seq(Events(F)), a # <<>>, b # <<>>,
         PeriodLeaves(Head(a), Head(b))
  PROVE  /\ Sound(E, P, out, a, b) => Sound(E, P, out, a, Tail(b))
         /\ Whole(E, P, out, a, b) => Whole(E, P, out, a, Tail(b))
<1> DEFINE ev == Head(a)
           p == Head(b)
           r == Tail(b)
<1>1. /\ p \in Events(F) /\ r \in Seq(Events(F)) /\ TimeOf(b) = Span(p) \cup TimeOf(r)
  BY TimeOfHeadTail
<1>2. p.e \in Int /\ \A z : z \in Span(p) <=> z \in Int /\ p.s <= z /\ z < p.e
  BY <1>1, EventOf
<1>3. ev.s \in Int
  <2>1. ev \in Events(D)
    OBVIOUS
  <2> QED
    BY <2>1, EventOf
<1>4. p.e <= ev.s
  BY DEF PeriodLeaves
<1>5. Starts(a) => \A z \in TimeOf(a) : ev.s <= z
  BY DEF Starts
<1>6. Ordered(b) => Ordered(r)
  BY OrderedStarts DEF Starts
<1> HIDE DEF ev, p, r
<1>7. ASSUME Starts(a) PROVE Within(a, b) \subseteq Within(a, r)
  <2> SUFFICES ASSUME NEW x \in Timed(a), x[2] \in TimeOf(b) PROVE x[2] \in TimeOf(r)
    BY DEF Within
  <2>1. x[2] \in TimeOf(a)
    BY TimedIsInTime
  <2> DEFINE z == x[2]
  <2>2. z \in TimeOf(a) /\ z \in TimeOf(b)
    BY <2>1
  <2> HIDE DEF z
  <2>3. ev.s <= z
    BY <1>5, <1>7, <2>2
  <2>4. z \notin Span(p)
    BY <1>2, <1>3, <1>4, <2>3
  <2> QED
    BY <1>1, <2>2, <2>4 DEF z
<1>8. Sound(E, P, out, a, b) => Sound(E, P, out, a, r)
  BY <1>1 DEF Sound
<1>9. Whole(E, P, out, a, b) => Whole(E, P, out, a, r)
  BY <1>6, <1>7 DEF Whole
<1> QED
  BY <1>8, <1>9 DEF r

\* The part of an event in a period, and what is left of the event behind it.
PartOf(ev, p) == [s |-> Later(ev.s, p.s), e |-> Earlier(ev.e, p.e), d |-> ev.d]
RestBehind(ev, p) == [s |-> Earlier(ev.e, p.e), e |-> ev.e, d |-> ev.d]

LEMMA PartsOfEvent ==
  ASSUME NEW D, NEW F, NEW ev \in Events(D), NEW p \in Events(F),
         ~EventLeaves(ev, p), ~PeriodLeaves(ev, p)
  PROVE  LET v == PartOf(ev, p)
             w == RestBehind(ev, p)
         IN  /\ v \in Events(D) /\ w \in Events(D) /\ v.d = ev.d /\ w.d = ev.d
             /\ Span(v) \subseteq Span(ev) /\ Span(v) \subseteq Span(p) /\ Span(w) \subseteq Span(ev)
             /\ Span(v) \cap Span(w) = {} /\ w.s <= ev.e
             /\ \A z \in Span(ev) : p.s <= z => z \in Span(v) \/ z \in Span(w)
             /\ \A z \in Span(w) : w.s <= z
             /\ w.s = w.e \/ p.e <= w.s
<1> DEFINE s == Later(ev.s, p.s)
           e == Earlier(ev.e, p.e)
           v == [s |-> s, e |-> e, d |-> ev.d]
           w == [s |-> e, e |-> ev.e, d |-> ev.d]
<1>1. /\ ev.s \in Int /\ ev.e \in Int /\ ev.d \in D /\ ev.s <= ev.e
      /\ \A z : z \in Span(ev) <=> z \in Int /\ ev.s <= z /\ z < ev.e
  BY EventOf
<1>2. /\ p.s \in Int /\ p.e \in Int /\ p.s <= p.e
      /\ \A z : z \in Span(p) <=> z \in Int /\ p.s <= z /\ z < p.e
  BY EventOf
<1>3. ev.s < ev.e /\ p.s < ev.e /\ ev.s < p.e
  BY <1>1, <1>2 DEF EventLeaves, PeriodLeaves
<1>4. /\ s \in Int /\ e \in Int /\ s <= e /\ e <= ev.e /\ e <= p.e /\ ev.s <= s /\ p.s <= s
      /\ s = ev.s \/ s = p.s
      /\ e = ev.e \/ e = p.e
  BY <1>1, <1>2, <1>3 DEF Later, Earlier
<1> HIDE DEF s, e
<1>5. v \in Events(D) /\ w \in Events(D)
  BY <1>1, <1>4, IsEvent
<1>6. v.s = s /\ v.e = e /\ v.d = ev.d /\ w.s = e /\ w.e = ev.e /\ w.d = ev.d
  OBVIOUS
<1> HIDE DEF v, w
<1>7. \A z : z \in Span(v) <=> z \in Int /\ s <= z /\ z < e
  BY <1>5, <1>6, EventOf
<1>8. \A z : z \in Span(w) <=> z \in Int /\ e <= z /\ z < ev.e
  BY <1>5, <1>6, EventOf
<1>9. Span(v) \subseteq Span(ev) /\ Span(v) \subseteq Span(p)
  BY <1>1, <1>2, <1>4, <1>7
<1>10. Span(w) \subseteq Span(ev) /\ Span(v) \cap Span(w) = {}
  BY <1>1, <1>3, <1>4, <1>7, <1>8
<1>11. \A z \in Span(ev) : p.s <= z => z \in Span(v) \/ z \in Span(w)
  BY <1>1, <1>2, <1>4, <1>7, <1>8
<1>12. \A z \in Span(w) : w.s <= z
  BY <1>6, <1>8
<1>13. w.s = w.e \/ p.e <= w.s
  BY <1>2, <1>4, <1>6
<1>14. PartOf(ev, p) = v /\ RestBehind(ev, p) = w /\ w.s <= ev.e
  BY <1>4, <1>6 DEF PartOf, RestBehind, v, w, s, e
<1> QED
  BY <1>5, <1>6, <1>9, <1>10, <1>11, <1>12, <1>13, <1>14

\* A part is cut off the first event and put out.
IsCut(out, a, b, o, c) ==
    /\ a # <<>> /\ b # <<>>
    /\ ~EventLeaves(Head(a), Head(b)) /\ ~PeriodLeaves(Head(a), Head(b))
    /\ o = Append(out, PartOf(Head(a), Head(b)))
    /\ c = <<RestBehind(Head(a), Head(b))>> \o Tail(a)

AsLong(c, a) == Len(c) = Len(a)

LEMMA Cutting ==
  ASSUME NEW D, NEW F, NEW E, NEW P, NEW out \in Seq(Events(D)),
         NEW a \in Seq(Events(D)), NEW b \in Seq(Events(F)),
         NEW o, NEW c, IsCut(out, a, b, o, c)
  PROVE  /\ o \in Seq(Events(D)) /\ c \in Seq(Events(D)) /\ AsLong(c, a)
         /\ Sound(E, P, out, a, b) => Sound(E, P, o, c, b)
         /\ Whole(E, P, out, a, b) => Whole(E, P, o, c, b)
         /\ EventLeaves(Head(c), Head(b)) \/ PeriodLeaves(Head(c), Head(b))
<1> DEFINE ev == Head(a)
           p == Head(b)
           v == PartOf(ev, p)
           w == RestBehind(ev, p)
           r == Tail(a)
<1>0. /\ a # <<>> /\ b # <<>> /\ ~EventLeaves(ev, p) /\ ~PeriodLeaves(ev, p)
      /\ o = Append(out, v) /\ c = <<w>> \o r
  BY DEF IsCut
<1>1. /\ ev \in Events(D) /\ r \in Seq(Events(D)) /\ Len(r) = Len(a) - 1 /\ Len(a) \in Nat
      /\ TimeOf(a) = Span(ev) \cup TimeOf(r)
      /\ Timed(a) = ({ev.d} \X Span(ev)) \cup Timed(r)
      /\ Disjoint(a) => Disjoint(r) /\ TimeOf(r) \cap Span(ev) = {}
  BY <1>0, TimeOfHeadTail
<1>2. p \in Events(F) /\ Span(p) \subseteq TimeOf(b)
  BY <1>0, TimeOfHeadTail
<1>3. /\ v \in Events(D) /\ w \in Events(D) /\ v.d = ev.d /\ w.d = ev.d
      /\ Span(v) \subseteq Span(ev) /\ Span(v) \subseteq Span(p) /\ Span(w) \subseteq Span(ev)
      /\ Span(v) \cap Span(w) = {} /\ w.s <= ev.e
      /\ \A z \in Span(ev) : p.s <= z => z \in Span(v) \/ z \in Span(w)
      /\ \A z \in Span(w) : w.s <= z
      /\ w.s = w.e \/ p.e <= w.s
  <2> HIDE DEF ev, p
  <2> QED
    BY <1>0, <1>1, <1>2, PartsOfEvent
<1>4. Starts(a) => Ordered(r) /\ \A z \in TimeOf(a) : ev.s <= z
  BY <1>0 DEF Starts
<1>5. Ordered(b) => \A z \in TimeOf(b) : p.s <= z
  BY <1>0, OrderedStarts DEF Starts
<1> HIDE DEF ev, p, v, w, r
<1>6. o = Append(out, v) /\ c = <<w>> \o r
  BY <1>0
<1>7. /\ o \in Seq(Events(D)) /\ TimeOf(o) = TimeOf(out) \cup Span(v)
      /\ Timed(o) = Timed(out) \cup ({v.d} \X Span(v))
      /\ Disjoint(o) <=> Disjoint(out) /\ TimeOf(out) \cap Span(v) = {}
  BY <1>3, <1>6, TimeOfAppend
<1>8. /\ c \in Seq(Events(D)) /\ Len(c) = Len(r) + 1 /\ c[1] = w
      /\ TimeOf(c) = Span(w) \cup TimeOf(r)
      /\ Timed(c) = ({w.d} \X Span(w)) \cup Timed(r)
      /\ Disjoint(c) <=> Disjoint(r) /\ TimeOf(r) \cap Span(w) = {}
  <2>1. w \in Events(D) /\ r \in Seq(Events(D))
    BY <1>1, <1>3
  <2>2. /\ <<w>> \o r \in Seq(Events(D)) /\ Len(<<w>> \o r) = Len(r) + 1 /\ (<<w>> \o r)[1] = w
        /\ TimeOf(<<w>> \o r) = Span(w) \cup TimeOf(r)
        /\ Timed(<<w>> \o r) = ({w.d} \X Span(w)) \cup Timed(r)
        /\ Disjoint(<<w>> \o r) <=> Disjoint(r) /\ TimeOf(r) \cap Span(w) = {}
    BY <2>1, TimeOfCons
  <2> QED
    BY <1>6, <2>2
<1>9. Len(c) = Len(a) /\ c # <<>> /\ Head(c) = w /\ Tail(c) = r
  <2>1. Len(c) = Len(a)
    BY <1>1, <1>8
  <2>2. c # <<>>
    BY <1>1, <1>6
  <2>3. Head(c) = w
    BY <1>8, <2>2
  <2>4. Tail(<<w>> \o r) = r
    BY <1>1
  <2> QED
    BY <1>6, <2>1, <2>2, <2>3, <2>4
<1>10. ASSUME Sound(E, P, out, a, b) PROVE Sound(E, P, o, c, b)
  <2>1. Timed(a) \subseteq Timed(E) /\ TimeOf(b) \subseteq TimeOf(P) /\ Timed(out) \subseteq Within(E, P)
    BY <1>10 DEF Sound
  <2>2. Timed(c) \subseteq Timed(a)
    BY <1>1, <1>3, <1>8
  <2>3. {v.d} \X Span(v) \subseteq Within(E, P)
    <3>1. {v.d} \X Span(v) \subseteq Timed(a)
      BY <1>1, <1>3
    <3>2. Span(v) \subseteq TimeOf(b)
      BY <1>2, <1>3
    <3> QED
      BY <2>1, <3>1, <3>2 DEF Within
  <2>4. Timed(o) \subseteq Within(E, P)
    BY <1>7, <2>1, <2>3
  <2> QED
    BY <2>1, <2>2, <2>4 DEF Sound
<1>11. ASSUME Whole(E, P, out, a, b) PROVE Whole(E, P, o, c, b)
  <2>1. /\ Disjoint(a) /\ Disjoint(out) /\ TimeOf(out) \cap TimeOf(a) = {}
        /\ Starts(a) /\ Ordered(b)
        /\ Within(E, P) \subseteq Timed(out) \cup Within(a, b)
    BY <1>11 DEF Whole
  <2>2. Disjoint(r) /\ TimeOf(r) \cap Span(ev) = {}
    BY <1>1, <2>1
  <2>3. Disjoint(c)
    BY <1>3, <1>8, <2>2
  <2>4. Disjoint(o)
    BY <1>1, <1>3, <1>7, <2>1
  <2>5. TimeOf(o) \cap TimeOf(c) = {}
    <3>1. TimeOf(c) \subseteq TimeOf(a)
      BY <1>1, <1>3, <1>8
    <3>2. Span(v) \cap TimeOf(c) = {}
      BY <1>3, <1>8, <2>2
    <3> QED
      BY <1>7, <2>1, <3>1, <3>2
  <2>6. Starts(c)
    <3>1. ASSUME NEW z \in TimeOf(r) PROVE w.s <= z
      <4>1. /\ ev.s \in Int /\ ev.e \in Int
            /\ \A y : y \in Span(ev) <=> y \in Int /\ ev.s <= y /\ y < ev.e
        BY <1>1, EventOf
      <4>2. ev.s <= z /\ z \notin Span(ev)
        BY <1>1, <1>4, <2>1, <2>2
      <4>3. z \in Int
        <5>1. PICK k \in DOMAIN r : z \in Span(r[k])
          BY TimeOfHas
        <5>2. r[k] \in Events(D)
          BY <1>1
        <5> QED
          BY <5>1, <5>2, EventOf
      <4>4. w.s \in Int /\ w.s <= ev.e
        <5>1. w \in Events(D) /\ w.s <= ev.e
          BY <1>3
        <5> QED
          BY <5>1, EventOf
      <4>5. ev.e <= z
        BY <4>1, <4>2, <4>3
      <4> QED
        BY <4>1, <4>3, <4>4, <4>5
    <3>2. \A z \in TimeOf(c) : w.s <= z
      BY <1>3, <1>8, <3>1
    <3> QED
      BY <1>4, <1>9, <2>1, <3>2 DEF Starts
  <2>7. Within(a, b) \subseteq Timed(o) \cup Within(c, b)
    <3> SUFFICES ASSUME NEW x \in Timed(a), x[2] \in TimeOf(b)
                 PROVE  x \in Timed(o) \/ x \in Timed(c)
      BY DEF Within
    <3>1. CASE x \in {ev.d} \X Span(ev)
      <4>1. x[2] \in Span(ev) /\ p.s <= x[2]
        BY <1>5, <2>1, <3>1
      <4>2. x[2] \in Span(v) \/ x[2] \in Span(w)
        BY <1>3, <4>1
      <4>3. x \in {v.d} \X Span(v) \/ x \in {w.d} \X Span(w)
        BY <1>3, <3>1, <4>2
      <4> QED
        BY <1>7, <1>8, <4>3
    <3> QED
      BY <1>1, <1>8, <3>1
  <2>8. Within(E, P) \subseteq Timed(o) \cup Within(c, b)
    BY <1>7, <2>1, <2>7
  <2> QED
    BY <2>1, <2>3, <2>4, <2>5, <2>6, <2>8 DEF Whole
<1>12. EventLeaves(w, p) \/ PeriodLeaves(w, p)
  BY <1>3 DEF EventLeaves, PeriodLeaves
<1> QED
  BY <1>7, <1>8, <1>9, <1>10, <1>11, <1>12 DEF p, AsLong

IntersectState(D, F) == [out : Seq(Events(D)), events : Seq(Events(D)), periods : Seq(Events(F))]

Becomes(st, o, a, b) == Intersect(st) = [out |-> o, events |-> a, periods |-> b]

LEMMA IntersectCases ==
  ASSUME NEW D, NEW F, NEW st \in IntersectState(D, F), NEW a, NEW b, a = st.events, b = st.periods,
         a # <<>>, b # <<>>
  PROVE  /\ EventLeaves(Head(a), Head(b)) => Becomes(st, st.out, Tail(a), b)
         /\ PeriodLeaves(Head(a), Head(b)) => Becomes(st, st.out, a, Tail(b))
         /\ ~EventLeaves(Head(a), Head(b)) /\ ~PeriodLeaves(Head(a), Head(b)) =>
               Becomes(st, Append(st.out, PartOf(Head(a), Head(b))),
                       <<RestBehind(Head(a), Head(b))>> \o Tail(a), b)
<1> DEFINE o == st.out
           ev == Head(a)
           p == Head(b)
           end == Earlier(ev.e, p.e)
           begin == Later(ev.s, p.s)
           ends == [ev EXCEPT !.s = begin, !.e = end]
           begins == [ev EXCEPT !.s = end]
<1>1. /\ st = [out |-> o, events |-> a, periods |-> b]
      /\ a \in Seq(Events(D)) /\ b \in Seq(Events(F))
  BY DEF IntersectState
<1>2. ev \in Events(D) /\ p \in Events(F)
  BY <1>1
<1> HIDE DEF o
<1>3. /\ [st EXCEPT !.events = Tail(@)] = [out |-> o, events |-> Tail(a), periods |-> b]
      /\ [st EXCEPT !.periods = Tail(@)] = [out |-> o, events |-> a, periods |-> Tail(b)]
      /\ \A x, y : [st EXCEPT !.out = Append(@, x), !.events = y \o Tail(@)]
                      = [out |-> Append(o, x), events |-> y \o Tail(a), periods |-> b]
  <2>1. st.out = o /\ st.events = a /\ st.periods = b
    BY DEF o
  <2>2. \A x, y : [[st EXCEPT !.out = x] EXCEPT !.events = y]
                     = [out |-> x, events |-> y, periods |-> b]
    <3> TAKE x, y
    <3> DEFINE mid == [st EXCEPT !.out = x]
    <3>1. mid = [out |-> x, events |-> a, periods |-> b]
      BY <1>1
    <3> HIDE DEF mid
    <3>2. [mid EXCEPT !.events = y] = [out |-> x, events |-> y, periods |-> b]
      BY <3>1
    <3> QED
      BY <3>2 DEF mid
  <2>3. \A x : /\ [st EXCEPT !.events = x] = [out |-> o, events |-> x, periods |-> b]
               /\ [st EXCEPT !.periods = x] = [out |-> o, events |-> a, periods |-> x]
    BY <1>1
  <2> QED
    BY <2>1, <2>2, <2>3
<1>4. Intersect(st)
         = IF ev.s = ev.e \/ ev.e <= p.s THEN [st EXCEPT !.events = Tail(@)]
           ELSE IF ev.s >= p.e THEN [st EXCEPT !.periods = Tail(@)]
           ELSE [st EXCEPT !.out = Append(@, ends), !.events = <<begins>> \o Tail(@)]
  BY DEF Intersect, Cut
<1> HIDE DEF ends, begins, end, begin
<1>5. ends = PartOf(ev, p) /\ begins = RestBehind(ev, p)
  <2> HIDE DEF ev, p
  <2>1. ev = [s |-> ev.s, e |-> ev.e, d |-> ev.d]
    BY <1>2, EventOf
  <2>2. begins = [s |-> end, e |-> ev.e, d |-> ev.d]
    BY <2>1, EventWith DEF begins
  <2> DEFINE mid == [ev EXCEPT !.s = begin]
             x == ev.s
             y == ev.e
             d == ev.d
  <2>3. mid = [s |-> begin, e |-> y, d |-> d]
    BY <2>1, EventWith
  <2>4. ends = [mid EXCEPT !.e = end]
    BY DEF ends
  <2> HIDE DEF mid, x, y, d
  <2>5. ends = [s |-> begin, e |-> end, d |-> d]
    BY <2>3, <2>4
  <2> QED
    BY <2>2, <2>5 DEF PartOf, RestBehind, begin, end, d
<1>6. ev.s \in Int /\ p.e \in Int
  BY <1>2, EventOf
<1>7. CASE EventLeaves(ev, p)
  <2>1. Becomes(st, o, Tail(a), b)
    BY <1>3, <1>4, <1>7 DEF EventLeaves, Becomes
  <2> QED
    BY <1>7, <2>1 DEF o, PeriodLeaves, ev, p
<1>8. CASE PeriodLeaves(ev, p)
  <2>1. Becomes(st, o, a, Tail(b))
    BY <1>3, <1>4, <1>6, <1>8 DEF EventLeaves, PeriodLeaves, Becomes
  <2> QED
    BY <1>8, <2>1 DEF o, PeriodLeaves, ev, p
<1>9. CASE ~EventLeaves(ev, p) /\ ~PeriodLeaves(ev, p)
  <2>1. Intersect(st) = [st EXCEPT !.out = Append(@, ends), !.events = <<begins>> \o Tail(@)]
    BY <1>4, <1>6, <1>9 DEF EventLeaves, PeriodLeaves
  <2>2. Becomes(st, Append(o, ends), <<begins>> \o Tail(a), b)
    BY <1>3, <2>1 DEF Becomes
  <2> QED
    BY <1>5, <1>9, <2>2 DEF o, ev, p
<1> QED
  BY <1>7, <1>8, <1>9 DEF ev, p

\* The steps that can still be needed: one for each event and each period, and one
\* for each part that is cut, unless the next step passes something over.
ToGo(a, b) ==
    2 * (Len(a) + Len(b))
       - (IF EventLeaves(Head(a), Head(b)) \/ PeriodLeaves(Head(a), Head(b)) THEN 1 ELSE 0)

InTime(E, P, k, a, b) ==
    a = <<>> \/ b = <<>> \/ ToGo(a, b) + k <= 2 * (Len(E) + Len(P))

IntersectInv(E, P, k, st) ==
    /\ Sound(E, P, st.out, st.events, st.periods)
    /\ Disjoint(E) => Whole(E, P, st.out, st.events, st.periods)
    /\ InTime(E, P, k, st.events, st.periods)

LEMMA ToGoBounds ==
  ASSUME NEW D, NEW F, NEW a \in Seq(Events(D)), NEW b \in Seq(Events(F))
  PROVE  /\ ToGo(a, b) \in Int /\ Len(a) \in Nat /\ Len(b) \in Nat
         /\ ToGo(a, b) <= 2 * (Len(a) + Len(b)) /\ 2 * (Len(a) + Len(b)) - 1 <= ToGo(a, b)
         /\ EventLeaves(Head(a), Head(b)) \/ PeriodLeaves(Head(a), Head(b)) =>
               ToGo(a, b) = 2 * (Len(a) + Len(b)) - 1
         /\ ~EventLeaves(Head(a), Head(b)) /\ ~PeriodLeaves(Head(a), Head(b)) =>
               ToGo(a, b) = 2 * (Len(a) + Len(b))
         /\ a # <<>> => Len(a) >= 1
<1>1. Len(a) \in Nat /\ Len(b) \in Nat /\ (a # <<>> => Len(a) >= 1)
  OBVIOUS
<1> QED
  BY <1>1 DEF ToGo

LEMMA IntersectKeepsInv ==
  ASSUME NEW D, NEW F, NEW E \in Seq(Events(D)), NEW P \in Seq(Events(F)), NEW k \in Nat,
         NEW st \in IntersectState(D, F), IntersectInv(E, P, k, st),
         st.events # <<>>, st.periods # <<>>
  PROVE  Intersect(st) \in IntersectState(D, F) /\ IntersectInv(E, P, k + 1, Intersect(st))
<1> DEFINE a == st.events
           b == st.periods
           out == st.out
           N == 2 * (Len(E) + Len(P))
           ev == Head(a)
           p == Head(b)
<1>1. /\ out \in Seq(Events(D)) /\ a \in Seq(Events(D)) /\ b \in Seq(Events(F))
      /\ a # <<>> /\ b # <<>>
  BY DEF IntersectState
<1>2. Sound(E, P, out, a, b) /\ (Disjoint(E) => Whole(E, P, out, a, b)) /\ ToGo(a, b) + k <= N
  BY DEF IntersectInv, InTime
<1>3. N \in Nat
  OBVIOUS
<1>4. /\ EventLeaves(ev, p) => Becomes(st, out, Tail(a), b)
      /\ PeriodLeaves(ev, p) => Becomes(st, out, a, Tail(b))
      /\ ~EventLeaves(ev, p) /\ ~PeriodLeaves(ev, p) =>
            Becomes(st, Append(out, PartOf(ev, p)), <<RestBehind(ev, p)>> \o Tail(a), b)
  BY IntersectCases
<1>5. ASSUME NEW o \in Seq(Events(D)), NEW c \in Seq(Events(D)), NEW e \in Seq(Events(F)),
             Becomes(st, o, c, e),
             Sound(E, P, out, a, b) => Sound(E, P, o, c, e),
             Whole(E, P, out, a, b) => Whole(E, P, o, c, e),
             ToGo(c, e) + 1 <= ToGo(a, b)
      PROVE  Intersect(st) \in IntersectState(D, F) /\ IntersectInv(E, P, k + 1, Intersect(st))
  <2> DEFINE new == Intersect(st)
  <2>1. new = [out |-> o, events |-> c, periods |-> e]
    BY <1>5 DEF Becomes
  <2> HIDE DEF new
  <2>2. new.out = o /\ new.events = c /\ new.periods = e /\ new \in IntersectState(D, F)
    BY <2>1 DEF IntersectState
  <2> HIDE DEF a, b, out, N
  <2>3. ToGo(c, e) \in Int /\ ToGo(a, b) \in Int
    BY <1>1, ToGoBounds
  <2>4. ToGo(c, e) + (k + 1) <= N
    BY <1>2, <1>3, <1>5, <2>3
  <2>5. Sound(E, P, o, c, e) /\ (Disjoint(E) => Whole(E, P, o, c, e))
    BY <1>2, <1>5
  <2>6. IntersectInv(E, P, k + 1, new)
    BY <2>2, <2>4, <2>5 DEF IntersectInv, InTime, N
  <2> QED
    BY <2>2, <2>6 DEF new
<1> HIDE DEF a, b, out, N
<1>6. /\ Tail(a) \in Seq(Events(D)) /\ Len(Tail(a)) = Len(a) - 1
      /\ Tail(b) \in Seq(Events(F)) /\ Len(Tail(b)) = Len(b) - 1
  BY <1>1
<1>7. Len(a) \in Nat /\ Len(b) \in Nat
  BY <1>1
<1>8. CASE EventLeaves(ev, p)
  <2> DEFINE c == Tail(a)
  <2>1. Sound(E, P, out, a, b) => Sound(E, P, out, c, b)
    BY <1>1, <1>8, PassingEvent
  <2>2. Whole(E, P, out, a, b) => Whole(E, P, out, c, b)
    BY <1>1, <1>8, PassingEvent
  <2>3. ToGo(a, b) = 2 * (Len(a) + Len(b)) - 1
    BY <1>1, <1>8, ToGoBounds
  <2>4. c \in Seq(Events(D)) /\ Len(c) = Len(a) - 1 /\ Becomes(st, out, c, b)
    BY <1>4, <1>6, <1>8
  <2> HIDE DEF c
  <2>5. ToGo(c, b) <= 2 * (Len(c) + Len(b)) /\ ToGo(c, b) \in Int
    BY <1>1, <2>4, ToGoBounds
  <2>6. ToGo(c, b) + 1 <= ToGo(a, b)
    BY <1>7, <2>3, <2>4, <2>5
  <2> QED
    BY <1>1, <1>5, <2>1, <2>2, <2>4, <2>6
<1>9. CASE PeriodLeaves(ev, p)
  <2> DEFINE e == Tail(b)
  <2>1. Sound(E, P, out, a, b) => Sound(E, P, out, a, e)
    BY <1>1, <1>9, PassingPeriod
  <2>2. Whole(E, P, out, a, b) => Whole(E, P, out, a, e)
    BY <1>1, <1>9, PassingPeriod
  <2>3. ToGo(a, b) = 2 * (Len(a) + Len(b)) - 1
    BY <1>1, <1>9, ToGoBounds
  <2>4. e \in Seq(Events(F)) /\ Len(e) = Len(b) - 1 /\ Becomes(st, out, a, e)
    BY <1>4, <1>6, <1>9
  <2> HIDE DEF e
  <2>5. ToGo(a, e) <= 2 * (Len(a) + Len(e)) /\ ToGo(a, e) \in Int
    BY <1>1, <2>4, ToGoBounds
  <2>6. ToGo(a, e) + 1 <= ToGo(a, b)
    BY <1>7, <2>3, <2>4, <2>5
  <2> QED
    BY <1>1, <1>5, <2>1, <2>2, <2>4, <2>6
<1>10. CASE ~EventLeaves(ev, p) /\ ~PeriodLeaves(ev, p)
  <2> DEFINE o == Append(out, PartOf(ev, p))
             c == <<RestBehind(ev, p)>> \o Tail(a)
  <2>1. IsCut(out, a, b, o, c) /\ ~EventLeaves(Head(a), Head(b)) /\ ~PeriodLeaves(Head(a), Head(b))
    BY <1>1, <1>10 DEF IsCut
  <2>2. Becomes(st, o, c, b)
    BY <1>4, <1>10
  <2> HIDE DEF o, c
  <2>3. /\ o \in Seq(Events(D)) /\ c \in Seq(Events(D)) /\ c # <<>> /\ Len(c) = Len(a)
        /\ Sound(E, P, out, a, b) => Sound(E, P, o, c, b)
        /\ Whole(E, P, out, a, b) => Whole(E, P, o, c, b)
        /\ EventLeaves(Head(c), Head(b)) \/ PeriodLeaves(Head(c), Head(b))
    <3>1. out \in Seq(Events(D)) /\ a \in Seq(Events(D)) /\ b \in Seq(Events(F))
      BY <1>1
    <3>2. IsCut(out, a, b, o, c)
      BY <2>1
    <3>3. Sound(E, P, out, a, b) => Sound(E, P, o, c, b)
      BY <3>1, <3>2, Cutting
    <3>4. Whole(E, P, out, a, b) => Whole(E, P, o, c, b)
      BY <3>1, <3>2, Cutting
    <3>5. o \in Seq(Events(D)) /\ c \in Seq(Events(D)) /\ c # <<>> /\ Len(c) = Len(a)
      <4>1. o \in Seq(Events(D)) /\ c \in Seq(Events(D))
        BY <3>1, <3>2, Cutting
      <4>2. Len(c) = Len(a)
        <5>1. AsLong(c, a)
          BY <3>1, <3>2, Cutting
        <5> QED
          BY <5>1 DEF AsLong
      <4>3. c # <<>>
        BY <1>1, <4>1, <4>2
      <4> QED
        BY <4>1, <4>2, <4>3
    <3>6. EventLeaves(Head(c), Head(b)) \/ PeriodLeaves(Head(c), Head(b))
      BY <3>1, <3>2, Cutting
    <3> QED
      BY <3>3, <3>4, <3>5, <3>6
  <2>4. ToGo(c, b) = 2 * (Len(c) + Len(b)) - 1
    BY <1>1, <2>3, ToGoBounds
  <2>5. ToGo(a, b) = 2 * (Len(a) + Len(b))
    BY <1>1, <2>1, ToGoBounds
  <2>6. ToGo(c, b) + 1 <= ToGo(a, b)
    BY <1>7, <2>3, <2>4, <2>5
  <2> QED
    BY <1>1, <1>5, <2>2, <2>3, <2>6
<1> QED
  BY <1>8, <1>9, <1>10

LEMMA IntersectStep ==
  ASSUME NEW D, NEW F, NEW E \in Seq(Events(D)), NEW P \in Seq(Events(F)), NEW k \in Nat,
         NEW st \in IntersectState(D, F), IntersectInv(E, P, k, st)
  PROVE  Intersect(st) \in IntersectState(D, F) /\ IntersectInv(E, P, k + 1, Intersect(st))
<1>1. CASE st.events = <<>> \/ st.periods = <<>>
  <2>1. Intersect(st) = st
    BY <1>1 DEF Intersect
  <2> QED
    BY <1>1, <2>1 DEF IntersectInv, InTime
<1>2. CASE st.events # <<>> /\ st.periods # <<>>
  BY <1>2, IntersectKeepsInv
<1> QED
  BY <1>1, <1>2

IntersectAll(st, n) == Iterated(Intersect, st, n)

LEMMA IntersectType ==
  ASSUME NEW D, NEW F, NEW st \in IntersectState(D, F)
  PROVE  Intersect(st) \in IntersectState(D, F)
<1> DEFINE a == st.events
           b == st.periods
           o == st.out
<1>1. CASE a = <<>> \/ b = <<>>
  BY <1>1 DEF Intersect
<1>2. CASE a # <<>> /\ b # <<>>
  <2>1. o \in Seq(Events(D)) /\ a \in Seq(Events(D)) /\ b \in Seq(Events(F))
    BY DEF IntersectState
  <2>2. /\ EventLeaves(Head(a), Head(b)) => Becomes(st, o, Tail(a), b)
        /\ PeriodLeaves(Head(a), Head(b)) => Becomes(st, o, a, Tail(b))
        /\ ~EventLeaves(Head(a), Head(b)) /\ ~PeriodLeaves(Head(a), Head(b)) =>
              Becomes(st, Append(o, PartOf(Head(a), Head(b))),
                      <<RestBehind(Head(a), Head(b))>> \o Tail(a), b)
    BY <1>2, IntersectCases
  <2> HIDE DEF a, b, o
  <2>3. Tail(a) \in Seq(Events(D)) /\ Tail(b) \in Seq(Events(F))
    BY <1>2, <2>1
  <2>4. \A x, y \in Seq(Events(D)), z \in Seq(Events(F)) :
           Becomes(st, x, y, z) => Intersect(st) \in IntersectState(D, F)
    BY DEF Becomes, IntersectState
  <2>5. CASE EventLeaves(Head(a), Head(b)) \/ PeriodLeaves(Head(a), Head(b))
    BY <2>1, <2>2, <2>3, <2>4, <2>5
  <2>6. CASE ~EventLeaves(Head(a), Head(b)) /\ ~PeriodLeaves(Head(a), Head(b))
    <3> DEFINE x == Append(o, PartOf(Head(a), Head(b)))
               y == <<RestBehind(Head(a), Head(b))>> \o Tail(a)
    <3>1. IsCut(o, a, b, x, y)
      BY <1>2, <2>6 DEF IsCut
    <3>2. Becomes(st, x, y, b)
      BY <2>2, <2>6
    <3> HIDE DEF x, y
    <3>3. x \in Seq(Events(D)) /\ y \in Seq(Events(D))
      BY <2>1, <3>1, Cutting
    <3> QED
      BY <2>1, <2>4, <3>2, <3>3
  <2> QED
    BY <2>5, <2>6
<1> QED
  BY <1>1, <1>2

\* The loop, from the sorted lists to its end.
LEMMA IntersectCourse ==
  ASSUME NEW D, NEW F, NEW E \in Seq(Events(D)), NEW P \in Seq(Events(F)), NEW n \in Nat,
         NEW st \in IntersectState(D, F), IntersectInv(E, P, 0, st)
  PROVE  /\ IntersectAll(st, n) \in IntersectState(D, F)
         /\ IntersectInv(E, P, n, IntersectAll(st, n))
<1> DEFINE S == IntersectState(D, F)
           Is(f) == f = [s \in SUBSET (1..n) |->
                            IF s = {} THEN st ELSE Intersect(f[s \ {Max(s)}])]
           fold == CHOOSE f : Is(f)
           F1 == [p \in S \X (1..n) |-> Intersect(p[1])]
<1>1. IntersectAll(st, n)
         = (CHOOSE f : f = [s \in SUBSET DOMAIN [k \in 1..n |-> k] |->
                               IF s = {} THEN st ELSE Intersect(f[s \ {Max(s)}])])[DOMAIN [k \in 1..n |-> k]]
  BY DEF IntersectAll, Iterated, FoldLeft, MapThenFoldSet
<1>2. IntersectAll(st, n) = fold[1..n]
  <2>1. DOMAIN [k \in 1..n |-> k] = 1..n
    OBVIOUS
  <2> QED
    BY <1>1, <2>1
<1> HIDE DEF S
<1>3. F1 \in [S \X (1..n) -> S]
  <2>1. ASSUME NEW p \in S \X (1..n) PROVE Intersect(p[1]) \in S
    BY IntersectType DEF S
  <2> QED
    BY <2>1
<1>4. \A u \in S, k \in 1..n : F1[<<u, k>>] = Intersect(u)
  OBVIOUS
<1> HIDE DEF F1
<1>5. st \in S
  BY DEF S
<1>6. PICK g \in [SUBSET (1..n) -> S] :
         \A s \in SUBSET (1..n) : g[s] = IF s = {} THEN st ELSE F1[<<g[s \ {Max(s)}], Max(s)>>]
  <2>1. HasFold(S, st, n, F1)
    BY <1>3, <1>5, FoldExists
  <2> QED
    BY <2>1 DEF HasFold
<1>7. \A s \in SUBSET (1..n) : s # {} => Max(s) \in 1..n
  BY LastOfPositions
<1>8. Is(g)
  <2>1. ASSUME NEW s \in SUBSET (1..n)
        PROVE  g[s] = IF s = {} THEN st ELSE Intersect(g[s \ {Max(s)}])
    BY <1>4, <1>6, <1>7
  <2> QED
    BY <2>1
<1>9. Is(fold)
  <2> HIDE DEF Is
  <2> QED
    BY <1>8
<1>10. \A s \in SUBSET (1..n) :
         fold[s] = IF s = {} THEN st ELSE Intersect(fold[s \ {Max(s)}])
  <2> HIDE DEF fold
  <2> QED
    BY <1>9
<1> HIDE DEF fold
<1>11. Runs(S, st, n, F1, fold[1..n])
  <2>1. fold[{}] = st
    BY <1>10
  <2>2. \A s \in SUBSET (1..n) :
           s # {} /\ fold[s \ {Max(s)}] \in S => fold[s] = F1[<<fold[s \ {Max(s)}], Max(s)>>]
    BY <1>4, <1>7, <1>10
  <2> QED
    BY <1>3, <1>5, <2>1, <2>2, FoldRuns
<1>12. PICK c \in [0..n -> S] : /\ c[0] = st /\ fold[1..n] = c[n]
                               /\ \A k \in 1..n : c[k] = F1[<<c[k - 1], k>>]
  BY <1>11 DEF Runs
<1> DEFINE G == {k \in 0..n : IntersectInv(E, P, k, c[k])}
<1>13. 0 \in G
  BY <1>12
<1>14. ASSUME NEW k \in 1..n, k - 1 \in G PROVE k \in G
  <2> DEFINE u == c[k - 1]
             j == k - 1
  <2>1. j \in 0..n /\ k \in 0..n /\ j \in Nat /\ j + 1 = k
    OBVIOUS
  <2>2. u \in S /\ IntersectInv(E, P, j, u) /\ c[k] = Intersect(u)
    BY <1>4, <1>12, <1>14, <2>1
  <2> HIDE DEF u, j
  <2>3. IntersectInv(E, P, j + 1, Intersect(u))
    BY <2>1, <2>2, IntersectStep DEF S
  <2> QED
    BY <2>1, <2>2, <2>3
<1>15. \A k \in 0..n : k \in G
  <2> HIDE DEF G
  <2>1. \A k \in 1..n : k - 1 \in G => k \in G
    BY <1>14
  <2> QED
    BY <1>13, <2>1, AllTheWay
<1>16. n \in 0..n
  OBVIOUS
<1> QED
  BY <1>2, <1>12, <1>15, <1>16 DEF S

\* filter_period_intersect.
LEMMA PeriodsIntersect ==
  ASSUME NEW D, NEW F, NEW l \in Seq(Events(D)), NEW m \in Seq(Events(F))
  PROVE  LET out == FilterPeriodIntersect(l, m)
         IN  /\ out \in Seq(Events(D)) /\ Timed(out) \subseteq Within(l, m)
             /\ Disjoint(l) => Timed(out) = Within(l, m) /\ Disjoint(out)
<1> DEFINE E == SortByTimestamp(l)
           P == SortByTimestamp(m)
           n == 2 * (Len(l) + Len(m))
           start == [out |-> <<>>, events |-> E, periods |-> P]
           end == IntersectAll(start, n)
<1>1. FilterPeriodIntersect(l, m) = end.out
  BY DEF FilterPeriodIntersect, IntersectAll
<1>2. /\ E \in Seq(Events(D)) /\ Len(E) = Len(l) /\ Ordered(E)
      /\ Timed(E) = Timed(l) /\ (Disjoint(l) => Disjoint(E))
  BY SortKeeps, RearrangedKeeps
<1>3. /\ P \in Seq(Events(F)) /\ Len(P) = Len(m) /\ Ordered(P) /\ TimeOf(P) = TimeOf(m)
  BY SortKeeps, RearrangedKeeps
<1> HIDE DEF E, P
<1>4. n \in Nat /\ n = 2 * (Len(E) + Len(P))
  BY <1>2, <1>3
<1> HIDE DEF n
<1>5. Within(E, P) = Within(l, m)
  BY <1>2, <1>3 DEF Within
<1>6. start \in IntersectState(D, F)
  BY <1>2, <1>3 DEF IntersectState
<1>7. IntersectInv(E, P, 0, start)
  <2>1. start.out = <<>> /\ start.events = E /\ start.periods = P
    OBVIOUS
  <2>2. Sound(E, P, <<>>, E, P)
    BY TimeOfNone DEF Sound
  <2>3. Disjoint(E) => Whole(E, P, <<>>, E, P)
    BY <1>2, <1>3, OrderedStarts, TimeOfNone DEF Whole
  <2>4. InTime(E, P, 0, E, P)
    <3>1. ToGo(E, P) \in Int /\ ToGo(E, P) <= 2 * (Len(E) + Len(P))
      BY <1>2, <1>3, ToGoBounds
    <3> QED
      BY <3>1 DEF InTime
  <2> HIDE DEF start
  <2> QED
    BY <2>1, <2>2, <2>3, <2>4 DEF IntersectInv
<1> HIDE DEF start
<1>8. end \in IntersectState(D, F) /\ IntersectInv(E, P, n, end)
  BY <1>2, <1>3, <1>4, <1>6, <1>7, IntersectCourse
<1> DEFINE a == end.events
           b == end.periods
           out == end.out
<1> HIDE DEF end
<1>9. /\ out \in Seq(Events(D)) /\ a \in Seq(Events(D)) /\ b \in Seq(Events(F))
      /\ Sound(E, P, out, a, b) /\ (Disjoint(E) => Whole(E, P, out, a, b)) /\ InTime(E, P, n, a, b)
  BY <1>8 DEF IntersectState, IntersectInv
<1> HIDE DEF a, b, out
<1>10. a = <<>> \/ b = <<>>
  <2> SUFFICES ASSUME a # <<>>, b # <<>> PROVE FALSE
    OBVIOUS
  <2>1. ToGo(a, b) + n <= n
    BY <1>4, <1>9 DEF InTime
  <2>2. ToGo(a, b) \in Int /\ 2 * (Len(a) + Len(b)) - 1 <= ToGo(a, b)
    BY <1>9, ToGoBounds
  <2>3. Len(a) \in Nat /\ Len(b) \in Nat /\ Len(a) >= 1
    BY <1>9
  <2> QED
    BY <1>4, <2>1, <2>2, <2>3
<1>11. Within(a, b) = {}
  BY <1>10, TimeOfNone DEF Within
<1>12. Timed(out) \subseteq Within(l, m)
  BY <1>5, <1>9 DEF Sound
<1>13. Disjoint(l) => Timed(out) = Within(l, m) /\ Disjoint(out)
  BY <1>2, <1>5, <1>9, <1>11, <1>12 DEF Whole
<1> QED
  BY <1>1, <1>9, <1>12, <1>13 DEF out

\* categorize changes no times, so the categories' totals are those of the events.
LEMMA CategoriesKeepDurations ==
  ASSUME NEW D, NEW l \in Seq(Events(D)), NEW rules
  PROVE  Total(CatEvents(l, rules)) = Durations(l)
<1> DEFINE n == Len(l)
           m == [k \in DOMAIN l |-> Categorize(l[k], rules)]
           X == {m[k].d : k \in DOMAIN l}
<1>1. n \in Nat /\ DOMAIN l = 1..n /\ \A k \in DOMAIN l : l[k] \in Events(D)
  OBVIOUS
<1>2. DOMAIN m = DOMAIN l /\ m = [k \in 1..n |-> m[k]]
  BY <1>1
<1>3. \A k \in DOMAIN l : m[k] = Categorize(l[k], rules)
  OBVIOUS
<1>4. \A k \in DOMAIN l : m[k].d \in X
  OBVIOUS
<1> HIDE DEF m, X
<1>5. \A k \in DOMAIN l : /\ m[k] \in Events(X) /\ m[k].s = l[k].s /\ m[k].e = l[k].e
  <2> TAKE k \in DOMAIN l
  <2> DEFINE v == l[k]
             w == m[k]
  <2>1. v \in Events(D) /\ w = Categorize(v, rules) /\ w.d \in X
    BY <1>1, <1>3, <1>4
  <2> HIDE DEF v, w
  <2>2. v.s \in Int /\ v.e \in Int /\ v.s <= v.e /\ v = [s |-> v.s, e |-> v.e, d |-> v.d]
    BY <2>1, EventOf
  <2>3. PICK x : Categorize(v, rules) = [v EXCEPT !.d = x]
    BY DEF Categorize
  <2>4. [v EXCEPT !.d = x] = [s |-> v.s, e |-> v.e, d |-> x]
    BY <2>2, EventWith
  <2> DEFINE a == v.s
             b == v.e
  <2>5. w = [s |-> a, e |-> b, d |-> x] /\ a \in Int /\ b \in Int /\ a <= b
    BY <2>1, <2>2, <2>3, <2>4
  <2> HIDE DEF a, b
  <2>6. w.s = a /\ w.e = b /\ w.d = x
    BY <2>5
  <2>7. w \in Events(X)
    BY <2>1, <2>5, <2>6, IsEvent
  <2> QED
    BY <2>6, <2>7 DEF v, w, a, b
<1>6. m \in Seq(Events(X))
  <2>1. m \in [1..n -> Events(X)]
    BY <1>1, <1>2, <1>5
  <2> QED
    BY <1>1, <2>1, SegmentIsSeq
<1>7. Lengths(m) = Lengths(l)
  BY <1>2, <1>5 DEF Lengths
<1>8. PICK g : Adds(g, Lengths(l), DOMAIN l)
  BY LengthsType, SumExists
<1>9. Durations(m) = Durations(l)
  <2>1. Durations(l) = g[DOMAIN l]
    BY <1>8, DurationsAdd
  <2>2. Adds(g, Lengths(m), DOMAIN m)
    BY <1>2, <1>7, <1>8
  <2>3. Durations(m) = g[DOMAIN m]
    BY <1>6, <2>2, DurationsAdd
  <2> QED
    BY <1>2, <2>1, <2>3
<1>10. Total(MergeEventsByKey(m)) = Durations(m)
  BY <1>6, MergeKeepsDurations
<1>11. CatEvents(l, rules) = MergeEventsByKey(m)
  BY DEF CatEvents, m
<1> QED
  BY <1>9, <1>10, <1>11
=============================================================================
