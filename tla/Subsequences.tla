---------------------------- MODULE Subsequences ----------------------------
(* A sequence without some of its elements, as Vec::retain and
   Iterator::filter leave it, and in another order, as sort_by leaves it.
   SelectSeq and SortSeq say the same, by a recursion over the data and by the
   permutations; these forms, by the rank of a position, can be proved about
   (OrderLemmas.tla, TransformProofs.tla). *)
EXTENDS Naturals, Sequences, FiniteSets

\* The k-th smallest of a finite set of positions.
Nth(K, k) == CHOOSE i \in K : Cardinality({j \in K : j <= i}) = k

\* The elements of a finite set in an order: the k-th is the one that k - 1 are
\* before.
InOrder(K, before(_, _)) ==
    [k \in 1..Cardinality(K) |->
        CHOOSE i \in K : Cardinality({j \in K : j = i \/ before(j, i)}) = k]

\* The elements of s at the positions of K, in order.
Subsequence(s, K) == [k \in 1..Cardinality(K) |-> s[Nth(K, k)]]
=============================================================================
