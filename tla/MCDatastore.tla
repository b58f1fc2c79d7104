---------------------------- MODULE MCDatastore ----------------------------
(* Datastore on small instances: the constants that are not simple values. *)
EXTENDS Datastore, TLC

Interval(s, e) == [s |-> s, e |-> e, d |-> "x"]

\* Watchers send instants; anything can be inserted.
MCBeat == {Interval(0, 0), Interval(1, 1)}
MCBody == {Interval(0, 1)}

\* What debug-build buckets migrate to, when there are any.
MCTarget == [n \in TestName |-> "android"]

\* Names are interchangeable when no migration tells them apart.
NameSymmetry == Permutations(Name)
=============================================================================
