------------------------------- MODULE MCSync -------------------------------
(* Sync on a small instance: the order of the device ids.                  *)
EXTENDS Sync, TLC

CONSTANTS a, b

Contents == Permutations(Content)

MCRank == (None :> 0) @@ (a :> 1) @@ (b :> 2)
=============================================================================
