------------------------------ MODULE SqlNull ------------------------------
(* The NULL of a column and the None of an optional field of a request. *)
EXTENDS Naturals

CONSTANT None

ASSUME NullAssumption == None \notin Nat
=============================================================================
