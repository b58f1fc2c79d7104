------------------------- MODULE MCDatastoreWorker -------------------------
(* DatastoreWorker on small instances; the cfg files give the constants.   *)
EXTENDS DatastoreWorker, TLC

\* Clients are interchangeable. Sound for the safety run only.
ClientSymmetry == Permutations(Client)
=============================================================================
