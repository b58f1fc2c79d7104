----------------------------- MODULE MCPairing -----------------------------
(* Pairing on a small instance: two machines, one of which is installed a
   second time under another id.                                           *)
EXTENDS Pairing, TLC

CONSTANTS a, b, a1, b1, b2

MCIds == (a :> <<a1>>) @@ (b :> <<b1, b2>>)
=============================================================================
