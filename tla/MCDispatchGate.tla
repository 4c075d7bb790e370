--------------------------- MODULE MCDispatchGate ---------------------------
(***************************************************************************)
(* DispatchGate for TLC: two jobs of two accounts, or of one.              *)
(***************************************************************************)
EXTENDS DispatchGate, TLC

CONSTANTS j1, j2, u1, u2

OwnerEach == (j1 :> u1 @@ j2 :> u2)
OwnerOne == (j1 :> u1 @@ j2 :> u1)
=============================================================================
