---------------------------- MODULE MCAccountBook ----------------------------
(***************************************************************************)
(* An account with one job and one purchase beside a second account that   *)
(* only writes rows of its own, under limits a few rows above what the job *)
(* needs.                                                                  *)
(***************************************************************************)
EXTENDS AccountBook, TLC

CONSTANTS u1, u2, j1, e1

OneJobOwner == (j1 :> u1)
OneBuyer == (e1 :> u1)
Limits == (u1 :> 15 @@ u2 :> 8 @@ Service :> 19)
BuyerLimits == (u1 :> 12 @@ Service :> 20)
BuyerReserves == (u1 :> 2 @@ Service :> 2)
BuyerRows == (u1 :> 1)
NoBuyer == <<>>
Reserves == (u1 :> 2 @@ u2 :> 2 @@ Service :> 2)
OtherRows == (u1 :> 1 @@ u2 :> 0)
=============================================================================
