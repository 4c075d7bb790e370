-------------------------- MODULE MCExtractionJobs --------------------------
(***************************************************************************)
(* Instances of ExtractionJobs for TLC: a paid job and a free one of the   *)
(* same account, or two paid jobs, run by two workers.                     *)
(***************************************************************************)
EXTENDS ExtractionJobs, TLC

CONSTANTS j1, j2, u1, u2, w1, w2

SameOwner == (j1 :> u1 @@ j2 :> u1)
OneJobOwner == (j1 :> u1)
OneCreditEach == [u \in Users |-> 1]
TwoCreditsEach == [u \in Users |-> 2]

WorkerSymmetry == Permutations(Workers)
=============================================================================
