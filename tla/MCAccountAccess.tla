-------------------------- MODULE MCAccountAccess --------------------------
(***************************************************************************)
(* AccountAccess for TLC: two people, and accounts that share an address,  *)
(* one after the other.                                                    *)
(***************************************************************************)
EXTENDS AccountAccess, TLC

CONSTANTS p1, p2, a1, a2, r1, r2

MailboxOfFirst == [a \in Accounts |-> p1]

Symmetry == Permutations(Requests) \cup Permutations(Accounts)
=============================================================================
