--------------------------- MODULE CreditAccount ---------------------------
(***************************************************************************)
(* What the service promises about chart credits, whatever its workers,    *)
(* its customers and the payment provider do: an attempt takes one credit  *)
(* when it is accepted, and that credit is either spent by the one         *)
(* dispatch of the attempt or returned, once; a purchase or a grant is     *)
(* paid in once; and nothing happens to an account that was closed.        *)
(* ExtractionJobs and AccountBook implement this specification.            *)
(***************************************************************************)
EXTENDS Integers, FiniteSets

CONSTANTS
    Users, Jobs, Owner, Attempts,
    InitialCredits,  \* of every account
    Deposits,        \* purchases and grants
    Payee,           \* the account of each
    Pack             \* credits of each

VARIABLES fate,      \* of the credit of every attempt of every job
          balance,   \* of every account
          deposited, \* what was paid in
          open       \* accounts that were not closed

creditAccountVars == <<fate, balance, deposited, open>>

Fate == {"none", "held", "spent", "returned"}
HeldBy(j) == {a \in Attempts : fate[j][a] = "held"}

Init == /\ fate = [j \in Jobs |-> [a \in Attempts |-> "none"]]
        /\ balance = InitialCredits
        /\ deposited = {} /\ open = Users

\* A job takes a credit for an attempt only when its earlier ones are settled.
Take(j, a) ==
    /\ Owner[j] \in open
    /\ HeldBy(j) = {} /\ \A b \in Attempts : b >= a => fate[j][b] = "none"
    /\ balance[Owner[j]] >= 1
    /\ fate' = [fate EXCEPT ![j][a] = "held"]
    /\ balance' = [balance EXCEPT ![Owner[j]] = @ - 1]
    /\ UNCHANGED <<deposited, open>>

Spend(j, a) ==
    /\ fate[j][a] = "held"
    /\ fate' = [fate EXCEPT ![j][a] = "spent"]
    /\ UNCHANGED <<balance, deposited, open>>

\* Several jobs may be given up together; each gets its own credit back.
GiveBack(S) ==
    /\ S # {} /\ \A j \in S : HeldBy(j) # {}
    /\ fate' = [j \in Jobs |-> [a \in Attempts |->
                   IF j \in S /\ fate[j][a] = "held" THEN "returned" ELSE fate[j][a]]]
    /\ balance' = [u \in Users |-> balance[u] + Cardinality({j \in S : Owner[j] = u})]
    /\ UNCHANGED <<deposited, open>>

PayIn(d) ==
    /\ d \notin deposited /\ Payee[d] \in open
    /\ deposited' = deposited \cup {d}
    /\ balance' = [balance EXCEPT ![Payee[d]] = @ + Pack]
    /\ UNCHANGED <<fate, open>>

\* What the account had is forgotten with it.
Close(u) ==
    /\ u \in open /\ open' = open \ {u}
    /\ fate' = [j \in Jobs |-> [a \in Attempts |->
                   IF Owner[j] = u THEN "none" ELSE fate[j][a]]]
    /\ balance' = [balance EXCEPT ![u] = 0]
    /\ deposited' = {d \in deposited : Payee[d] # u}

Next == \/ \E j \in Jobs, a \in Attempts : Take(j, a) \/ Spend(j, a)
        \/ \E S \in SUBSET Jobs : GiveBack(S)
        \/ \E d \in Deposits : PayIn(d)
        \/ \E u \in Users : Close(u)

Spec == Init /\ [][Next]_creditAccountVars

=============================================================================
