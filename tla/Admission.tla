------------------------------- MODULE Admission -------------------------------
(***************************************************************************)
(* How a web process admits requests: the rate limits that all processes   *)
(* share in the database (service.rate_limit and request_guard of          *)
(* unrender/product/web.py) and the slots of one process for work that is  *)
(* expensive (ConcurrencyLimitMiddleware, _run_admitted, register).  A     *)
(* client may disconnect at any moment; its work goes on.                  *)
(*                                                                         *)
(* Abstractions.  A window is a minute and housekeeping keeps an hour of   *)
(* them, here KeptWindows.  The buckets of users and of accounts work like *)
(* the global one.  What a request does is one step, but for registration, *)
(* which holds a slot of its group and, for a while, one of another.       *)
(***************************************************************************)
EXTENDS Integers, FiniteSets

CONSTANTS
    Clients,       \* requests
    Slots,         \* slots of each group
    RateLimit,     \* requests of one window
    KeptWindows,   \* windows that housekeeping keeps, and the clock may go back
    LastWindow     \* bound of the model

Groups == {"auth", "email", "expensive"}

ASSUME AdmissionAssumption ==
    /\ IsFiniteSet(Clients)
    /\ Slots \in [Groups -> Nat \ {0}]
    /\ RateLimit \in Nat /\ KeptWindows \in Nat /\ LastWindow \in Nat

Windows == 0 .. LastWindow

VARIABLES
    window,        \* the minute of the clock
    latest,        \* the latest minute there was
    rate,          \* rate_limits: the requests counted in each window, 0 if no row
    semaphore,     \* the free slots of each group
    client,        \* each request: its group, whether it waits, and its work
    passed         \* history: requests admitted in each window

admissionVars == <<window, latest, rate, semaphore, client, passed>>

\* The work of a request, from the guard to its end.  "credentials" is the part
\* of a registration that hashes a password.
Work == {"none", "counted", "running", "credentials", "over"}

AdmissionTypeOK ==
    /\ window \in Windows /\ latest \in Windows /\ window <= latest
    /\ rate \in [Windows -> Nat]
    /\ semaphore \in [Groups -> Nat]
    /\ client \in [Clients -> [group: Groups, waits: BOOLEAN, work: Work]]
    /\ passed \in [Windows -> Nat]

NoRequest == [group |-> "auth", waits |-> FALSE, work |-> "none"]

AdmissionInit ==
    /\ window = 0 /\ latest = 0
    /\ rate = [w \in Windows |-> 0]
    /\ semaphore = Slots
    /\ client = [c \in Clients |-> NoRequest]
    /\ passed = [w \in Windows |-> 0]

ClientAt(c, work) == client[c].work = work
WorkTo(c, work) == client' = [client EXCEPT ![c].work = work]

-----------------------------------------------------------------------------
(* The rate limit                                                          *)

\* The count is kept even when the request is refused; a database that is full
\* refuses the row of a new window.
GuardRequest(c) ==
    /\ ClientAt(c, "none")
    /\ \E g \in Groups :
          \/ /\ rate' = [rate EXCEPT ![window] = @ + 1]
             /\ IF rate[window] + 1 <= RateLimit
                THEN /\ client' = [client EXCEPT ![c] =
                                     [group |-> g, waits |-> TRUE, work |-> "counted"]]
                     /\ passed' = [passed EXCEPT ![window] = @ + 1]
                ELSE WorkTo(c, "over") /\ UNCHANGED passed
          \/ /\ rate[window] = 0
             /\ WorkTo(c, "over")
             /\ UNCHANGED <<rate, passed>>
    /\ UNCHANGED <<window, latest, semaphore>>

\* Mutant: housekeeping keeps the running window only.
ForgetAll ==
    /\ rate' = [w \in Windows |-> IF w < window THEN 0 ELSE rate[w]]
    /\ UNCHANGED <<window, latest, semaphore, client, passed>>

ForgetWindows ==
    /\ rate' = [w \in Windows |-> IF w < window - KeptWindows THEN 0 ELSE rate[w]]
    /\ UNCHANGED <<window, latest, semaphore, client, passed>>

\* The wall clock, which may also be set back.
WindowChanges ==
    /\ \E w \in Windows :
          /\ w = window + 1 \/ (w < window /\ w >= latest - KeptWindows)
          /\ window' = w
          /\ latest' = IF w > latest THEN w ELSE latest
    /\ UNCHANGED <<rate, semaphore, client, passed>>

-----------------------------------------------------------------------------
(* The slots                                                               *)

Take(g) == semaphore[g] > 0 /\ semaphore' = [semaphore EXCEPT ![g] = @ - 1]
GiveBack(g) == semaphore' = [semaphore EXCEPT ![g] = @ + 1]

Acquire(c) ==
    /\ ClientAt(c, "counted") /\ client[c].waits
    /\ Take(client[c].group)
    /\ WorkTo(c, "running")
    /\ UNCHANGED <<window, latest, rate, passed>>

\* No slot within 50 milliseconds, or the client has gone before it had one.
TurnedAway(c) ==
    /\ ClientAt(c, "counted")
    /\ semaphore[client[c].group] = 0 \/ ~client[c].waits
    /\ WorkTo(c, "over")
    /\ UNCHANGED <<window, latest, rate, semaphore, passed>>

\* A registration runs in its slot of "email" and asks for one of "auth".
HashCredentials(c) ==
    /\ ClientAt(c, "running") /\ client[c].group = "email"
    /\ Take("auth")
    /\ WorkTo(c, "credentials")
    /\ UNCHANGED <<window, latest, rate, passed>>

SendMail(c) ==
    /\ ClientAt(c, "credentials")
    /\ GiveBack("auth")
    /\ WorkTo(c, "running")
    /\ UNCHANGED <<window, latest, rate, passed>>

\* finish, the callback of the task: done, refused or failed.
WorkEnds(c) ==
    /\ ClientAt(c, "running")
    /\ GiveBack(client[c].group)
    /\ WorkTo(c, "over")
    /\ UNCHANGED <<window, latest, rate, passed>>

\* Mutant: the request that is cancelled gives its slot back.
DisconnectFrees(c) ==
    /\ client[c].waits
    /\ client' = [client EXCEPT ![c].waits = FALSE]
    /\ IF ClientAt(c, "running") THEN GiveBack(client[c].group) ELSE UNCHANGED semaphore
    /\ UNCHANGED <<window, latest, rate, passed>>

\* The caller stops waiting; the task is shielded.
Disconnect(c) ==
    /\ client[c].waits
    /\ client' = [client EXCEPT ![c].waits = FALSE]
    /\ UNCHANGED <<window, latest, rate, semaphore, passed>>

AdmissionNext ==
    \/ \E c \in Clients :
          \/ GuardRequest(c) \/ Acquire(c) \/ TurnedAway(c) \/ HashCredentials(c)
          \/ SendMail(c) \/ WorkEnds(c) \/ Disconnect(c)
    \/ ForgetWindows \/ WindowChanges

AdmissionSpec == AdmissionInit /\ [][AdmissionNext]_admissionVars

-----------------------------------------------------------------------------
(* Properties                                                              *)

Holders(g) ==
    {c \in Clients : \/ client[c].group = g /\ client[c].work \in {"running", "credentials"}
                     \/ g = "auth" /\ ClientAt(c, "credentials")}

\* The slots that are not free are those of work that still runs, whether or
\* not anyone waits for it: no more of it runs than the process can bear, and
\* none is lost to a client that went away.
SlotsMatchWork ==
    \A g \in Groups : semaphore[g] + Cardinality(Holders(g)) = Slots[g]

\* No window admits more than its limit, although housekeeping forgets counts
\* and the clock is set back by as much as it keeps.
WindowHolds == \A w \in Windows : passed[w] <= RateLimit
=============================================================================
