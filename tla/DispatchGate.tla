---------------------------- MODULE DispatchGate ----------------------------
(***************************************************************************)
(* What stands between a claimed job and the provider, in                  *)
(* unrender/product/service.py (_begin_provider_dispatch,                  *)
(* _provider_circuit_open) and dispatch_budget.py: the circuit of recent   *)
(* failures, the cap on retained attempts, and the shared daily allowance  *)
(* with its operator pause.  ExtractionJobs leaves the gate's verdict      *)
(* open; here it is computed from the clock and the retained rows.         *)
(*                                                                         *)
(* Abstractions.  The wall clock is a number of ticks, TicksPerDay to a    *)
(* UTC day; an operator or NTP may set it back.  A row of dispatch_budget  *)
(* that does not exist yet has day -1.                                     *)
(***************************************************************************)
EXTENDS Integers, FiniteSets

CONSTANTS
    Users, Jobs, Owner,   \* as in ExtractionJobs
    DailyLimit,           \* settings.max_provider_dispatches_per_day
    UserFailureLimit,     \* settings.provider_failure_limit_per_user_hour
    GlobalFailureLimit,   \* settings.provider_failure_limit_global_hour
    MaxAttemptsPerJob,    \* settings.max_provider_attempts_per_job
    TicksPerDay,          \* ticks of the clock in a UTC day
    Window,               \* ticks of the failure window ("one hour")
    MaxTime,              \* bound of the model: the last tick
    MaxSetbacks           \* bound of the model: times the clock is set back

ASSUME GateAssumption ==
    /\ Owner \in [Jobs -> Users]
    /\ {DailyLimit, UserFailureLimit, GlobalFailureLimit, MaxAttemptsPerJob,
        Window, MaxTime, MaxSetbacks} \subseteq Nat
    /\ TicksPerDay \in Nat \ {0}

VARIABLES
    now,                \* the wall clock
    setbacks,           \* times it was set back
    budget,             \* the row of table dispatch_budget
    provider_attempts,  \* rows of table provider_attempts, per job
    phase,              \* of each job: has it a claim, is the provider at work
    admitted,           \* history: dispatches charged to each UTC day
    failures            \* history: failed calls, also of deleted jobs

gateVars == <<now, setbacks, budget, provider_attempts, phase, admitted, failures>>
clockVars == <<now, setbacks>>
history == <<admitted, failures>>

Ticks == 0 .. MaxTime
Day(t) == t \div TicksPerDay
Days == {Day(t) : t \in Ticks}
Phase == {"idle", "asking", "calling", "deleted"}
Outcome == {"dispatched", "succeeded", "failed", "cancelled"}
AttemptRow == [attempt: 1 .. MaxAttemptsPerJob, outcome: Outcome, completed: Ticks]

Init ==
    /\ now = 0 /\ setbacks = 0
    /\ budget = [day |-> -1, used |-> 0, paused |-> FALSE]
    /\ provider_attempts = [j \in Jobs |-> {}]
    /\ phase = [j \in Jobs |-> "idle"]
    /\ admitted = [d \in Days |-> 0]
    /\ failures = {}

-----------------------------------------------------------------------------
(* The gate                                                                *)

RecentlyFailed(S) == {p \in S : p.outcome = "failed" /\ p.completed >= now - Window}
FailuresOf(u) ==
    UNION {{j} \X RecentlyFailed(provider_attempts[j]) : j \in {i \in Jobs : Owner[i] = u}}

ProviderCircuitOpen(u) ==
    \/ Cardinality(FailuresOf(u)) >= UserFailureLimit
    \/ Cardinality(UNION {FailuresOf(v) : v \in Users}) >= GlobalFailureLimit

\* Mutants: any other day starts afresh; midnight forgets the pause.
ResetOnAnyOtherDay ==
    IF budget.day # Day(now) THEN [budget EXCEPT !.day = Day(now), !.used = 0] ELSE budget
NewRowEveryDay ==
    IF budget.day < Day(now) THEN [day |-> Day(now), used |-> 0, paused |-> FALSE]
    ELSE budget

\* The row once today has begun.  A clock set back does not start a day again.
Rolled ==
    IF budget.day < Day(now) THEN [budget EXCEPT !.day = Day(now), !.used = 0] ELSE budget
Allowed == ~Rolled.paused /\ Rolled.used < DailyLimit
Charged == [Rolled EXCEPT !.used = @ + 1]

GateOpen(j) == /\ ~ProviderCircuitOpen(Owner[j])
               /\ Cardinality(provider_attempts[j]) < MaxAttemptsPerJob

-----------------------------------------------------------------------------
(* Jobs at the gate                                                        *)

\* A worker holds the claim of job j and has its page ready.
Ask(j) ==
    /\ phase[j] = "idle"
    /\ phase' = [phase EXCEPT ![j] = "asking"]
    /\ UNCHANGED <<clockVars, budget, provider_attempts, history>>

\* The circuit or the attempt cap refuses before the allowance is touched; a
\* late cancellation or a lost claim leaves it alone too.
TurnAway(j) ==
    /\ phase[j] = "asking"
    /\ phase' = [phase EXCEPT ![j] = "idle"]
    /\ UNCHANGED <<clockVars, budget, provider_attempts, history>>

\* Paused, or today's allowance is used: the job fails before the provider.
Deny(j) ==
    /\ phase[j] = "asking" /\ GateOpen(j) /\ ~Allowed
    /\ phase' = [phase EXCEPT ![j] = "idle"]
    /\ budget' = Rolled
    /\ UNCHANGED <<clockVars, provider_attempts, history>>

Dispatch(j) ==
    /\ phase[j] = "asking" /\ GateOpen(j) /\ Allowed
    /\ phase' = [phase EXCEPT ![j] = "calling"]
    /\ budget' = Charged
    /\ provider_attempts' = [provider_attempts EXCEPT ![j] = @ \cup
          {[attempt |-> Cardinality(@) + 1, outcome |-> "dispatched", completed |-> 0]}]
    /\ admitted' = [admitted EXCEPT ![Rolled.day] = @ + 1]
    /\ UNCHANGED <<clockVars, failures>>

\* Mutant: the transaction rolls back, and its handler gives a dispatch back too.
GiveBackOnLostLease(j) ==
    /\ phase[j] = "asking" /\ GateOpen(j) /\ Allowed
    /\ phase' = [phase EXCEPT ![j] = "idle"]
    /\ budget' = [Rolled EXCEPT !.used = IF @ > 0 THEN @ - 1 ELSE 0]
    /\ UNCHANGED <<clockVars, provider_attempts, history>>

\* The lease ran out between the claim check and the update of the job: no
\* call is made, and the reserved dispatch stays used.
LoseLease(j) ==
    /\ phase[j] = "asking" /\ GateOpen(j) /\ Allowed
    /\ phase' = [phase EXCEPT ![j] = "idle"]
    /\ budget' = Charged
    /\ UNCHANGED <<clockVars, provider_attempts, history>>

\* A terminal transaction, or the recovery of an expired lease, closes the row.
Finish(j, outcome) ==
    /\ phase[j] = "calling"
    /\ phase' = [phase EXCEPT ![j] = "idle"]
    /\ provider_attempts' = [provider_attempts EXCEPT ![j] =
          {IF p.outcome = "dispatched"
           THEN [p EXCEPT !.outcome = outcome, !.completed = now] ELSE p : p \in @}]
    /\ failures' = IF outcome = "failed"
                   THEN failures \cup {[job |-> j, completed |-> now,
                                        attempt |-> Cardinality(provider_attempts[j])]}
                   ELSE failures
    /\ UNCHANGED <<clockVars, budget, admitted>>

\* delete_job, retention or account deletion: the rows go with the job.
Delete(j) ==
    /\ phase[j] = "idle"
    /\ phase' = [phase EXCEPT ![j] = "deleted"]
    /\ provider_attempts' = [provider_attempts EXCEPT ![j] = {}]
    /\ UNCHANGED <<clockVars, budget, history>>

-----------------------------------------------------------------------------
(* The operator and the clock                                              *)

\* "unrender-admin dispatch pause" and "resume".
SetPaused(p) ==
    /\ budget' = [day |-> IF budget.day = -1 THEN Day(now) ELSE budget.day,
                  used |-> budget.used, paused |-> p]
    /\ UNCHANGED <<clockVars, provider_attempts, phase, history>>

TimePasses ==
    /\ now < MaxTime
    /\ now' = now + 1
    /\ UNCHANGED <<setbacks, budget, provider_attempts, phase, history>>

ClockSetBack ==
    /\ setbacks < MaxSetbacks
    /\ \E t \in Ticks : t < now /\ now' = t
    /\ setbacks' = setbacks + 1
    /\ UNCHANGED <<budget, provider_attempts, phase, history>>

Next ==
    \/ \E j \in Jobs : \/ Ask(j) \/ TurnAway(j) \/ Deny(j) \/ Dispatch(j)
                       \/ LoseLease(j) \/ Delete(j)
                       \/ \E o \in Outcome \ {"dispatched"} : Finish(j, o)
    \/ \E p \in BOOLEAN : SetPaused(p)
    \/ TimePasses \/ ClockSetBack

Spec == Init /\ [][Next]_gateVars

-----------------------------------------------------------------------------
(* Properties                                                              *)

GateTypeOK ==
    /\ now \in Ticks /\ setbacks \in 0 .. MaxSetbacks
    /\ budget \in [day: Days \cup {-1}, used: 0 .. DailyLimit, paused: BOOLEAN]
    /\ provider_attempts \in [Jobs -> SUBSET AttemptRow]
    /\ phase \in [Jobs -> Phase]
    /\ admitted \in [Days -> Nat]
    /\ failures \subseteq [job: Jobs, completed: Ticks, attempt: 1 .. MaxAttemptsPerJob]

\* No UTC day is charged more dispatches than the allowance, whatever jobs are
\* deleted, leases run out and clocks are set back (and the row never shows
\* less than what was dispatched on its day, nor a day yet to come anything).
AllowanceHolds ==
    /\ \A d \in Days : admitted[d] <= DailyLimit
    /\ budget.day # -1 => admitted[budget.day] <= budget.used
    /\ \A d \in Days : d > budget.day => admitted[d] = 0

\* A pause stops every dispatch until an operator resumes: not midnight, not
\* a restart of the clock, not a worker already at the gate lifts it.
PauseHolds ==
    [][budget.paused => /\ admitted' = admitted
                        /\ budget'.paused \/ SetPaused(FALSE)]_gateVars

\* The allowance of a day only shrinks: an uncertain dispatch stays used.
AllowanceNeverReturns ==
    [][/\ budget'.day >= budget.day
       /\ budget'.day = budget.day => budget'.used >= budget.used]_gateVars

\* docs/SECURITY_REVIEW.md:244: "Per-user/global failure circuits stop later
\* spend."  An account whose calls failed UserFailureLimit times within the
\* window gets no further dispatch.
FailuresStopSpend ==
    [][\A j \in Jobs :
          phase[j] = "asking" /\ phase'[j] = "calling" =>
             Cardinality({f \in failures : /\ Owner[f.job] = Owner[j]
                                           /\ f.completed >= now - Window})
                < UserFailureLimit]_gateVars
=============================================================================
