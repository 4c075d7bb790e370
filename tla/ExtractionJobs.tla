--------------------------- MODULE ExtractionJobs ---------------------------
(***************************************************************************)
(* The life of an extraction job in unrender/product/service.py: customers *)
(* queue, cancel, reprocess, correct, approve and delete jobs, while worker*)
(* threads claim them under leases, call the model provider and publish    *)
(* results, and a reaper recovers the jobs of workers that stopped.        *)
(*                                                                         *)
(* Every action is one "BEGIN IMMEDIATE" transaction of the service or one *)
(* step of process_one between two transactions, so the interleavings are  *)
(* those of the threads and processes that share the database.             *)
(*                                                                         *)
(* Abstractions.  Timestamps: a lease is "live" until time passes without  *)
(* a heartbeat (LeaseExpires); a heartbeat that succeeds keeps it live and *)
(* changes nothing else.  lease_token: a fresh secret for every claim, as  *)
(* the pair (worker_owner, lease_generation) is.  Page, crop, chart and    *)
(* message contents do not appear.  The gate that may refuse a dispatch    *)
(* (circuit breaker, daily budget, attempt history) is a free choice.      *)
(***************************************************************************)
EXTENDS Integers, FiniteSets, Sequences

CONSTANTS
    Users,           \* accounts
    Jobs,            \* job identifiers (UUIDs, never reused)
    Owner,           \* the account of each job
    FreeJobs,        \* jobs whose source is the saved fixture: no credit
    Workers,         \* worker threads, of one or several processes
    NoWorker,        \* worker_owner IS NULL
    NoJob,           \* an idle worker holds no claim
    InitialCredits,  \* the balance of each account
    MaxRecovery,     \* settings.max_recovery_attempts
    MaxVersions,     \* settings.max_result_versions_per_job
    MaxLedger,       \* settings.max_credit_ledger_records_per_user
    MaxAttempts,     \* bound of the model: attempts of one job
    MaxStops         \* bound of the model: shutdown requests

ASSUME ConstantsAssumption ==
    /\ IsFiniteSet(Jobs)
    /\ Owner \in [Jobs -> Users]
    /\ FreeJobs \subseteq Jobs
    /\ NoWorker \notin Workers
    /\ NoJob \notin Jobs
    /\ InitialCredits \in [Users -> Nat]
    /\ MaxRecovery \in Nat
    /\ MaxVersions \in Nat \ {0}
    /\ MaxLedger \in Nat
    /\ MaxAttempts \in Nat \ {0}
    /\ MaxStops \in Nat

VARIABLES
    job,                \* table jobs, one row per identifier
    result_versions,    \* table result_versions, in version order
    provider_attempts,  \* table provider_attempts, per job
    ledger,             \* keys of table credit_ledger
    credit_balance,     \* users.credit_balance
    worker,             \* local state of each process_one
    stopping,           \* the _stop event of each worker's pool
    stops,              \* shutdown requests so far
    spent,              \* history: attempts whose dispatch was committed
    calls               \* history: provider calls made, per attempt

vars == <<job, result_versions, provider_attempts, ledger, credit_balance,
          worker, stopping, stops, spent, calls>>
workVars == <<worker, stopping, stops>>
creditVars == <<ledger, credit_balance>>
historyVars == <<spent, calls>>

-----------------------------------------------------------------------------
(* Rows and records                                                        *)

Finished == {"review", "approved", "failed", "cancelled"}
Status == {"absent", "queued", "running", "deleted"} \cup Finished
Attempts == 1 .. MaxAttempts

JobRow == [status: Status, created: Nat, attempt: 0 .. MaxAttempts,
           recovery_count: 0 .. MaxRecovery,
           cancel_requested: BOOLEAN, reservation_active: BOOLEAN,
           provider_dispatched: BOOLEAN, worker_owner: Workers \cup {NoWorker},
           lease_generation: Nat, lease: {"none", "live", "expired"},
           result_reservation_attempt: 0 .. MaxAttempts, approved: BOOLEAN]

NoRow(status) ==
    [status |-> status, created |-> 0, attempt |-> 0, recovery_count |-> 0,
     cancel_requested |-> FALSE, reservation_active |-> FALSE,
     provider_dispatched |-> FALSE, worker_owner |-> NoWorker,
     lease_generation |-> 0, lease |-> "none",
     result_reservation_attempt |-> 0, approved |-> FALSE]

\* The receipt stored with a version names the execution that produced it.
Version == [source: {"extraction", "correction", "reprocess"},
            attempt: Attempts, generation: Nat]

ProviderAttempt == [attempt: Attempts, generation: Nat,
                    outcome: {"dispatched", "succeeded", "failed", "cancelled"}]

LedgerKey == [kind: {"reserve", "refund"}, job: Jobs, attempt: Attempts]

Claim == [pc: {"idle", "claimed", "reading", "ready", "dispatched", "calling",
               "publishing", "failing"},
          job: Jobs \cup {NoJob}, attempt: 0 .. MaxAttempts, generation: Nat,
          saw_cancel: BOOLEAN]

Idle == [pc |-> "idle", job |-> NoJob, attempt |-> 0, generation |-> 0,
         saw_cancel |-> FALSE]

Init ==
    /\ job = [j \in Jobs |-> NoRow("absent")]
    /\ result_versions = [j \in Jobs |-> <<>>]
    /\ provider_attempts = [j \in Jobs |-> {}]
    /\ ledger = {}
    /\ credit_balance = InitialCredits
    /\ worker = [w \in Workers |-> Idle]
    /\ stopping = [w \in Workers |-> FALSE]
    /\ stops = 0
    /\ spent = {}
    /\ calls = [p \in Jobs \X Attempts |-> 0]

-----------------------------------------------------------------------------
(* Credits                                                                 *)

Cost(j) == IF j \in FreeJobs THEN 0 ELSE 1
Entries(u) == {e \in ledger : Owner[e.job] = u}

\* Mutant: a failure after the dispatch returns the credit too.
RefundEvenIfCharged(j) == job[j].reservation_active

\* A failure of job j now would have to return its credit.
RefundDue(j) == job[j].reservation_active /\ ~job[j].provider_dispatched
Refundable(u) == {j \in Jobs : Owner[j] = u /\ RefundDue(j)}

\* Take the credit of attempt a.  The job's row already holds the new
\* reservation when the ledger counts the refunds it must be able to record.
Reserve(j, a) ==
    LET u == Owner[j] IN
    IF Cost(j) = 0 THEN UNCHANGED creditVars
    ELSE /\ Cardinality(Entries(u)) + 1 + Cardinality(Refundable(u) \cup {j})
                <= MaxLedger
         /\ credit_balance[u] >= 1
         /\ credit_balance' = [credit_balance EXCEPT ![u] = @ - 1]
         /\ ledger' = ledger \cup {[kind |-> "reserve", job |-> j, attempt |-> a]}

\* Return the credits of the jobs S, once for each attempt.
Refund(S) ==
    LET due == {[kind |-> "refund", job |-> j, attempt |-> job[j].attempt] : j \in S}
        new(u) == {e \in due \ ledger : Owner[e.job] = u}
    IN  /\ \A u \in Users :
              new(u) # {} => Cardinality(Entries(u)) + Cardinality(new(u)) <= MaxLedger
        /\ ledger' = ledger \cup due
        /\ credit_balance' =
              [u \in Users |-> credit_balance[u] + Cardinality(new(u))]

-----------------------------------------------------------------------------
(* Results and provider attempts                                           *)

HasResult(j) == result_versions[j] # <<>>

\* A job that already had a result falls back to it.
Preserved(j, otherwise) ==
    IF ~HasResult(j) THEN otherwise
    ELSE IF job[j].approved THEN "approved" ELSE "review"

Open(j, p) ==
    /\ p.attempt = job[j].attempt
    /\ p.generation = job[j].lease_generation
    /\ p.outcome = "dispatched"

\* The update of provider_attempts every terminal transaction checks: it must
\* find the one open row of a charged execution, or the transaction aborts.
HasOpen(j) == \E p \in provider_attempts[j] : Open(j, p)

\* Mutant: the row is found and not closed.
ClosedLater(j, outcome) == provider_attempts[j]
Closed(j, outcome) ==
    {IF Open(j, p) THEN [p EXCEPT !.outcome = outcome] ELSE p :
        p \in provider_attempts[j]}

\* The row after a terminal transaction.
End(row, status) ==
    [row EXCEPT !.status = status, !.reservation_active = FALSE,
                !.cancel_requested = FALSE, !.worker_owner = NoWorker,
                !.lease = "none", !.result_reservation_attempt = 0]

\* _finish_failed_claim and _finish_cancelled_claim for the claimed job j.
EndJob(j, status) ==
    /\ job[j].provider_dispatched => HasOpen(j)
    /\ job' = [job EXCEPT ![j] = End(@, Preserved(j, status))]
    /\ provider_attempts' =
          IF job[j].provider_dispatched
          THEN [provider_attempts EXCEPT ![j] = Closed(j, status)]
          ELSE provider_attempts
    /\ Refund(IF RefundDue(j) THEN {j} ELSE {})
    /\ UNCHANGED <<result_versions, historyVars>>

-----------------------------------------------------------------------------
(* Requests of the account that owns the job                               *)

\* create_job and the public API submission: the row, the credit and the
\* worst-case result capacity are reserved in one transaction.
Create(j) ==
    /\ job[j].status = "absent"
    /\ job' = [job EXCEPT ![j] =
          [NoRow("queued") EXCEPT
              !.created = Cardinality({i \in Jobs : job[i].status # "absent"}),
              !.attempt = 1,
              !.reservation_active = (Cost(j) = 1),
              !.result_reservation_attempt = 1]]
    /\ Reserve(j, 1)
    /\ UNCHANGED <<result_versions, provider_attempts, workVars, historyVars>>

\* Mutant: the capacity check of a new result is off by one.
RoomOffByOne(j) == Len(result_versions[j]) <= MaxVersions
RoomForResult(j) == Len(result_versions[j]) < MaxVersions

\* A new paid attempt for a finished job; an approval stays until it succeeds.
Reprocess(j) ==
    LET a == job[j].attempt + 1 IN
    /\ job[j].status \in Finished
    /\ a <= MaxAttempts
    /\ RoomForResult(j)
    /\ job' = [job EXCEPT ![j] =
          [@ EXCEPT !.status = "queued", !.attempt = a, !.recovery_count = 0,
                    !.cancel_requested = FALSE,
                    !.reservation_active = (Cost(j) = 1),
                    !.provider_dispatched = FALSE, !.worker_owner = NoWorker,
                    !.lease = "none", !.result_reservation_attempt = a]]
    /\ Reserve(j, a)
    /\ UNCHANGED <<result_versions, provider_attempts, workVars, historyVars>>

\* A queued job ends at once; a running one only learns that it should stop.
CancelQueued(j) ==
    /\ job[j].status = "queued"
    /\ job' = [job EXCEPT ![j] = End(@, Preserved(j, "cancelled"))]
    /\ Refund(IF job[j].reservation_active THEN {j} ELSE {})
    /\ UNCHANGED <<result_versions, provider_attempts, workVars, historyVars>>

CancelRunning(j) ==
    /\ job[j].status = "running"
    /\ job' = [job EXCEPT ![j].cancel_requested = TRUE]
    /\ UNCHANGED <<result_versions, provider_attempts, creditVars, workVars,
                   historyVars>>

\* Mutant: an edit keeps the approval of the result it replaces.
StoreApprovedCorrection(j, v) ==
    /\ job[j].status \in {"review", "approved"}
    /\ RoomForResult(j)
    /\ result_versions' = [result_versions EXCEPT ![j] =
          Append(@, [@[v] EXCEPT !.source = "correction"])]
    /\ UNCHANGED <<job, provider_attempts, creditVars, workVars, historyVars>>

\* save_correction keeps the newest receipt, restore_version takes that of an
\* older version v: both append a version and withdraw the approval.
StoreCorrection(j, v) ==
    /\ job[j].status \in {"review", "approved"}
    /\ RoomForResult(j)
    /\ result_versions' = [result_versions EXCEPT ![j] =
          Append(@, [@[v] EXCEPT !.source = "correction"])]
    /\ job' = [job EXCEPT ![j] = [@ EXCEPT !.status = "review", !.approved = FALSE]]
    /\ UNCHANGED <<provider_attempts, creditVars, workVars, historyVars>>

Approve(j) ==
    /\ job[j].status = "review"
    /\ HasResult(j)
    /\ job' = [job EXCEPT ![j] = [@ EXCEPT !.status = "approved", !.approved = TRUE]]
    /\ UNCHANGED <<result_versions, provider_attempts, creditVars, workVars,
                   historyVars>>

\* delete_job; the versions and provider attempts go with the row.
Delete(j) ==
    /\ job[j].status \in Finished
    /\ job' = [job EXCEPT ![j] = NoRow("deleted")]
    /\ result_versions' = [result_versions EXCEPT ![j] = <<>>]
    /\ provider_attempts' = [provider_attempts EXCEPT ![j] = {}]
    /\ UNCHANGED <<creditVars, workVars, historyVars>>

-----------------------------------------------------------------------------
(* One worker thread: process_one                                          *)

\* The row the claim names is still this execution's, under a live lease.
Holds(w) ==
    LET c == worker[w] IN
    /\ c.job # NoJob
    /\ job[c.job].status = "running"
    /\ job[c.job].attempt = c.attempt
    /\ job[c.job].worker_owner = w
    /\ job[c.job].lease_generation = c.generation
    /\ job[c.job].lease = "live"

\* Mutant: a request to cancel is not read again.
StillHeld(w) == Holds(w)

\* No one asked to cancel since the row was last read.
StillWanted(w) == Holds(w) /\ ~job[worker[w].job].cancel_requested

GoTo(w, pc) == worker' = [worker EXCEPT ![w].pc = pc]
Return(w) == worker' = [worker EXCEPT ![w] = Idle]
SameStops == UNCHANGED <<stopping, stops>>
SameTables == UNCHANGED <<job, result_versions, provider_attempts, creditVars>>

\* The oldest queued job.
Claimable(j) ==
    /\ job[j].status = "queued"
    /\ \A i \in Jobs : job[i].status = "queued" => job[j].created <= job[i].created

ClaimNextJob(w, j) ==
    LET g == job[j].lease_generation + 1 IN
    /\ worker[w].pc = "idle"
    /\ ~stopping[w]
    /\ Claimable(j)
    /\ job' = [job EXCEPT ![j] =
          [@ EXCEPT !.status = "running", !.worker_owner = w,
                    !.lease_generation = g, !.lease = "live"]]
    /\ worker' = [worker EXCEPT ![w] =
          [pc |-> "claimed", job |-> j, attempt |-> job[j].attempt,
           generation |-> g, saw_cancel |-> job[j].cancel_requested]]
    /\ UNCHANGED <<result_versions, provider_attempts, creditVars, stopping,
                   stops, historyVars>>

\* The claimed row already asked for cancellation.
CancelClaimed(w) ==
    /\ worker[w].pc = "claimed" /\ worker[w].saw_cancel
    /\ Holds(w)
    /\ EndJob(worker[w].job, "cancelled")
    /\ Return(w) /\ SameStops

\* A draining worker puts back what it has not dispatched.  The request to
\* cancel and the recovery count stay on the row.
ReleaseForShutdown(w) ==
    LET j == worker[w].job IN
    /\ worker[w].pc \in {"claimed", "reading"} /\ ~worker[w].saw_cancel
    /\ stopping[w]
    /\ Holds(w) /\ ~job[j].provider_dispatched
    /\ job' = [job EXCEPT ![j] =
          [@ EXCEPT !.status = "queued", !.worker_owner = NoWorker, !.lease = "none"]]
    /\ Return(w) /\ SameStops
    /\ UNCHANGED <<result_versions, provider_attempts, creditVars, historyVars>>

\* Progress updates around rendering the page: both need the claim.
Progress(w) ==
    /\ ~stopping[w] /\ ~worker[w].saw_cancel
    /\ Holds(w)
    /\ \/ worker[w].pc = "claimed" /\ GoTo(w, "reading")
       \/ worker[w].pc = "reading" /\ GoTo(w, "ready")
    /\ SameTables /\ SameStops /\ UNCHANGED historyVars

\* _begin_provider_dispatch: a late request to cancel wins, then the reserved
\* capacity and the gate are checked, then the credit is spent.
CancelReady(w) ==
    LET j == worker[w].job IN
    /\ worker[w].pc = "ready"
    /\ Holds(w) /\ ~job[j].provider_dispatched /\ job[j].cancel_requested
    /\ EndJob(j, "cancelled")
    /\ Return(w) /\ SameStops

RefuseDispatch(w) ==
    LET j == worker[w].job IN
    /\ worker[w].pc = "ready"
    /\ StillWanted(w) /\ ~job[j].provider_dispatched
    /\ EndJob(j, "failed")
    /\ Return(w) /\ SameStops

\* Mutant: the row does not remember the dispatch.
DispatchForgotten(w) ==
    LET c == worker[w]
        j == c.job
    IN  /\ c.pc = "ready"
        /\ StillWanted(w) /\ ~job[j].provider_dispatched
        /\ provider_attempts' = [provider_attempts EXCEPT ![j] = @ \cup
              {[attempt |-> c.attempt, generation |-> c.generation,
                outcome |-> "dispatched"]}]
        /\ spent' = spent \cup {<<j, c.attempt>>}
        /\ GoTo(w, "dispatched") /\ SameStops
        /\ UNCHANGED <<job, result_versions, creditVars, calls>>

Dispatch(w) ==
    LET c == worker[w]
        j == c.job
    IN  /\ c.pc = "ready"
        /\ StillWanted(w) /\ ~job[j].provider_dispatched
        /\ job[j].result_reservation_attempt = c.attempt
        /\ job' = [job EXCEPT ![j].provider_dispatched = TRUE]
        /\ provider_attempts' = [provider_attempts EXCEPT ![j] = @ \cup
              {[attempt |-> c.attempt, generation |-> c.generation,
                outcome |-> "dispatched"]}]
        /\ spent' = spent \cup {<<j, c.attempt>>}
        /\ GoTo(w, "dispatched") /\ SameStops
        /\ UNCHANGED <<result_versions, creditVars, calls>>

\* extractor.extract(image): the provider is called after the commit.
CallProvider(w) ==
    LET c == worker[w] IN
    /\ c.pc = "dispatched"
    /\ calls' = [calls EXCEPT ![<<c.job, c.attempt>>] = @ + 1]
    /\ GoTo(w, "calling") /\ SameTables /\ SameStops
    /\ UNCHANGED spent

ProviderAnswers(w) ==
    /\ worker[w].pc = "calling"
    /\ \/ GoTo(w, "publishing")
       \/ GoTo(w, "failing")
    /\ SameTables /\ SameStops /\ UNCHANGED historyVars

\* The terminal transaction of a good answer.
CancelAnswered(w) ==
    /\ worker[w].pc = "publishing"
    /\ Holds(w) /\ job[worker[w].job].cancel_requested
    /\ EndJob(worker[w].job, "cancelled")
    /\ Return(w) /\ SameStops

Publish(w) ==
    LET c == worker[w]
        j == c.job
    IN  /\ c.pc = "publishing"
        /\ StillWanted(w)
        /\ RoomForResult(j)
        /\ job[j].result_reservation_attempt = c.attempt
        /\ HasOpen(j)
        /\ result_versions' = [result_versions EXCEPT ![j] =
              Append(@, [source |-> IF HasResult(j) THEN "reprocess" ELSE "extraction",
                         attempt |-> c.attempt, generation |-> c.generation])]
        /\ job' = [job EXCEPT ![j] = [End(@, "review") EXCEPT !.approved = FALSE]]
        /\ provider_attempts' =
              [provider_attempts EXCEPT ![j] = Closed(j, "succeeded")]
        /\ Return(w) /\ SameStops
        /\ UNCHANGED <<creditVars, historyVars>>

\* An exception on the way: an unreadable source, a refused quota, a busy
\* database.  The handlers of process_one all end in _finish_failed_claim.
Fault(w) ==
    /\ worker[w].pc \in {"claimed", "reading", "ready", "publishing"}
    /\ GoTo(w, "failing")
    /\ SameTables /\ SameStops /\ UNCHANGED historyVars

FinishFailed(w) ==
    LET j == worker[w].job IN
    /\ worker[w].pc = "failing"
    /\ Holds(w)
    /\ EndJob(j, IF job[j].cancel_requested THEN "cancelled" ELSE "failed")
    /\ Return(w) /\ SameStops

\* Whatever transaction comes next finds another execution, or an expired
\* lease: the worker forgets the job and leaves the row alone.
DropStaleClaim(w) ==
    /\ worker[w].pc \in {"claimed", "reading", "ready", "publishing", "failing"}
    /\ ~Holds(w)
    /\ Return(w) /\ SameTables /\ SameStops /\ UNCHANGED historyVars

-----------------------------------------------------------------------------
(* Leases, recovery, and the worker pool                                   *)

\* Time passes without a successful heartbeat.  An expired lease cannot be
\* renewed: heartbeat_claim and every other claim check require a live one.
LeaseExpires(j) ==
    /\ job[j].status = "running" /\ job[j].lease = "live"
    /\ job' = [job EXCEPT ![j].lease = "expired"]
    /\ UNCHANGED <<result_versions, provider_attempts, creditVars, workVars,
                   historyVars>>

Expired == {j \in Jobs : job[j].status = "running" /\ job[j].lease = "expired"}

Requeued(j) ==
    /\ j \in Expired
    /\ ~job[j].cancel_requested /\ ~job[j].provider_dispatched
    /\ job[j].recovery_count < MaxRecovery

\* Mutant: a charged job is left to the worker that called the provider.
GivenUpUncharged(j) == j \in Expired /\ ~Requeued(j) /\ ~job[j].provider_dispatched
GivenUp(j) == j \in Expired /\ ~Requeued(j)
Reason(j) == IF job[j].cancel_requested THEN "cancelled" ELSE "failed"

Recovered(j) ==
    IF Requeued(j)
    THEN [job[j] EXCEPT !.status = "queued", !.recovery_count = @ + 1,
                        !.worker_owner = NoWorker, !.lease = "none"]
    ELSE IF GivenUp(j) THEN End(job[j], Preserved(j, Reason(j))) ELSE job[j]

\* recover_interrupted_jobs: every expired job in one transaction.  A charged
\* job is never run again; it needs its open provider attempt, and without it
\* the whole recovery rolls back.
RecoverInterruptedJobs ==
    /\ Expired # {}
    /\ \A j \in Jobs : GivenUp(j) /\ job[j].provider_dispatched => HasOpen(j)
    /\ job' = [j \in Jobs |-> Recovered(j)]
    /\ provider_attempts' = [j \in Jobs |->
          IF GivenUp(j) /\ job[j].provider_dispatched
          THEN Closed(j, Reason(j)) ELSE provider_attempts[j]]
    /\ Refund({j \in Jobs : GivenUp(j) /\ RefundDue(j)})
    /\ UNCHANGED <<result_versions, workVars, historyVars>>

\* The process dies, or an exception leaves process_one: the claim is
\* forgotten, the row keeps it until its lease expires.
Crash(w) ==
    /\ worker[w].pc # "idle"
    /\ Return(w) /\ SameTables /\ SameStops /\ UNCHANGED historyVars

\* JobWorker.stop and, once the thread has ended, start.
Stop(w) ==
    /\ ~stopping[w] /\ stops < MaxStops
    /\ stopping' = [stopping EXCEPT ![w] = TRUE]
    /\ stops' = stops + 1
    /\ SameTables /\ UNCHANGED <<worker, historyVars>>

Start(w) ==
    /\ stopping[w] /\ worker[w].pc = "idle"
    /\ stopping' = [stopping EXCEPT ![w] = FALSE]
    /\ SameTables /\ UNCHANGED <<worker, stops, historyVars>>

-----------------------------------------------------------------------------
(* The system                                                              *)

Request(j) ==
    \/ Create(j) \/ Reprocess(j) \/ CancelQueued(j) \/ CancelRunning(j)
    \/ \E v \in DOMAIN result_versions[j] : StoreCorrection(j, v)
    \/ Approve(j) \/ Delete(j)

\* One transaction or one local step of a process_one that holds a job.
WorkerStep(w) ==
    \/ CancelClaimed(w) \/ ReleaseForShutdown(w) \/ Progress(w)
    \/ CancelReady(w) \/ RefuseDispatch(w) \/ Dispatch(w) \/ CallProvider(w)
    \/ ProviderAnswers(w) \/ CancelAnswered(w) \/ Publish(w) \/ FinishFailed(w)
    \/ DropStaleClaim(w)

Next ==
    \/ \E j \in Jobs : Request(j) \/ LeaseExpires(j)
    \/ \E w \in Workers : \/ \E j \in Jobs : ClaimNextJob(w, j)
                          \/ WorkerStep(w) \/ Fault(w) \/ Crash(w)
                          \/ Stop(w) \/ Start(w)
    \/ RecoverInterruptedJobs

Spec == Init /\ [][Next]_vars

\* The worker threads run, a stopped pool is started again, the reaper runs
\* every heartbeat interval, and a job left "running" by a worker that forgot
\* it sees its lease expire.  No one is obliged to ask for anything, and no
\* worker to fail.
Orphaned(j) == \A w \in Workers : worker[w].job # j
Fairness ==
    /\ \A w \in Workers : /\ WF_vars(WorkerStep(w))
                          /\ WF_vars(\E j \in Jobs : ClaimNextJob(w, j))
                          /\ WF_vars(Start(w))
    /\ \A j \in Jobs : WF_vars(LeaseExpires(j) /\ Orphaned(j))
    /\ WF_vars(RecoverInterruptedJobs)

FairSpec == Spec /\ Fairness

-----------------------------------------------------------------------------
(* Safety                                                                  *)

\* Rows, versions, ledger keys and claims keep their shape, no balance is
\* overdrawn, and attempts stay within the bound of the model.
TypeOK ==
    /\ job \in [Jobs -> JobRow]
    /\ result_versions \in [Jobs -> Seq(Version)]
    /\ provider_attempts \in [Jobs -> SUBSET ProviderAttempt]
    /\ ledger \in SUBSET LedgerKey
    /\ credit_balance \in [Users -> Nat]
    /\ worker \in [Workers -> Claim]
    /\ stopping \in [Workers -> BOOLEAN]
    /\ stops \in 0 .. MaxStops
    /\ spent \in SUBSET (Jobs \X Attempts)
    /\ calls \in [Jobs \X Attempts -> Nat]

Active(j) == job[j].status \in {"queued", "running"}
Reserved(j, a) == [kind |-> "reserve", job |-> j, attempt |-> a] \in ledger
Refunded(j, a) == [kind |-> "refund", job |-> j, attempt |-> a] \in ledger
Held(j, a) == Active(j) /\ job[j].attempt = a /\ RefundDue(j)

OneFate(j, a) ==
    /\ Reserved(j, a) <=> (Held(j, a) \/ Refunded(j, a)
                            \/ (<<j, a>> \in spent /\ j \notin FreeJobs))
    /\ Refunded(j, a) => <<j, a>> \notin spent
    /\ Held(j, a) => <<j, a>> \notin spent /\ ~Refunded(j, a)

\* The credit of a paid attempt has exactly one fate: it is held by the active
\* attempt, it was spent on the provider, or it was returned.  No interleaving
\* of cancelling, failing, recovering, reprocessing and deleting loses it,
\* returns it twice over, or returns it after the provider was dispatched.
CreditHasOneFate == \A j \in Jobs, a \in Attempts : OneFate(j, a)

\* The ledger always has room for every refund it may still have to record, so
\* no terminal transaction is refused by credit_ledger_capacity_reached.
RefundsFit ==
    \A u \in Users : Cardinality(Entries(u)) + Cardinality(Refundable(u)) <= MaxLedger

\* The provider is called at most once for an attempt that was paid for, and
\* only after the dispatch was committed, whatever leases expire and whoever
\* recovers or claims the job again.
ProviderCalledOnce ==
    \A j \in Jobs, a \in Attempts :
        /\ calls[<<j, a>>] <= 1
        /\ calls[<<j, a>>] = 1 => <<j, a>> \in spent

\* Exactly the running job whose dispatch was committed has an open provider
\* attempt, the one of its current execution: the terminal transactions that
\* abort without it ("Provider attempt changed during ...") never do.
OpenAttemptMatches ==
    \A j \in Jobs :
        /\ HasOpen(j) <=> job[j].status = "running" /\ job[j].provider_dispatched
        /\ \A p \in provider_attempts[j] : p.outcome = "dispatched" => Open(j, p)

\* An active job keeps the room for the version it may publish, reserved for
\* its current attempt: a paid answer is never dropped for lack of space.
ResultReserved ==
    \A j \in Jobs : Active(j) =>
        /\ Len(result_versions[j]) < MaxVersions
        /\ job[j].result_reservation_attempt = job[j].attempt

\* A job with a result is in review, approved, or being reprocessed; one
\* without a result never reads as reviewable.
StatusMatchesResult ==
    \A j \in Jobs :
        /\ job[j].status \in {"review", "approved"} => HasResult(j)
        /\ job[j].status \in {"failed", "cancelled", "absent", "deleted"} => ~HasResult(j)
        /\ job[j].approved => HasResult(j)
        /\ ~Active(j) => (job[j].approved <=> job[j].status = "approved")

\* The receipt of every version names an execution of this job that the
\* provider answered, and an attempt publishes at most one result.
ReceiptsAreGenuine ==
    \A j \in Jobs :
        /\ \A v \in DOMAIN result_versions[j] :
              \E p \in provider_attempts[j] :
                  /\ p.outcome = "succeeded"
                  /\ p.attempt = result_versions[j][v].attempt
                  /\ p.generation = result_versions[j][v].generation
        /\ \A p, q \in provider_attempts[j] : p.attempt = q.attempt => p = q

-----------------------------------------------------------------------------
(* What a step may never do                                                *)

\* A request to cancel that reached a running job binds the attempt: from then
\* on nothing is dispatched, nothing is published, the job does not end as
\* failed, and the request is dropped only when the attempt ends.
CancelBinds ==
    [][\A j \in Jobs : job[j].cancel_requested =>
          /\ job'[j].provider_dispatched => job[j].provider_dispatched
          /\ result_versions'[j] = result_versions[j]
          /\ job'[j].status # "failed"
          /\ job'[j].cancel_requested \/ job'[j].status \in Finished]_vars

\* An approval is of a particular result: it survives failed and cancelled
\* reprocessing unchanged, and only a new version (or deletion) withdraws it.
ApprovalFollowsResult ==
    [][\A j \in Jobs : job[j].approved =>
          \/ job'[j].approved /\ result_versions'[j] = result_versions[j]
          \/ ~job'[j].approved /\ Len(result_versions'[j]) = Len(result_versions[j]) + 1
          \/ job'[j].status = "deleted"]_vars

-----------------------------------------------------------------------------
(* Progress                                                                *)

\* Every queued or running attempt ends, whichever workers die or stop.
EveryAttemptEnds ==
    \A j \in Jobs : Active(j) ~> ~Active(j)

-----------------------------------------------------------------------------
(* Refinement: the credits of ExtractionJobs are those of CreditAccount.   *)

CreditFate(j, a) ==
    CASE j \in FreeJobs -> "none"
      [] j \notin FreeJobs /\ <<j, a>> \in spent -> "spent"
      [] j \notin FreeJobs /\ <<j, a>> \notin spent /\ Refunded(j, a) -> "returned"
      [] j \notin FreeJobs /\ <<j, a>> \notin spent /\ ~Refunded(j, a) ->
            IF Reserved(j, a) THEN "held" ELSE "none"

Account == INSTANCE CreditAccount
              WITH fate <- [j \in Jobs |-> [a \in Attempts |-> CreditFate(j, a)]],
                   balance <- credit_balance,
                   Deposits <- {}, Payee <- <<>>, Pack <- 0,   \* see AccountBook
                   deposited <- {}, open <- Users

\* Every step of the service takes, spends or gives back credits as
\* CreditAccount allows, or leaves them alone.
CreditsAreAccounted == Account!Spec
=============================================================================
