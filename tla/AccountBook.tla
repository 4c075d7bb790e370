---------------------------- MODULE AccountBook ----------------------------
(***************************************************************************)
(* Rows and money of the accounts in unrender/product/service.py.  Every   *)
(* INSERT of the service passes _insert_row: ordinary rows are refused     *)
(* unless room is left for a mandatory reserve and for the rows that jobs  *)
(* in flight must still write; audits, results, provider attempts and      *)
(* refunds are mandatory and only need to fit.  Limits hold per account    *)
(* and for the whole service.  Purchases (apply_billing_event) and grants  *)
(* compete for the same ledger and the same rows as refunds.               *)
(*                                                                         *)
(* A "book" is an account or the service: what is counted against a limit. *)
(*                                                                         *)
(* Abstractions.  Rows of tables with no further role (sessions, uploads,  *)
(* keys, projects, replay records, queued deletions) are a count, other.   *)
(* Audits and roll-ups are counts too: an audit may first roll up rows     *)
(* past their retention or above a cap into roll-up rows, of which there   *)
(* is one per scope and event type.  Leases    *)
(* and fences are in ExtractionJobs; here an in-flight job may always be   *)
(* found expired.                                                          *)
(***************************************************************************)
EXTENDS Integers, FiniteSets, FiniteSetsExt

CONSTANTS
    Users,          \* accounts
    Jobs,           \* job identifiers
    Owner,          \* the account of each job
    FreeJobs,       \* jobs of the saved fixture: no credit
    Events,         \* payment events
    Buyer,          \* the account each event names
    Service,        \* the book of the whole database
    MaxRows,        \* max_database_rows_per_user and _global, per book
    Reserve,        \* mandatory_database_rows_per_user and _global, per book
    AuditCap,       \* settings.max_audit_events_per_user
    RollupKeys,     \* scopes times event types of one account
    MaxRecovery,    \* settings.max_recovery_attempts
    MaxLedger,      \* settings.max_credit_ledger_records_per_user
    MaxEvents,      \* settings.max_billing_events_global
    Grantees,       \* accounts an operator grants credits, once each
    Welcome,        \* initial credits of an account
    PackSize,       \* settings.credit_pack_size
    MaxAttempts,    \* bound of the model: attempts of one job
    MaxOther,       \* bound of the model: other rows of each account
    MaxVersions,    \* bound of the model: versions of one job
    MaxUnbudgeted   \* bound of the model: rows no admission counted

Books == Users \cup {Service}

ASSUME BookAssumption ==
    /\ IsFiniteSet(Users) /\ IsFiniteSet(Jobs) /\ Service \notin Users
    /\ Owner \in [Jobs -> Users] /\ FreeJobs \subseteq Jobs
    /\ Buyer \in [Events -> Users]
    /\ MaxRows \in [Books -> Nat] /\ Reserve \in [Books -> Nat]
    /\ \A b \in Books : 0 < Reserve[b] /\ Reserve[b] < MaxRows[b]
    /\ AuditCap \in Nat \ {0} /\ RollupKeys \in Nat \ {0}
    /\ MaxRecovery \in Nat /\ MaxLedger \in Nat /\ MaxEvents \in Nat
    /\ Welcome \in Nat /\ PackSize \in Nat \ {0}
    /\ MaxAttempts \in Nat \ {0} /\ MaxOther \in [Users -> Nat]
    /\ MaxVersions \in Nat /\ MaxUnbudgeted \in Nat

VARIABLES
    job,             \* table jobs with the rows that go with a job
    ledger,          \* keys of table credit_ledger
    credit_balance,  \* users.credit_balance
    other,           \* rows of an account in tables with no further role
    audits,          \* rows of audit_events, per account
    rollups,         \* rows of audit_rollups, per account
    users,           \* accounts that exist
    billing_events,  \* events that have been processed
    granted,         \* history: credits each event has granted
    unbudgeted       \* history: rows since the last admission that did
                     \* not come out of its allowance for jobs in flight

vars == <<job, ledger, credit_balance, other, audits, rollups, users,
          billing_events, granted, unbudgeted>>

JobRow == [status: {"absent", "queued", "running", "ended", "deleted"},
           attempt: 0 .. MaxAttempts, provider_dispatched: BOOLEAN,
           recovery_count: 0 .. MaxRecovery, reservation_active: BOOLEAN,
           cancel_requested: BOOLEAN, result_versions: Nat, provider_attempts: Nat]

NoRow(status) ==
    [status |-> status, attempt |-> 0, provider_dispatched |-> FALSE,
     recovery_count |-> 0, reservation_active |-> FALSE,
     cancel_requested |-> FALSE, result_versions |-> 0, provider_attempts |-> 0]

Init ==
    /\ job = [j \in Jobs |-> NoRow("absent")]
    /\ ledger = {}
    /\ credit_balance = [u \in Users |-> Welcome]
    /\ other = [u \in Users |-> 0]
    /\ audits = [u \in Users |-> 1]          \* account_created
    /\ rollups = [u \in Users |-> 0]
    /\ users = Users
    /\ billing_events = {}
    /\ granted = [e \in Events |-> 0]
    /\ unbudgeted = [b \in Books |-> 0]

-----------------------------------------------------------------------------
(* Counting rows.                                                          *)

BookUsers(b) == IF b = Service THEN Users ELSE {b}
BookJobs(b) == {j \in Jobs : Owner[j] \in BookUsers(b)}
EntryUser(k) ==
    CASE k[1] = "stripe" -> Buyer[k[2]] [] k[1] = "grant" -> k[2] [] OTHER -> Owner[k[2]]
Entries(u) == {k \in ledger : EntryUser(k) = u}

HasRow(j) == job[j].status \notin {"absent", "deleted"}
JobRows == [j \in Jobs |->
    IF HasRow(j) THEN 1 + job[j].result_versions + job[j].provider_attempts ELSE 0]
AccountRows == [u \in Users |->
    other[u] + audits[u] + rollups[u] + Cardinality(Entries(u))]

(* _database_row_count: users and billing events belong to no account.     *)
Rows(b) ==
    SumFunctionOnSet(JobRows, BookJobs(b)) + SumFunctionOnSet(AccountRows, BookUsers(b))
    + (IF b = Service THEN Cardinality(users) + Cardinality(billing_events) ELSE 0)

RemainingRecoveries(j) == MaxRecovery - job[j].recovery_count

(* _future_terminal_rows, for one job.                                     *)
FutureTerminalRows == [j \in Jobs |->
    CASE job[j].status = "queued" -> 5 + 2 * RemainingRecoveries(j)
      [] job[j].status = "running" /\ ~job[j].provider_dispatched ->
            4 + 2 * RemainingRecoveries(j)
      [] job[j].status = "running" /\ job[j].provider_dispatched -> 2
      [] OTHER -> 0]

Future(b) == SumFunctionOnSet(FutureTerminalRows, BookJobs(b))
NewJobFutureRows == 5 + 2 * MaxRecovery

BooksOf(u) == {u, Service}

(* _admit_database_rows, for rows that are not mandatory.                  *)
Admits(u, n, future) ==
    \A b \in BooksOf(u) : Rows(b) + n + Reserve[b] + Future(b) + future <= MaxRows[b]

(* _audit, n times for account u: above the cap the oldest row becomes, or *)
(* adds to, a roll-up row.                                                 *)
AuditOutcomes(u, n) ==
    LET gone == Max({0, audits[u] + n - AuditCap}) IN
    {[kept |-> audits[u] + n - gone, rolled |-> r] :
        r \in {k \in rollups[u] .. Min({RollupKeys, rollups[u] + gone}) : gone > 0 => k > 0}}

(* The mandatory rows of one transaction: m[u] rows and n[u] audits per    *)
(* account; every one of them must fit, or the transaction is undone.      *)
Grown(u, o) == o.kept + o.rolled - audits[u] - rollups[u]
WriteRows(m, n) ==
    LET touched == {u \in Users : m[u] + n[u] > 0}
        writing == {b \in Books : BookUsers(b) \cap touched # {}}
        room == [b \in writing |-> MaxRows[b] - Rows(b)]
    IN \E o \in [touched -> UNION {AuditOutcomes(u, n[u]) : u \in touched}] :
        /\ \A u \in touched : o[u] \in AuditOutcomes(u, n[u])
        /\ \A b \in writing :
            LET us == BookUsers(b) \cap touched
                rows == SumFunctionOnSet(m, us)
                grown == SumFunctionOnSet([u \in us |-> Grown(u, o[u])], us)
            IN rows <= room[b] /\ rows + grown <= room[b]
        /\ audits' = [u \in Users |-> IF u \in touched THEN o[u].kept ELSE audits[u]]
        /\ rollups' = [u \in Users |-> IF u \in touched THEN o[u].rolled ELSE rollups[u]]

Only(u, n) == [x \in Users |-> IF x = u THEN n ELSE 0]

(* Rows that no admission counted, and the admissions that start afresh.   *)
Spare(u, n) ==
    /\ \A b \in BooksOf(u) : unbudgeted[b] + n <= MaxUnbudgeted
    /\ unbudgeted' = [b \in Books |-> IF b \in BooksOf(u) THEN unbudgeted[b] + n ELSE unbudgeted[b]]
Admitted(u, n) ==
    unbudgeted' = [b \in Books |-> IF b \in BooksOf(u) THEN n ELSE unbudgeted[b]]

-----------------------------------------------------------------------------
(* Credits.                                                                *)

Cost(j) == IF j \in FreeJobs THEN 0 ELSE 1
RefundDue(j) == job[j].reservation_active /\ ~job[j].provider_dispatched
Refundable(u) == {j \in Jobs : Owner[j] = u /\ RefundDue(j)}

(* A reservation comes after the row of its job, which owes a refund too.  *)
LedgerRoom(u, delta) ==
    LET owed == Cardinality(Refundable(u)) + (IF delta < 0 THEN 1 ELSE 0) IN
    Cardinality(Entries(u)) + 1 + owed <= MaxLedger

(* _change_credits, not mandatory: a key that is there changes nothing.    *)
ChangeCredits(u, key, delta) ==
    IF key \in ledger
    THEN UNCHANGED <<ledger, credit_balance>>
    ELSE /\ LedgerRoom(u, delta) /\ Admits(u, 1, 0)
         /\ credit_balance[u] + delta >= 0
         /\ credit_balance' = [credit_balance EXCEPT ![u] = @ + delta]
         /\ ledger' = ledger \cup {key}

(* Mandatory refunds of the jobs S, in the transaction that ends them.     *)
RefundFits(u, S) ==
    S = {} \/ Cardinality(Entries(u)) + Cardinality(S) <= MaxLedger
Refund(S) ==
    /\ \A u \in Users : RefundFits(u, {j \in S : Owner[j] = u})
    /\ ledger' = ledger \cup {<<"refund", j, job[j].attempt>> : j \in S}
    /\ credit_balance' = [u \in Users |-> credit_balance[u]
                                + Cardinality({j \in S : Owner[j] = u})]

Elsewhere == UNCHANGED <<users, billing_events, granted>>

-----------------------------------------------------------------------------
(* Jobs.                                                                   *)

Queued(j, a) ==
    [job[j] EXCEPT !.status = "queued", !.attempt = a, !.provider_dispatched = FALSE,
                   !.recovery_count = 0, !.reservation_active = Cost(j) = 1,
                   !.cancel_requested = FALSE]

(* create_job: a replay record, the job, its reservation and an audit.     *)
Create(j) ==
    LET u == Owner[j] IN
    /\ u \in users /\ job[j].status = "absent" /\ other[u] < MaxOther[u]
    /\ Admits(u, 2, NewJobFutureRows + 1 + Cost(j))
    /\ job' = [job EXCEPT ![j] = Queued(j, 1)]
    /\ other' = [other EXCEPT ![u] = @ + 1]
    /\ IF Cost(j) = 1 THEN ChangeCredits(u, <<"reserve", j, 1>>, -1)
       ELSE UNCHANGED <<ledger, credit_balance>>
    /\ WriteRows(Only(u, 2 + Cost(j)), Only(u, 1))
    /\ Admitted(u, 0)
    /\ Elsewhere

(* reprocess: the rows of the new attempt are admitted with the old ones.  *)
ReprocessUnadmitted(j) ==
    LET u == Owner[j] a == job[j].attempt + 1 IN
    /\ job[j].status = "ended" /\ a <= MaxAttempts
    /\ job' = [job EXCEPT ![j] = Queued(j, a)]
    /\ IF Cost(j) = 1 THEN ChangeCredits(u, <<"reserve", j, a>>, -1)
       ELSE UNCHANGED <<ledger, credit_balance>>
    /\ WriteRows(Only(u, Cost(j)), Only(u, 1))
    /\ Admitted(u, 0)
    /\ UNCHANGED other /\ Elsewhere
Reprocess(j) ==
    LET u == Owner[j] a == job[j].attempt + 1 IN
    /\ job[j].status = "ended" /\ a <= MaxAttempts
    /\ Admits(u, 1 + Cost(j), NewJobFutureRows)
    /\ job' = [job EXCEPT ![j] = Queued(j, a)]
    /\ IF Cost(j) = 1 THEN ChangeCredits(u, <<"reserve", j, a>>, -1)
       ELSE UNCHANGED <<ledger, credit_balance>>
    /\ WriteRows(Only(u, Cost(j)), Only(u, 1))
    /\ Admitted(u, 0)
    /\ UNCHANGED other /\ Elsewhere

(* A transaction of a job that writes one audit and no other row.          *)
Audited(j, row) ==
    /\ job' = [job EXCEPT ![j] = row]
    /\ WriteRows(Only(Owner[j], 0), Only(Owner[j], 1))
    /\ UNCHANGED <<ledger, credit_balance, other>> /\ Elsewhere

ClaimNextJob(j) ==
    /\ job[j].status = "queued"
    /\ Audited(j, [job[j] EXCEPT !.status = "running"])
    /\ UNCHANGED unbudgeted

(* _release_claim_for_shutdown: a second claim will write its audit again. *)
ReleaseForShutdown(j) ==
    /\ job[j].status = "running" /\ ~job[j].provider_dispatched
    /\ Audited(j, [job[j] EXCEPT !.status = "queued"])
    /\ Spare(Owner[j], 2)

(* _begin_provider_dispatch: the provider attempt and its audit.           *)
Dispatch(j) ==
    /\ job[j].status = "running" /\ ~job[j].provider_dispatched /\ ~job[j].cancel_requested
    /\ job' = [job EXCEPT ![j].provider_dispatched = TRUE, ![j].provider_attempts = @ + 1]
    /\ WriteRows(Only(Owner[j], 1), Only(Owner[j], 1))
    /\ UNCHANGED <<ledger, credit_balance, other, unbudgeted>> /\ Elsewhere

(* process_one: the answer becomes a version.                              *)
Publish(j) ==
    /\ job[j].status = "running" /\ job[j].provider_dispatched /\ ~job[j].cancel_requested
    /\ job' = [job EXCEPT ![j].status = "ended", ![j].reservation_active = FALSE,
                          ![j].result_versions = @ + 1]
    /\ WriteRows(Only(Owner[j], 1), Only(Owner[j], 1))
    /\ UNCHANGED <<ledger, credit_balance, other, unbudgeted>> /\ Elsewhere

Ended(j) == [job[j] EXCEPT !.status = "ended", !.reservation_active = FALSE,
                           !.cancel_requested = FALSE]

RefundRows(S) == [u \in Users |-> Cardinality({j \in S : Owner[j] = u /\ RefundDue(j)})]
AuditRows(S) == [u \in Users |-> Cardinality({j \in S : Owner[j] = u})]

(* The jobs of give_up end, those of again are queued, in one transaction. *)
Settle(give_up, again) ==
    /\ job' = [j \in Jobs |->
                 CASE j \in give_up -> Ended(j)
                   [] j \in again -> [job[j] EXCEPT !.status = "queued", !.recovery_count = @ + 1]
                   [] OTHER -> job[j]]
    /\ Refund({j \in give_up : RefundDue(j)})
    /\ WriteRows(RefundRows(give_up), AuditRows(give_up \cup again))
    /\ UNCHANGED <<other, unbudgeted>> /\ Elsewhere

(* _finish_failed_claim and _finish_cancelled_claim of a live claim.       *)
FinishClaim(j) == job[j].status = "running" /\ Settle({j}, {})

(* Mutant: a job cancelled in the queue ends without its refund.           *)
CancelQueuedUnpaid(j) ==
    job[j].status = "queued" /\ Audited(j, Ended(j)) /\ UNCHANGED unbudgeted
CancelQueued(j) == job[j].status = "queued" /\ Settle({j}, {})

CancelRunning(j) ==
    /\ job[j].status = "running"
    /\ Audited(j, [job[j] EXCEPT !.cancel_requested = TRUE])
    /\ Spare(Owner[j], 1)

(* recover_interrupted_jobs: all expired leases in one transaction.        *)
Requeues(j) ==
    ~job[j].cancel_requested /\ ~job[j].provider_dispatched /\ job[j].recovery_count < MaxRecovery
RecoverInterruptedJobs ==
    \E expired \in SUBSET {j \in Jobs : job[j].status = "running"} \ {{}} :
        Settle({j \in expired : ~Requeues(j)}, {j \in expired : Requeues(j)})

(* save_correction, restore_version: an ordinary version, then an audit.   *)
StoreCorrection(j) ==
    LET u == Owner[j] IN
    /\ job[j].status = "ended" /\ job[j].result_versions \in 1 .. (MaxVersions - 1)
    /\ Admits(u, 1, 0)
    /\ job' = [job EXCEPT ![j].result_versions = @ + 1]
    /\ WriteRows(Only(u, 1), Only(u, 1))
    /\ Admitted(u, 1)
    /\ UNCHANGED <<ledger, credit_balance, other>> /\ Elsewhere

(* delete_job: an audit without a job, a queued deletion, and the job with *)
(* its versions, attempts, audits and roll-ups.                            *)
DeleteJob(j) ==
    LET u == Owner[j] IN
    /\ job[j].status = "ended" /\ other[u] < MaxOther[u]
    /\ \E o \in AuditOutcomes(u, 1) :
        /\ \A b \in BooksOf(u) : Rows(b) + Grown(u, o) + 1 <= MaxRows[b]
        /\ \E kept \in 1 .. o.kept, rolled \in 0 .. o.rolled :
            /\ audits' = [audits EXCEPT ![u] = kept]
            /\ rollups' = [rollups EXCEPT ![u] = rolled]
    /\ job' = [job EXCEPT ![j] = NoRow("deleted")]
    /\ other' = [other EXCEPT ![u] = @ + 1]
    /\ Spare(u, 1)
    /\ UNCHANGED <<ledger, credit_balance>> /\ Elsewhere

-----------------------------------------------------------------------------
(* Rows of the rest of the account.                                        *)

(* A session, upload, key, project or challenge; some write an audit.      *)
InsertOther(u, audited) ==
    /\ u \in users /\ other[u] < MaxOther[u]
    /\ Admits(u, 1, 0)
    /\ other' = [other EXCEPT ![u] = @ + 1]
    /\ WriteRows(Only(u, 1), Only(u, audited))
    /\ Admitted(u, audited)
    /\ UNCHANGED <<job, ledger, credit_balance>> /\ Elsewhere

(* Sign-out, expiry, drained deletions.                                    *)
RemoveOther(u) ==
    /\ other[u] > 0
    /\ other' = [other EXCEPT ![u] = @ - 1]
    /\ UNCHANGED <<job, ledger, credit_balance, audits, rollups, unbudgeted>> /\ Elsewhere

(* Export, approval, renaming, sign-out, revocation: an audit and no row.  *)
AuditOnly(u) ==
    /\ u \in users
    /\ WriteRows(Only(u, 0), Only(u, 1))
    /\ Spare(u, 1)
    /\ UNCHANGED <<job, ledger, credit_balance, other>> /\ Elsewhere

(* Rows past their retention, or above the cap of one job, are rolled up   *)
(* when the next audit is written or by cleanup_expired.                   *)
RollUp(u) ==
    \E gone \in 1 .. audits[u], rolled \in Max({1, rollups[u]}) .. RollupKeys :
        /\ rolled - rollups[u] <= gone
        /\ audits' = [audits EXCEPT ![u] = @ - gone]
        /\ rollups' = [rollups EXCEPT ![u] = rolled]
        /\ UNCHANGED <<job, ledger, credit_balance, other, unbudgeted>> /\ Elsewhere

(* delete_account: refused while a job runs; queued ones are refunded.     *)
DeleteAccount(u) ==
    /\ u \in users
    /\ \A j \in Jobs : Owner[j] = u => job[j].status # "running"
    /\ users' = users \ {u}
    /\ job' = [j \in Jobs |-> IF Owner[j] = u THEN NoRow("deleted") ELSE job[j]]
    /\ ledger' = ledger \ Entries(u)
    /\ credit_balance' = [credit_balance EXCEPT ![u] = 0]
    /\ other' = [other EXCEPT ![u] = 0]
    /\ audits' = [audits EXCEPT ![u] = 0]
    /\ rollups' = [rollups EXCEPT ![u] = 0]
    /\ UNCHANGED <<billing_events, granted, unbudgeted>>

-----------------------------------------------------------------------------
(* Money from outside.                                                     *)

(* Mutant: neither the event row nor the ledger key is looked up.          *)
ApplyBillingEventAgain(e) ==
    LET u == Buyer[e] IN
    /\ u \in users /\ granted[e] <= PackSize
    /\ credit_balance' = [credit_balance EXCEPT ![u] = @ + PackSize]
    /\ granted' = [granted EXCEPT ![e] = @ + PackSize]
    /\ billing_events' = billing_events \cup {e}
    /\ ledger' = ledger \cup {<<"stripe", e>>}
    /\ UNCHANGED <<job, other, users, audits, rollups, unbudgeted>>

(* apply_billing_event: event row, credits and audit, or nothing.  A late  *)
(* or doubled delivery of a processed event changes nothing.               *)
ApplyBillingEvent(e) ==
    LET u == Buyer[e] IN
    /\ e \notin billing_events /\ Cardinality(billing_events) < MaxEvents
    /\ u \in users
    /\ Rows(Service) + 2 + Reserve[Service] + Future(Service) <= MaxRows[Service]
    /\ billing_events' = billing_events \cup {e}
    /\ ChangeCredits(u, <<"stripe", e>>, PackSize)
    /\ granted' = [granted EXCEPT ![e] = @ + credit_balance'[u] - credit_balance[u]]
    /\ WriteRows(Only(u, 1), Only(u, 1))
    /\ Admitted(u, 1)
    /\ UNCHANGED <<job, other, users>>

(* grant_credits: an operator repeats a reference safely; no audit.        *)
GrantCredits(u) ==
    /\ u \in users /\ u \in Grantees
    /\ ChangeCredits(u, <<"grant", u>>, PackSize)
    /\ IF <<"grant", u>> \in ledger THEN UNCHANGED unbudgeted ELSE Admitted(u, 0)
    /\ UNCHANGED <<job, other, users, audits, rollups, billing_events, granted>>

-----------------------------------------------------------------------------
JobStep(j) ==
    \/ Create(j) \/ Reprocess(j) \/ CancelQueued(j) \/ CancelRunning(j)
    \/ StoreCorrection(j) \/ DeleteJob(j)
    \/ ClaimNextJob(j) \/ ReleaseForShutdown(j) \/ Dispatch(j) \/ Publish(j) \/ FinishClaim(j)

AccountStep(u) ==
    \/ \E audited \in {0, 1} : InsertOther(u, audited)
    \/ RemoveOther(u) \/ AuditOnly(u) \/ RollUp(u)
    \/ DeleteAccount(u) \/ GrantCredits(u)

Next ==
    \/ \E j \in Jobs : JobStep(j)
    \/ \E u \in Users : AccountStep(u)
    \/ \E e \in Events : ApplyBillingEvent(e)
    \/ RecoverInterruptedJobs

Spec == Init /\ [][Next]_vars

-----------------------------------------------------------------------------
(* Properties.                                                             *)

(* Whatever jobs are in flight, the rows they must still write fit their   *)
(* account and the database, and the ledger has room for every refund they *)
(* may be owed: _admit_database_rows and _change_credits keep that room    *)
(* against uploads, corrections, purchases and grants, as long as no more  *)
(* audits than the reserve come between two admissions.                    *)
TerminalRowsFit ==
    /\ \A b \in Books : Future(b) > 0 => Rows(b) + Future(b) <= MaxRows[b]
    /\ \A u \in Users : Cardinality(Entries(u)) + Cardinality(Refundable(u)) <= MaxLedger

(* What the ledger says of the balance: welcome credits, purchases and     *)
(* grants, less the reservations that were not refunded.                   *)
EntryDelta == [k \in ledger |->
    CASE k[1] \in {"stripe", "grant"} -> PackSize [] k[1] = "reserve" -> -1 [] OTHER -> 1]
LedgerExplainsBalance ==
    \A u \in users : credit_balance[u] = Welcome + SumFunctionOnSet(EntryDelta, Entries(u))

(* A payment event is granted once and in full, or not at all, and nothing *)
(* else moves a balance but what the ledger records: deliveries that are   *)
(* doubled, or late, or refused for capacity and sent again, and accounts  *)
(* deleted in between, change nothing of that.                             *)
PurchaseGrantedOnce ==
    /\ \A e \in Events : granted[e] = IF e \in billing_events THEN PackSize ELSE 0
    /\ LedgerExplainsBalance

-----------------------------------------------------------------------------
(* Refinement: the credits of the ledger are those of CreditAccount.       *)

Attempts == 1 .. MaxAttempts
LedgerDeposits == ({"stripe"} \X Events) \cup ({"grant"} \X Users)

CreditFate(j, a) ==
    IF <<"reserve", j, a>> \notin ledger THEN "none"
    ELSE IF <<"refund", j, a>> \in ledger THEN "returned"
    ELSE IF job[j].attempt = a /\ ~job[j].provider_dispatched THEN "held"
    ELSE "spent"

Account == INSTANCE CreditAccount
              WITH fate <- [j \in Jobs |-> [a \in Attempts |-> CreditFate(j, a)]],
                   balance <- credit_balance,
                   InitialCredits <- [u \in Users |-> Welcome],
                   Deposits <- LedgerDeposits,
                   Payee <- [d \in LedgerDeposits |-> EntryUser(d)],
                   Pack <- PackSize,
                   deposited <- ledger \cap LedgerDeposits, open <- users

(* Whatever runs out, fails or is delivered twice, every step takes,       *)
(* spends, gives back or pays in credits as CreditAccount allows, or       *)
(* leaves them alone: an attempt that is given up has its credit back      *)
(* before the job can be tried again, and no reservation, refund or        *)
(* purchase is entered for an account that was deleted.                    *)
CreditsAreBooked == Account!Spec

(* What docs/SECURITY_REVIEW.md says of row admission: it preserves the    *)
(* rows of every refund, so that capacity pressure cannot strand money.    *)
RefundIsNeverStranded ==
    \A j \in Jobs : RefundDue(j) => \A b \in BooksOf(Owner[j]) : Rows(b) + 1 <= MaxRows[b]
=============================================================================
