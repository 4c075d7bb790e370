# A TLA+ model of Unrender

Unrender turns an image of a chart into a reviewed table. A customer uploads a
file, buys an extraction with a credit, a worker sends the page to a model
provider, and the customer corrects, approves and exports the result. One
Python service (`unrender/product/`) over one SQLite database does this, from
web threads, worker threads and command-line tools that share the database file
and a directory of source files; a page of JavaScript (`static/app.js`) talks to
it. Beside the product, `modal_train.py` and the packages it calls train, evaluate
and serve the model behind the provider, in containers that share a volume.

The modules here model the parts of both where customers' money, files, access
and results are at stake, or where a long run may be lost, and where the order of
steps matters.

## 1. Inventory

`service.py` stands for `src/unrender/product/service.py` and so on.

| part | state it keeps | operations | hard behaviour | what makes it correct |
|---|---|---|---|---|
| Extraction jobs and workers (`service.py`, `worker.py`) | tables jobs, result_versions, provider_attempts; leases; the local state of each `process_one` | create, claim, progress, dispatch, publish, fail, cancel, reprocess, correct, restore, approve, delete; heartbeat, recovery, shutdown | several threads and processes; a worker that dies or outlives its lease; a cancellation between any two steps | one provider call for one paid attempt; every attempt ends; late answers change nothing; approvals belong to a result |
| Chart credits (`service.py`) | users.credit_balance, credit_ledger | reserve, refund, purchase, grant | settled by many transactions; a ledger at its limit | each credit is held, spent or returned, exactly once |
| Dispatch gate (`service.py`, `dispatch_budget.py`, `admin.py`) | dispatch_budget, retained provider_attempts | charge the day, open circuit, pause, resume | midnight, clock steps, deletion of rows that are counted | no day spends more than its allowance; a pause holds |
| Accounts (`service.py`, `google_accounts.py`, `google_oauth.py`, `security.py`, `lifecycle.py`) | users, account_challenges, sessions, api_keys, oauth_attempts, google_identities | register, invite, verify, reset, log in, confirm, connect Google, create and revoke keys, log out, delete | passwords hashed outside transactions; three-request Google round trips; links completed twice | what an old password opened ends with it; verification by the reader of the mail |
| Source files (`service.py`, `storage.py`, `lifecycle.py`) | the storage directory, uploads, jobs.source_path, storage_reservations, pending_deletions | reserve, stage, resize, publish, fail, delete, drain, expire, reconcile | files are not in the transaction; crashes anywhere; sweeps over stale snapshots | a row has its file; a file without a row goes; a deletion reported done is done |
| Idempotent submissions (`service.py`, `web.py`) | api_idempotency | look up, create with record, replay, erase, forget | lost answers, overlapping retries, late retries | one key, one job; replies are true |
| Review and export (`service.py`, `static/app.js`) | result_versions, revision tokens, what a tab shows | correct, approve, export | a stale tab edits or exports | an edit is of what was seen |
| Row and byte admission, audit roll-up (`service.py`) | counts over all tables | admit, insert, roll up | mandatory rows when the database is full | in-flight jobs can always end |
| Billing (`service.py`, `web.py`) | billing_events | apply an event | duplicated and reordered deliveries | one event, one pack |
| Rate limits, admission (`service.py`, `web.py`) | rate_limits, semaphores | count, admit, release | callers that disconnect | no slot is lost or returned twice |
| Database and migrations (`database.py`) | schema_meta, lock files | initialise, migrate, lock | processes starting together | each step once, or none |
| Backup and restore (`backup.py`, `scheduled_backup.py`) | archives, status file | snapshot, verify, prune, restore | live writes, interrupted publication | an archive holds every file its database names |
| Preview cache (`preview_cache.py`) | entries, bytes | get | rendering outside the lock | byte count is that of the entries |
| Browser client (`static/app.js`) | durable submission record, auth epoch | submit, recover, sign out | tabs, reloads, lost answers, account switches | a submission is not repeated or shown to another account |
| Library, HTTP layer, operator tools, mail, health | names, projects, headers | rename, group, route, print | little of their own | — |
| Model clients (`extractors.py`) | none between calls | one call | timeouts | an input of the job model |
| Serving (`modal_train.py`, `scripts/publish_modal_release.py`) | releases on a volume, the model a container has loaded | publish, copy, verify, load, answer | several containers and publishers; files that decay | an answer is of the release its receipt names |
| Training (`modal_train.py`, `train/`) | claim, recipe, checkpoints and receipts on a volume | claim, save, seal, commit, rotate, resume, export | killed between save and rotation; containers with an older copy of the volume | a sealed checkpoint and its best weights always exist; no work is silently undone |
| Evaluation (`modal_train.py`, `eval/`) | claim and run ledger on a volume | schedule, dispatch, complete, recover, compare | killed between dispatch and result; commits that fail | no sample is paid for twice; a comparison stands |
| Data generation (`data_gen/`) | datasets, receipts, reviews | generate, split, review, consume | datasets edited or made again between two reads | what is trained on is what was reviewed |
| Schema, analysis, scripts | files | one-shot | none | — |

The parts meet in the database. A web thread's transaction creates a job and
takes its credit (jobs, credits, submissions and files in one commit); a worker
claims the job, passes the gate in the transaction that marks it dispatched,
calls the provider outside any transaction, and ends the job in another one.
`BEGIN IMMEDIATE` and the shared side of the operations lock serialise writers,
so a transaction is one step; what happens between two transactions of one
request, and to the files, is what interleaves.

## 2. Modules

| module | models | composed with |
|---|---|---|
| `ExtractionJobs` | jobs, workers, leases, recovery, versions, credits | implements `CreditAccount` |
| `CreditAccount` | abstract: what is promised about credits, from their purchase to the closing of the account | implemented by `ExtractionJobs` and by `AccountBook` |
| `DispatchGate` | failure circuit, attempt cap, day's allowance, pause, clock | the guard that `RefuseDispatch` and `Dispatch` of `ExtractionJobs` leave open |
| `AccountBook` | row admission, audits and roll-ups, purchases, grants, beside jobs in flight | the same ledger as `ExtractionJobs`, with rows instead of workers; implements `CreditAccount` |
| `AccountAccess` | passwords, links, sessions, keys, Google | — |
| `SourceFiles` | staging, publication, deletion queue, sweep | jobs appear only as far as their files matter |
| `Submissions` | idempotency keys in the service | a job is named by the request that made it |
| `BrowserSubmission` | pages of one browser: accounts, the durable submission record | a repeated request is the same request, as `Submissions` shows |
| `Review` | revisions, tabs, approvals, exports | the worker's steps just happen (`ExtractionJobs`) |
| `Admission` | rate windows, slots for expensive work | — |
| `PreviewCache` | the preview cache of a process | — |
| `SchemaUpgrade` | migrations under two locks | — |
| `RecoveryCopies` | backup, archives, pruning, restore | publications and deletions of `SourceFiles`, as far as a lock separates them |
| `ModelRelease` | the weights that answer a production request | — |
| `EvalRun` | the ledger of an evaluation run | — |
| `TrainingRun` | a training run and its checkpoints | `SourceReview` checks its inputs |
| `SourceReview` | a dataset from generation to the training that reads it | — |
| `MCOperations` | eleven of the above in one instance, side by side | `Submissions`, `EvalRun`, `TrainingRun`, `SourceReview`, `ModelRelease`, `RecoveryCopies`, `SchemaUpgrade`, `Admission`, `PreviewCache`, `Review`, `BrowserSubmission` |
| `MC...` | instances for TLC | extend the module they name |
| `ExtractionJobsProofs`, `AccountBookProofs`, `SourceFilesProofs`, `AccountAccessProofs` | theorems and proofs | the module they name |
| `RequestProofs` | theorems and proofs | `Submissions`, `Admission`, `Review`, `BrowserSubmission`, `DispatchGate`, `PreviewCache` |
| `OperatorProofs` | theorems and proofs | `ModelRelease`, `EvalRun`, `SourceReview`, `TrainingRun`, `RecoveryCopies`, `SchemaUpgrade` |
| `OperationsProofs` | theorems and proofs, from `RequestProofs` and `OperatorProofs` | `MCOperations` |
| `FiniteSums` | lemmas and proofs | sums over finite sets and least numbers, for the modules above |

The header of each module says what it abstracts from; the notes below say how its
state and actions correspond to the code where that is not plain.

### 2.1 ExtractionJobs

One variable per table, one record per row, one action per transaction.
`process_one` is `ClaimNextJob`, then `CancelClaimed`, `ReleaseForShutdown`,
`Progress` (twice), `CancelReady` / `RefuseDispatch` / `Dispatch`,
`CallProvider`, `ProviderAnswers`, and `Publish`, `CancelAnswered` or
`FinishFailed`; `DropStaleClaim` is what any of them does when the claim check
(`_claim_row`) finds another execution, and `Fault` is any exception on the way,
all of which reach `_finish_failed_claim`. `Crash` forgets the thread and leaves
the row.

- A lease is "live" until time passes without a heartbeat. An expired lease
  cannot be revived: the heartbeat, like every other check, asks for a live one.
  A heartbeat that succeeds changes nothing else and has no action.
- The lease token is the pair of worker and generation: both are fresh with each
  claim, and the code compares all three together.
- Claims take the oldest queued row; `created` is the position of the row in
  creation order (the code orders by time, then id).
- A shutdown release keeps `cancel_requested` and `recovery_count`, as the code
  does. Reprocessing keeps an approval; publishing a new result clears it.
- Recovery settles all expired jobs in one transaction, so one that could not be
  settled would block them all; `OpenAttemptMatches` and `RefundsFit` say why it
  is never refused. `RefundsFit` is a theorem here (`RefundsAlwaysFit`); the runs
  check the same room, with everything else that writes the ledger, as a part of
  `TerminalRowsFit` of `AccountBook`.
- The key of a ledger row is its idempotency key: `job:<id>:reserve:<attempt>` and
  `job:<id>:refund:<attempt>`. Purchases and operator grants also write the
  ledger; they are in `AccountBook`, and `MaxLedger` here is what they leave of
  the limit for jobs.
- `spent` and `calls` are history: the dispatches that were committed and the
  calls that were made.

### 2.2 DispatchGate

`ProviderCircuitOpen`, `Rolled`, `Allowed` and `Charged` are
`_provider_circuit_open` and `reserve_dispatch`. The clock is a number of ticks
that may be set back. `_begin_provider_dispatch` charges the allowance before it
updates the job; when the lease ran out in between the charge stays (`LoseLease`),
which is why `admitted <= used` and not equality.

### 2.3 AccountAccess

A password is the person who knows it; a hash has a salt, so a second hash of the
same password differs. Each thread keeps what it read (`request`) between its
transactions; the actions `Start...` read, `Complete...`, `Create...`, `Rehash`,
`Confirm` and `Finish...` act. Two details that the properties respect:

- Registration signs the new customer in through a second transaction that does
  not name a password hash. An operator reset completed between the two leaves
  that one session valid, so `CredentialsFollowPassword` speaks of sessions whose
  evidence is a password.
- The Google callback gives its new session a nonce in a second transaction; the
  token has not been delivered before it, so both are one step.

Left out: sample accounts (they have no credentials to change), the records of
revoked keys (they only count against a cap of 100), the sliding expiry of
sessions (`Gone` removes a row at any time instead).

### 2.4 SourceFiles

A path is its directory and the request that named it. The transaction that
publishes holds `writer` over `Begin`, `Move`, `Copy`, `Rename`, `Commit`, so that
a crash may fall between any two of them; every other transaction is one step.
`GiveUp` is the exception handler, with the files it could not remove as its
parameter. `Drain` is one path of `drain_deletion_queue`, which looks up again
whether anything names the path. `SweepRead`, `SweepList` and `SweepQueue` are the
three steps of `reconcile_storage`.

Simplifications: one account; one deletion request and one sweep at a time; a
sweep is not interrupted; several unlinks of one handler are one step; a
reservation's hour and a file's grace period of five minutes pass independently,
which allows more than the code does. Between `Resize` to the path in `uploads/`
and the rename into it the staged file is not reserved, so an old one may be swept
and the publication then fails cleanly. A straggler whose reservation expired may
recreate its own unpublished path for a moment after a deletion was reported; it
removes it again. `DoneMeansGone` is therefore about published paths, and
`NothingLingers` about all of them.

### 2.5 Submissions

A request looks for its key (`LookUp`) before it stages its file and again in the
transaction that creates the job (`Transact`), which stores the record, the job
and the response together; hence no record is ever without its response while it
can be replayed, and the reply `request_in_progress` is not reachable. Time is per
key, which allows more than one clock would. The window is 720 hours, the
tombstone's horizon 365 days.

### 2.6 AccountBook

A book is what a limit is counted in: an account, or the service. `Rows` are the
rows there are, `Future` the rows that jobs in flight must still write
(`_future_terminal_rows`), and `Admits` is `_admit_database_rows` for an ordinary
row: it leaves a reserve and the future rows free. Mandatory rows (audits, results,
attempts, refunds) only need to fit. An audit above the cap first becomes, or adds
to, a roll-up row (`_audit`, `_aggregate_audit_rows`). `ApplyBillingEvent` is the
delivery that takes effect. A repeated one finds the row of its event, and one for
an account that has gone finds no user: they change nothing and have no action.
(`ApplyBillingEventAgain` is the mutant that looks neither up.) `GrantCredits` is
the operator's grant.

`CreditAccount` is implemented under the mapping `Account`: the fate of an attempt's
credit is read from its two ledger keys and from the row of its job (`CreditFate`:
without a reservation "none", with a refund "returned", of the current attempt before
its dispatch "held", otherwise "spent"), what was paid in are the ledger's entries of
purchases and grants, and the accounts that are open are `users`. `DeleteAccount` is
`Close`: jobs, ledger and balance go with the account, and a billing event that
arrives later enters nothing. `ExtractionJobs` has no deposits and closes no account;
it implements the part about attempts.

### 2.7 Review

A tab remembers the revision it shows; every request that changes or exports the
result carries it, and `Expected` is `_assert_review_revision`. The answer to a
correction is the revision its own transaction made (`Answered`), so that "save and
approve" approves what was saved and not what is there by then; an answer that is
lost leaves the tab with what it had. An export reads its revision and what it claims
in one transaction and is recorded in a second one, which needs the job but not the
revision. `seen` and `blind` are history: who has had the current version on the
screen, and what was done by someone who had not.

### 2.8 BrowserSubmission

`auth_record` and `submission` are the two records of localStorage, `cookie` is the
session as the server takes it. A page runs one flow, which is what it waits for: a
sign-in, the library, a digest, `POST /api/jobs`, or the chart. `current`, `epoch`
and `woken` say whether the record, the epoch and the wake-up that the code
compares still agree; they are kept as three Booleans since nothing depends on the
numbers. `Wiped` is `resetPrivateState`: requests are aborted, but a digest is not,
so a page may write its record after a sign-out; that, and two pages that hash at
once and overwrite each other's record, is in the model. `settled` is history: the
requests that a sign-out, another account, a 401 or another page's request has made
nobody's to recover.

### 2.9 Admission, PreviewCache

A request passes the guard (`GuardRequest`: the window, in the database), takes a
slot (`Take`), works, and gives it back when its work ends and not when its client
goes (`Disconnect`; `_run_admitted` shields the work). A registration holds a slot
of its group and, while it hashes, one for credentials. `PreviewCache` looks up and
stores under the lock and renders outside it; `FitsAfter` and `StoreAfter` are the
eviction loop.

### 2.10 SchemaUpgrade, RecoveryCopies

`SchemaUpgrade` runs the chain of `_migrate_v1_to_v2` to `_migrate_v14_to_v15` as a
script of statements, each a step, in one transaction; a process may die after any
of them and another one start. A database without a recorded version is inferred
(`InferLegacyVersion`). `RecoveryCopies` has publications under the shared lock, the
backup under the exclusive one, and the uploader, which may die between any two
steps and resume within the day.

### 2.11 EvalRun, TrainingRun, SourceReview, ModelRelease

Containers see their own copy of a volume, taken when they start and when they
reload. A commit carries their writes into it; the platform may have written them
earlier. `Modal` (claims that expire, snapshots, decay) is external and modelled from
how `modal_train.py` uses it. Files are known by what a digest of them would tell
apart: versions, recipes, releases.

`EvalRun`: `volume` and each call's copy hold the ledger's rows; a dispatch is
written and committed before the paid call, the outcome after it, and recovery turns
a dispatch without an outcome into `interrupted`, which is terminal. `TrainingRun`: a save is written,
sealed, committed, and then older ones go; `best` must survive with the save that
names it. `SourceReview`: a chain of digests from the manifest to the decisions,
checked by the call that trains. `require_source_review` is several reads with steps
of other processes between them: the split that is judged (`JudgeRows`), the packet
(`ReadPacket`), the decisions (`ReadReview`), and the split again for the digest on
the receipt, with which the three callers go on (`Preflight`, `CheckExpected`,
`CheckSources`). What is read later is compared with the receipt (`Recheck`,
`ReadImages`), and the receipt with nothing: `ConsumedWasReviewed` is about receipts
that name the rows their check has judged, and section 6 says what happens under
others. `ModelRelease`: a copy is made beside the final name, verified, renamed;
a container that has loaded a release skips the verification if the same objects
are still there.

## 3. Runs

All runs are exhaustive. Deadlock is not checked: each model stops when its bounds
on attempts, tokens or requests are used up, and a system without requests rests.

| run | asks | bounds | distinct states |
|---|---|---|---|
| `one_job` | credit, dispatch, lease, cancellation, approval and receipt properties of one job | 2 workers, 2 attempts, 1 recovery, 1 stop, 3 versions, a ledger of 3 | 102 554 |
| `two_jobs` | two jobs of one account and a small ledger: `CreditAccount` is implemented; every attempt ends | 1 worker, 2 paid jobs of one account, 1 attempt, 1 recovery, 1 stop, a ledger of 4 | 103 320 |
| `allowance` | the day's allowance and the pause | 2 jobs of 2 accounts, 2 days of 2 ticks, allowance 2, one clock step back | 1 078 864 |
| `failure_circuit` | a documented claim the code does not keep (section 6) | as above, one account | — |
| `account_access` | who may act for an account | 2 people, 2 accounts with one address, 2 threads, 3 tokens, 1 session, 1 key | 2 419 243 |
| `source_files` | files against rows, and the answer of a deletion | an API request and a job made from its upload | 560 054 |
| `source_files_live` | every unowned file goes | an upload and a job made from it | 47 134 |
| `account_book` | terminal rows fit; a purchase is granted once; `CreditAccount` is implemented with purchases, grants and deleted accounts | 2 accounts, 1 job with 2 attempts, 1 purchase, 1 grant, limits a few rows above what the job needs, 2 unadmitted audits | 111 576 |
| `stranded_refund` | a documented claim the code does not keep | 1 account, 1 job, 8 unadmitted audits against a reserve of 2 | — |
| `operations` | the properties of the eleven parts of `MCOperations` | below | 1 098 358 |
| `stale_resume` | a documented claim the code does not keep | 2 calls of one output name | — |
| `lost_request` | a documented claim the code does not keep | 1 page, 1 account, 1 request | — |

`MCOperations` chooses a part in its initial state and only that part moves, so one
run explores eleven separate instances, and its states are the sum of theirs:

| part | properties | bounds |
|---|---|---|
| `Submissions` | `OneJobPerKey`, `AnswersAreTrue` | 3 requests, 2 keys, 2 orders |
| `EvalRun` | `SamplesBoughtOnce`, `ComparisonStands` | 2 calls, 2 samples, 1 recipe, 1 changed image |
| `TrainingRun` | `SavesSurvive` | 3 calls one after the other, 3 steps, 2 saves kept, 2 recipes |
| `SourceReview` | `ConsumedWasReviewed` | 2 writers, 6 versions of files, the directory empty or with a dataset made before |
| `ModelRelease` | `AnswersMatchDigest` | 2 containers, one release of the hub, one published |
| `RecoveryCopies` | `VerifiedCopyKept` | 1 source, 2 archives kept, 4 intervals, crashes and damaged uploads |
| `SchemaUpgrade` | `UpgradeKeepsData` | 2 processes, 2 accounts, 2 keys, every earlier release |
| `Admission` | `SlotsMatchWork`, `WindowHolds` | 3 clients, slots 1, 1 and 2, limit 1, 3 windows |
| `PreviewCache` | `CountsWhatItHolds` | 3 threads, 4 charts of sizes 1, 2, 2 and 9, 4 bytes, 2 entries |
| `Review` | `NoEditIsLost`, `ApprovalsAreGenuine` | 2 tabs, 3 versions, 2 attempts |
| `BrowserSubmission` | `MadeIsRecovered` | 2 pages, 2 accounts, 2 requests of one of them |

`OpsTypeOK` is the type invariant of all of them.

Why these bounds are enough to be interesting. Two workers are the least with
which a stale claim and a new one meet; two attempts the least with which a refund
of the first could be mistaken for one of the second; one recovery gives the three
cases "requeued", "given up" and "given up after the limit". Two refunded attempts
of a job write 4 ledger rows and so do two jobs of one attempt, so ledgers of 3 and
4 make the limit bite or just not bite. Three tokens are what the shortest way to a
stale credential needs (a link, a session begun under the old password, a session
begun under the new one); one session and one key per account put both caps in
reach. With two accounts of one address the second can only follow the first, which
is the case of a deleted and reopened account; two accounts used side by side are
not explored. Three requests let one key be sent twice beside another. Two calls of
an evaluation are a killed one and the one that resumes it; three training calls
let a resumed one be killed again. Four intervals with two archives kept make
pruning happen while an unverified archive exists. Of four charts one is larger
than the cache, one needs two evictions. Two pages are the least with which one
erases or overwrites what the other needs.

`WorkerSymmetry` and the symmetry of `AccountAccess` permute values that no constant
or property distinguishes, and are used for safety only.

## 4. Fairness

`EveryAttemptEnds` assumes: a worker thread goes on with what it holds and claims
when it is idle (the loop of `worker.py`, lines 70 to 88); a stopped pool is
started again; the thread of slot 0 recovers jobs every heartbeat interval; a
provider call answers or times out; and the lease of a job whose worker has
forgotten it expires, since nobody renews it. A lease may expire at any time but
need not while its worker lives. No request of a customer is assumed, nor that a
worker never fails: crashes are possible at every step and are bounded by
`MaxRecovery`, as in the code.

`NothingLingers` assumes that requests end, that time passes, that the worker
repeats `cleanup_expired` (hourly), and that a file the disk refuses to remove is
removed at some later attempt.

Every other run is about safety and assumes no fairness.

## 5. Proofs

Checked by TLAPS for every value of the constants that satisfies the named
assumptions of the modules (`ConstantsAssumption`, `GateAssumption`,
`SubmissionsAssumption` and so on, which TLC evaluates on every run).

**ExtractionJobsProofs.** `TypeCorrect` is proved from `TypeInv`: `TypeOK` and
`RowsNumbered`, which says that a row that exists has an attempt number at least 1
and so can be refunded under a key of the ledger. `CreditSettlesOnce` needs, for
each job, `CreditOK`: one fate per attempt, and the facts that tie the row to the
history — a dispatched current attempt is in `spent`, one that is not is not,
attempts beyond the current one have no ledger keys and no dispatch. Without these
the property is not inductive: from the ledger alone one cannot see that a
reprocessed job's next key is unused. The proof has a lemma for what `Reserve` and
`Refund` add, one for each shape of row change, and a case per action.
`OneProviderCall` adds `CallInv`: a worker about to call holds a claim that no
other worker at that point holds, for an attempt that is spent and not yet called.

`RefundsAlwaysFit` and `CreditsImplementAccount` rest on a classification of every
step by what it does to credits: it reserves one, refunds some jobs at once,
dispatches one, or moves none. `RoomInv` adds to `RefundsFit` that the ledger is
finite, so that its rows can be counted: a reservation is only admitted when its
refund would still fit beside all refunds that are due, and a refund takes the place
that was kept for it. The refinement maps an attempt of a paid job to the fate of
its credit; each kind of step is one step of `CreditAccount` or changes no fate.
`CreditAccount` takes a credit only for an attempt whose predecessors are settled and
whose successors are untouched, so the proof of a reservation also shows that no
earlier attempt of the job still holds one.

What a job publishes depends on its own rows only, so the
invariant `JobsFit` is `Fits(r, V, A)` of each job's row, versions and provider
attempts: `AttemptsFit` (the open attempt is the row's), `VersionsFit` (there is room
for the result that is due, and the status says what the versions say) and
`Receipts`. There is one lemma about triples per shape of change, and the actions
cite it. `CancellationBinds` and `ApprovalsStay` are action properties: the same
lemmas show of every change of a triple that it is `Lawful`, which says what a request
to cancel and an approval bind.

**FiniteSums.** Rows, ledger entries and cached bytes are sums over finite sets:
these lemmas say what adding, removing and changing one element does to
`SumFunctionOnSet`. The library's induction over finite sets takes an operator and
cannot be used; a set in place of the predicate and a least counterexample by
cardinality, from well-founded induction over the numbers, take its place.

**AccountBookProofs.** `BookInv` has six parts. `RowsFit` says that whoever was
admitted last left the whole reserve free beside the rows that jobs in flight will
still write, and that whatever was written since without being counted (`unbudgeted`)
came out of that reserve; each step of a job frees in `Future` what it writes in
`Rows`. `LedgerFits` keeps the entry of every refund that is due. `Numbered` leaves
the keys of attempts to come unused, so that an entry is new when it is written.
`Purchases` and `Explained` say what the entries are worth; they speak of `Worth`,
which every possible key has, because `EntryDelta` changes its domain with the
ledger. `TerminalRowsAlwaysFit` (`TerminalRowsFit`) has the hypothesis that
`MaxUnbudgeted` is at most each reserve: rows no admission counts must fit in the
part of the limit the configuration sets aside for them, and without that
`stranded_refund` is the counterexample. `PurchasesAreGrantedOnce`
(`PurchaseGrantedOnce`) needs no hypothesis.

`BookImplementsAccount` (`CreditsAreBooked`) is the refinement of `CreditAccount`,
without a hypothesis. `BookInv` does not suffice for it: from keys and counts one
cannot see that an attempt which ended undispatched has its refund. `AllSettled` adds
that, with what goes with it: no refund is without its reservation, the current
attempt of a paid job has one, a job that has not ended still reserves, and every job
there is has an account. TLC checked it on the bounds of `account_book` with one row
more (208 630 states), and with its job made free (338 597 states). `HeldIsDue` then
says that the credits held are exactly the refunds that are due, and the steps are
sorted by what they do to credits: `StartTakes`, `DispatchSpends`, `SettleGivesBack`,
`CreditsPayIn` (purchases and grants) and `DeletionCloses` are one step of
`CreditAccount` each. All others change nothing it sees, which `Passes` says of one
row and `PassesAll` of all of them.

**SourceFilesProofs.** `FilesInv` ties each path to how far its request has come:
before the commit a path is at most a file that the request's own reservation or
tombstone covers, from the commit on it is named by exactly the rows the commit
wrote, and a path in the deletion queue is named by none. The facts about the sweep
say that what its snapshot saw unowned stays unowned, because a path is named by one
request and a request publishes once. `SourcesStay` (`SourcesExist`), `QueueIsSafe`
(`NothingOwnedIsQueued`) and `DeletionsAreDone` (`DoneMeansGone`) follow.

**AccountAccessProofs.** Requests act on what an earlier transaction read, so
`AccessInv` says of each request that what it read is still true as far as the rest of
the request relies on it, and that what has changed since is what its last
transaction compares. Its parts are `Shape`, `Sessions`, `Credentials`, `Requests`,
`Attempts` and `Links`. `PasswordGoverns` (`CredentialsFollowPassword`),
`RecoveryNeedsProof` (`NoStrayRecovery`), `LinksAreSingleUse` (`LinksWorkOnce`),
`VerificationIsProof` and `ConnectionsAreAsked` follow.

**RequestProofs** is about what a customer's request does to keys, windows, slots,
revisions, the browser's record, the day's allowance and the preview cache.

- `SubmissionsInv` has three parts: `Sent` (what a made job's request was), `Guarded`
  (a key whose last job is younger than the horizon still has its record) and
  `Stored` (a record names the request that made its job, under its own key and
  order). `OneJob` needs `Guarded`, `TrueAnswers` needs `Stored`.
- For slots, `AdmissionInv` has `SlotsMatchWork` and `SecondSlots`: only
  registrations, which are in the group "email", hold a slot for credentials as well,
  so no request is counted twice in one group. For windows it has `Counted`: a window
  that the clock may still show has kept its count, so that what housekeeping forgets
  can never be filled again.
- `ReviewInv` says of every tab (`Shown`) that it knows no version newer than the
  job's, and that if it shows the job's it has had it on the screen; and of the row
  and of a running export that says "approved" (`Approved`) that an approval of that
  version happened.
- `BrowserInvariant` gives `RequestsAreRecovered` (`MadeIsRecovered`): a request that
  the server has acted on and whose answer the customer has not seen is in the
  durable record, or the page that sent it is still waiting. The hypothesis is
  `BootMayFail = FALSE`, without which `lost_request` is the counterexample.
  `BrowserTypes`, the shape of the records, does not need it.
- Of the gate, `AllowanceInv` is `AllowanceHolds` with the shape of the row and
  `used <= DailyLimit`; the lemma `RolledRow` says what the roll at midnight keeps.
  `AllowanceKept`, `AllowanceOnlyShrinks` and `PauseStands` (`PauseHolds`) follow.
- Of the preview cache, `CountsWhatItHolds` with the types is inductive. What has to
  be shown is what the sequence of entries is as a set: that leaving out the
  expired, moving a hit to the end and dropping the oldest leave no chart twice.
  `Without` is a recursive function; what it returns is shown by a least
  counterexample among the prefixes, as in `FiniteSums`. `PreviewsAreCounted`
  (`CountsWhatItHolds`) follows.

**OperatorProofs** is about what the operators run: the model's data, training,
evaluation and release, and what outlives the service, its copies and its schema.

- Of a release, `BytesOf` says, step by step of a request, what it knows of the bytes
  it works on: a copy has the digest it was compared with, a directory about to be
  loaded was verified, memory holds what was loaded from one. The stored copy may
  decay at any other moment; a container that skips the verification answers from
  memory.
- Of an evaluation, `EvalInv` joins `VolumeInv` (a sample that was bought is recorded
  as dispatched or later in the volume; the rows that were compared are terminal and
  unchanged) with two facts about each call: `Copy`, that while it may write, its copy
  knows at least what the volume knows of paid and finished samples, and `Holds`, that
  it then has the claim. The second makes the first inductive: no other call can write
  in between.
- Of a dataset, `SourceInvariant` follows the chain of digests: what was `Drawn`, what
  each writer `Claims` about it, `RowsNumbered`, the `Stages` of a bundle, that what
  is called eligible and untouched was seen as it is (`EligibleIsApproved`), and what
  the call knows between any two of its reads of the rows it has judged, as long as
  they are there (`JudgedStands`): they cannot be made again, their decisions were an
  approval, and the rows it loads are these if the receipt names them.
  `OnlyReviewedIsConsumed` (`ConsumedWasReviewed`) follows, without a hypothesis.
- Of a training run, `SavesAreKept` (`SavesSurvive`) and `ResumesFromTheNewest` need
  that a call works `Alone`, that its copy `Carries` what was sealed and is `InStep`
  with the volume but for the saves it has touched, and for the second that it touches
  none before it trains (`Unwritten`). The hypothesis
  is `OneAtATime = TRUE`, without which `stale_resume` is the counterexample to the
  second. `TrainTypes` has no hypothesis: calls that overlap may lose work, but they
  leave records of the same shape.
- Of the copies, the invariant says who may be writing while the snapshot is taken
  (`Locked`), what an archive holds (`Packed`), that archives with one name are one
  archive (`KnownByTime`) and that pruning spares the newest verified one
  (`LastIsKept`). `ACopyIsAlwaysKept` (`VerifiedCopyKept`) follows. Pruning keeps the
  newest by their times; that a nonempty set of times has a least one is a lemma of
  `FiniteSums`.
- Of migrations, `SchemaInv` says that the transaction of the process that migrates
  needs only to go on: `Carried` is what the remaining statements make of its rows, and
  that is the database of the release it migrates to. A crash drops the transaction and
  with it all that was half done. `AnUpgradeKeepsTheData` (`UpgradeKeepsData`) follows.

**OperationsProofs** is about the parts side by side, as `operations` runs them.
`PartsAreIndependent` says that `OpsSpec` implements the specification of each of the
eleven modules: a step of one part leaves the variables of all others as they are, so
what a module's theorem says of it alone holds of it there. With it
`PartsKeepTheirTypes` (`OpsTypeOK`) collects the types, without a hypothesis, and
`PartsKeepTheirPromises` everything else the run checks, under `OneAtATime = TRUE` and
`BootMayFail = FALSE`. (What these lose when they fail is in the runs `stale_resume`
and `lost_request`.)

Each of these invariants was first checked by TLC on the bounds of its run (that of
`RecoveryCopies` also with 2 sources, 2 archives kept and 4 times: 6 305 332 states).

Only model-checked are `EveryAttemptEnds` and `NothingLingers`: liveness and anything
that needs ENABLED are out of the prover's reach, its backends do not reason about
fairness. Every invariant and every action property of the passing runs, and both
refinements of `CreditAccount`, are theorems as well.

## 6. Findings

`failure_circuit`: `docs/SECURITY_REVIEW.md:244` says that per-user failure
circuits stop later spend. The circuit counts rows of `provider_attempts` that are
still there, and they go with a deleted job, so an account that deletes its failed
extractions is not stopped. The day's allowance, which keeps its own count, still
holds (`AllowanceHolds`).

`stranded_refund`: `docs/SECURITY_REVIEW.md:277` says that normal capacity pressure
cannot strand money. Audits that no admission counted only need to fit; more of them
than the configured reserve, while a job is in flight, use the room of its refund.
`account_book` shows that up to the reserve everything fits.

`stale_resume`: `docs/TRAINING_REPRODUCIBILITY.md:38` says that training never
silently rolls back. A call does not reload the volume after it has claimed its
output name, so one whose container started before another call's save resumes from
older state. `SavesSurvive` holds when calls follow one another.

`lost_request`: `docs/ARCHITECTURE.md:33` says that an ambiguous retry reuses its
key until one outcome is confirmed. A page that starts while `GET /api/me` fails is
reset together with the durable record. With `BootMayFail` FALSE the record is kept
through lost answers, reloads and pages that act at once (`MadeIsRecovered`).

Met while modelling, and not runs of their own:

- `require_source_review` takes the digest on its receipt from a new read of the
  split (`review.py:190`) and does not compare it with the rows it judged (154). If a
  reviewed dataset is removed and a complete one, with its decisions pending, gets
  its name after `review.json` was read (161) and before that read, the receipt names
  rows nobody has reviewed. `load_records` accepts them because they verify, and the
  recheck of `sft_lora.py:232` compares their digest with itself. Without its
  condition, that the receipt names the rows that were judged, TLC refutes
  `ConsumedWasReviewed` by this very sequence, with one writer and 5 versions.
- Archives are pruned in the order of their names. If the wall clock is set back by
  a whole interval, the archive just verified sorts first, is pruned by its own run,
  and `backup-status.json` names an archive that is gone. The clock of
  `RecoveryCopies` only goes forward.
- A submission that the server refuses for good, or whose record another page has
  cleared, stays in `state.jobSubmission`; the page then refuses a different upload
  until it is reloaded or signed out.
- A page that computes a digest across a sign-out writes its record afterwards, for
  an account that is no longer signed in; the next account discards it.

## 7. Not modelled

- Byte quotas and disk space: counts of rows are in `AccountBook`, sizes nowhere.
- The library and its projects: single updates that no other part reads.
- HTTP routing, headers, templates, mail, metrics and health: the calls of the
  routes are the inputs of the modules.
- The browser beyond reviews, submissions and accounts: rendering, storage that
  fails, pages of the first release (`unrender.auth-change.v1`), a sign-out the
  server never confirms.
- The protocols of the model providers and the local model server: a call answers,
  fails or does not return.
- Gradients, losses, metrics, image generation: real arithmetic.
- The contents of charts, pages and messages, the chart schema, analysis and build
  scripts: no property here is about them.
- The platform under training, evaluation and serving: its volumes, claims and
  containers are modelled from how the code uses them.
- The deletion queue takes its oldest 200 rows: that 200 undeletable files would
  hide younger ones is listed as a hazard and not checked (it needs more than 200
  paths).

## 8. What could follow

Two accounts side by side in `AccountAccess`; a composition of `BrowserSubmission`
with `Submissions` in which a record is repeated after its tombstone has gone.
