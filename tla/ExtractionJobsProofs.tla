------------------------ MODULE ExtractionJobsProofs ------------------------
(***************************************************************************)
(* Theorems about ExtractionJobs, for any number of accounts, jobs and     *)
(* workers and any value of the limits.                                    *)
(***************************************************************************)
EXTENDS ExtractionJobs, FiniteSetTheorems, TLAPS

-----------------------------------------------------------------------------
(* Type correctness                                                        *)

\* A row that was ever created, and not deleted, counts its attempts from 1,
\* and only an active job holds a reservation.
RowsNumbered ==
    \A j \in Jobs : /\ job[j].status \notin {"absent", "deleted"} => job[j].attempt >= 1
                    /\ job[j].reservation_active => Active(j)

TypeInv == TypeOK /\ RowsNumbered

\* What End does to a row.
LEMMA EndRow ==
    ASSUME NEW row \in JobRow, NEW status \in Finished
    PROVE  /\ End(row, status) \in JobRow
           /\ End(row, status).status = status
           /\ End(row, status).attempt = row.attempt
           /\ End(row, status).reservation_active = FALSE
           /\ End(row, status).provider_dispatched = row.provider_dispatched
<1>1. status \in Status
  BY DEF Status
<1>2. 0 \in 0 .. MaxAttempts
  BY ConstantsAssumption DEF ConstantsAssumption
<1>3. End(row, status) \in JobRow
  BY <1>1, <1>2 DEF End, JobRow
<1> QED
  BY <1>3 DEF End, JobRow

\* A job that ends keeps its earlier result or takes the given final status.
LEMMA PreservedIsFinished ==
    ASSUME NEW j, NEW otherwise \in Finished
    PROVE  Preserved(j, otherwise) \in Finished
  BY DEF Preserved, Finished

\* Returning credits keeps the ledger and the balances well formed.
LEMMA RefundType ==
    ASSUME TypeInv, NEW S \in SUBSET Jobs, Refund(S),
           \A j \in S : job[j].attempt >= 1
    PROVE  /\ ledger' \in SUBSET LedgerKey
           /\ credit_balance' \in [Users -> Nat]
<1> DEFINE key == [j \in S |->
                     [kind |-> "refund", job |-> j, attempt |-> job[j].attempt]]
           due == {[kind |-> "refund", job |-> j, attempt |-> job[j].attempt] : j \in S}
           new(u) == {e \in due \ ledger : Owner[e.job] = u}
<1>1. \A j \in S : job[j].attempt \in Attempts
  BY ConstantsAssumption DEF TypeInv, TypeOK, JobRow, Attempts, ConstantsAssumption
<1>2. due \in SUBSET LedgerKey
  BY <1>1 DEF LedgerKey
<1>3. IsFiniteSet(due)
  <2>1. IsFiniteSet(S)
    BY FS_Subset, ConstantsAssumption DEF ConstantsAssumption
  <2>2. key \in Surjection(S, due)
    BY DEF Surjection
  <2> QED BY <2>1, <2>2, FS_Surjection
<1> DEFINE returned(u) == Cardinality(new(u))
<1>4. \A u \in Users : returned(u) \in Nat
  <2> TAKE u \in Users
  <2>1. new(u) \in SUBSET due
    OBVIOUS
  <2> QED BY <1>3, <2>1, FS_Subset, FS_CardinalityType
<1>5. credit_balance' = [u \in Users |-> credit_balance[u] + returned(u)]
  BY DEF Refund
<1>6. ledger' = ledger \cup due
  BY DEF Refund
<1> HIDE DEF returned
<1>7. credit_balance' \in [Users -> Nat]
  BY <1>4, <1>5 DEF TypeInv, TypeOK
<1> QED
  BY <1>2, <1>6, <1>7 DEF TypeInv, TypeOK

LEMMA ReserveType ==
    ASSUME TypeInv, NEW j \in Jobs, NEW a \in Attempts, Reserve(j, a)
    PROVE  /\ ledger' \in SUBSET LedgerKey
           /\ credit_balance' \in [Users -> Nat]
<1>1. [kind |-> "reserve", job |-> j, attempt |-> a] \in LedgerKey
  BY DEF LedgerKey
<1>2. Owner[j] \in Users
  BY ConstantsAssumption DEF ConstantsAssumption
<1>3. CASE Cost(j) = 0
  BY <1>3 DEF Reserve, creditVars, TypeInv, TypeOK
<1>4. CASE Cost(j) # 0
  <2>1. /\ credit_balance[Owner[j]] >= 1
        /\ credit_balance' = [credit_balance EXCEPT ![Owner[j]] = @ - 1]
        /\ ledger' = ledger \cup {[kind |-> "reserve", job |-> j, attempt |-> a]}
    BY <1>4 DEF Reserve
  <2> QED BY <1>1, <1>2, <2>1 DEF TypeInv, TypeOK
<1> QED BY <1>3, <1>4

\* One row changes to a well-formed one: the table stays well formed.
LEMMA RowChange ==
    ASSUME TypeInv, NEW j \in Jobs, NEW row \in JobRow,
           job' = [job EXCEPT ![j] = row],
           row.status \notin {"absent", "deleted"} => row.attempt >= 1,
           row.reservation_active => row.status \in {"queued", "running"}
    PROVE  job' \in [Jobs -> JobRow] /\ RowsNumbered'
  BY DEF TypeInv, TypeOK, RowsNumbered, Active

\* Closing provider attempts only changes their outcome.
LEMMA ClosedType ==
    ASSUME TypeInv, NEW j \in Jobs, NEW outcome \in {"succeeded", "failed", "cancelled"}
    PROVE  Closed(j, outcome) \in SUBSET ProviderAttempt
<1>1. provider_attempts[j] \in SUBSET ProviderAttempt
  BY DEF TypeInv, TypeOK
<1>2. \A p \in ProviderAttempt : [p EXCEPT !.outcome = outcome] \in ProviderAttempt
  BY DEF ProviderAttempt
<1> QED BY <1>1, <1>2 DEF Closed

LEMMA EndJobType ==
    ASSUME TypeInv, NEW j \in Jobs, NEW status \in {"failed", "cancelled"},
           job[j].status = "running", EndJob(j, status)
    PROVE  /\ job' \in [Jobs -> JobRow]
           /\ RowsNumbered'
           /\ provider_attempts' \in [Jobs -> SUBSET ProviderAttempt]
           /\ ledger' \in SUBSET LedgerKey
           /\ credit_balance' \in [Users -> Nat]
<1> DEFINE final == Preserved(j, status)
           S == IF RefundDue(j) THEN {j} ELSE {}
<1>1. final \in Finished
  BY PreservedIsFinished DEF Finished
<1>2. job[j] \in JobRow /\ job[j].attempt >= 1
  BY DEF TypeInv, TypeOK, RowsNumbered
<1>3. job' \in [Jobs -> JobRow] /\ RowsNumbered'
  <2>1. job' = [job EXCEPT ![j] = End(job[j], final)]
    BY DEF EndJob
  <2> QED BY <1>1, <1>2, <2>1, EndRow, RowChange
<1>4. Closed(j, status) \in SUBSET ProviderAttempt
  BY ClosedType
<1>5. provider_attempts' \in [Jobs -> SUBSET ProviderAttempt]
  BY <1>4 DEF EndJob, TypeInv, TypeOK
<1>6. S \in SUBSET Jobs /\ Refund(S) /\ \A i \in S : job[i].attempt >= 1
  BY <1>2 DEF EndJob
<1> QED BY <1>3, <1>5, <1>6, RefundType

LEMMA CountUp ==
    ASSUME NEW D, NEW f \in [D -> Nat], NEW p
    PROVE  [f EXCEPT ![p] = f[p] + 1] \in [D -> Nat]
<1>1. CASE p \in D
  BY <1>1
<1>2. CASE p \notin D
  BY <1>2
<1> QED BY <1>1, <1>2

\* The local states a worker can move to.
LEMMA WorkerType ==
    ASSUME TypeInv, NEW w \in Workers
    PROVE  /\ Return(w) => worker' \in [Workers -> Claim]
           /\ \A pc \in {"reading", "ready", "dispatched", "calling",
                         "publishing", "failing"} :
                 GoTo(w, pc) => worker' \in [Workers -> Claim]
<1>1. Idle \in Claim
  BY ConstantsAssumption DEF Idle, Claim, ConstantsAssumption
<1>2. \A pc \in {"reading", "ready", "dispatched", "calling", "publishing", "failing"} :
          [worker[w] EXCEPT !.pc = pc] \in Claim
  BY DEF Claim, TypeInv, TypeOK
<1> QED BY <1>1, <1>2 DEF Return, GoTo, TypeInv, TypeOK

\* The steps of a customer keep the types.
LEMMA RequestType ==
    ASSUME TypeInv, NEW j \in Jobs, Request(j)
    PROVE  TypeInv'
<1> USE ConstantsAssumption DEF ConstantsAssumption
<1>0. /\ job[j] \in JobRow
      /\ job[j].status \notin {"absent", "deleted"} => job[j].attempt >= 1
      /\ job[j].reservation_active => Active(j)
  BY DEF TypeInv, TypeOK, RowsNumbered
<1>1. CASE Create(j)
  <2> DEFINE n == Cardinality({i \in Jobs : job[i].status # "absent"})
             row == [NoRow("queued") EXCEPT
                        !.created = n, !.attempt = 1,
                        !.reservation_active = (Cost(j) = 1),
                        !.result_reservation_attempt = 1]
  <2>1. n \in Nat
    BY FS_Subset, FS_CardinalityType
  <2> HIDE DEF n
  <2>2. row \in JobRow
    <3>1. /\ 1 \in 0 .. MaxAttempts /\ 0 \in 0 .. MaxAttempts /\ 0 \in 0 .. MaxRecovery
          /\ (Cost(j) = 1) \in BOOLEAN
      OBVIOUS
    <3>2. NoRow("queued") \in JobRow
      BY <3>1 DEF NoRow, JobRow, Status
    <3> QED BY <2>1, <3>1, <3>2 DEF JobRow
  <2>3. job' = [job EXCEPT ![j] = row]
    BY <1>1 DEF Create, n
  <2>4. row.status = "queued" /\ row.attempt = 1
    BY DEF NoRow
  <2> HIDE DEF row
  <2>5. job' \in [Jobs -> JobRow] /\ RowsNumbered'
    <3>1. row.attempt >= 1 /\ row.status \in {"queued", "running"}
      BY <2>4
    <3> QED BY <2>2, <2>3, <3>1, RowChange
  <2>6. /\ ledger' \in SUBSET LedgerKey
        /\ credit_balance' \in [Users -> Nat]
    <3>1. 1 \in Attempts /\ Reserve(j, 1)
      BY <1>1 DEF Create, Attempts
    <3> QED BY <3>1, ReserveType
  <2> QED
    BY <1>1, <2>5, <2>6 DEF Create, TypeInv, TypeOK, workVars, historyVars
<1>2. CASE Reprocess(j)
  <2> DEFINE a == job[j].attempt + 1
             row == [job[j] EXCEPT
                        !.status = "queued", !.attempt = a, !.recovery_count = 0,
                        !.cancel_requested = FALSE,
                        !.reservation_active = (Cost(j) = 1),
                        !.provider_dispatched = FALSE, !.worker_owner = NoWorker,
                        !.lease = "none", !.result_reservation_attempt = a]
  <2>1. a \in Attempts
    BY <1>0, <1>2 DEF Reprocess, Attempts, JobRow
  <2>2. a \in 0 .. MaxAttempts /\ 0 \in 0 .. MaxRecovery
    BY <2>1 DEF Attempts
  <2> HIDE DEF a
  <2>3. row \in JobRow
    BY <1>0, <2>2 DEF JobRow, Status
  <2>4. job' = [job EXCEPT ![j] = row]
    BY <1>2 DEF Reprocess, a
  <2>5. row.status = "queued" /\ row.attempt = a
    BY <1>0 DEF JobRow
  <2> HIDE DEF row
  <2>6. job' \in [Jobs -> JobRow] /\ RowsNumbered'
    <3>1. a >= 1
      BY <2>1 DEF Attempts
    <3> QED BY <2>3, <2>4, <2>5, <3>1, RowChange
  <2>7. /\ ledger' \in SUBSET LedgerKey
        /\ credit_balance' \in [Users -> Nat]
    <3>1. Reserve(j, a)
      BY <1>2 DEF Reprocess, a
    <3> QED BY <2>1, <3>1, ReserveType
  <2> QED
    BY <1>2, <2>6, <2>7 DEF Reprocess, TypeInv, TypeOK, workVars, historyVars
<1>3. CASE CancelQueued(j)
  <2> DEFINE final == Preserved(j, "cancelled")
             S == IF job[j].reservation_active THEN {j} ELSE {}
  <2>1. job' = [job EXCEPT ![j] = End(job[j], final)] /\ final \in Finished
    BY <1>3, PreservedIsFinished DEF CancelQueued, Finished
  <2>2. job' \in [Jobs -> JobRow] /\ RowsNumbered'
    <3>1. job[j].attempt >= 1
      BY <1>0, <1>3 DEF CancelQueued
    <3> QED BY <1>0, <2>1, <3>1, EndRow, RowChange
  <2>3. S \in SUBSET Jobs /\ Refund(S) /\ \A i \in S : job[i].attempt >= 1
    BY <1>0, <1>3 DEF CancelQueued
  <2>4. /\ ledger' \in SUBSET LedgerKey
        /\ credit_balance' \in [Users -> Nat]
    BY <2>3, RefundType
  <2> QED
    BY <1>3, <2>2, <2>4 DEF CancelQueued, TypeInv, TypeOK, workVars, historyVars
<1>4. CASE CancelRunning(j)
  <2> DEFINE row == [job[j] EXCEPT !.cancel_requested = TRUE]
  <2>1. row \in JobRow /\ row.status = job[j].status /\ row.attempt = job[j].attempt
        /\ row.reservation_active = job[j].reservation_active
    BY <1>0 DEF JobRow
  <2>2. job' = [job EXCEPT ![j] = row]
    BY <1>4 DEF CancelRunning
  <2>3. job' \in [Jobs -> JobRow] /\ RowsNumbered'
    BY <1>0, <2>1, <2>2, RowChange DEF Active
  <2> QED
    BY <1>4, <2>3 DEF CancelRunning, TypeInv, TypeOK, workVars, historyVars, creditVars
<1>5. ASSUME NEW v \in DOMAIN result_versions[j], StoreCorrection(j, v)
      PROVE  TypeInv'
  <2> DEFINE row == [job[j] EXCEPT !.status = "review", !.approved = FALSE]
             version == [result_versions[j][v] EXCEPT !.source = "correction"]
  <2>1. row \in JobRow /\ row.status = "review" /\ row.attempt = job[j].attempt
        /\ row.reservation_active = job[j].reservation_active
    BY <1>0 DEF JobRow, Status, Finished
  <2>2. job' = [job EXCEPT ![j] = row]
    BY <1>5 DEF StoreCorrection
  <2>3. ~row.reservation_active /\ row.attempt >= 1
    BY <1>0, <1>5, <2>1 DEF StoreCorrection, Active
  <2>4. job' \in [Jobs -> JobRow] /\ RowsNumbered'
    BY <1>0, <2>1, <2>2, <2>3, RowChange
  <2>5. version \in Version
    <3>1. result_versions[j] \in Seq(Version)
      BY DEF TypeInv, TypeOK
    <3>2. result_versions[j][v] \in Version
      BY <3>1
    <3> QED BY <3>2 DEF Version
  <2>6. result_versions' \in [Jobs -> Seq(Version)]
    <3>1. result_versions' = [result_versions EXCEPT
              ![j] = Append(result_versions[j], version)]
      BY <1>5 DEF StoreCorrection
    <3> HIDE DEF version
    <3>2. Append(result_versions[j], version) \in Seq(Version)
      BY <2>5 DEF TypeInv, TypeOK
    <3> QED BY <3>1, <3>2 DEF TypeInv, TypeOK
  <2> QED
    BY <1>5, <2>4, <2>6 DEF StoreCorrection, TypeInv, TypeOK, workVars, historyVars, creditVars
<1>6. CASE Approve(j)
  <2> DEFINE row == [job[j] EXCEPT !.status = "approved", !.approved = TRUE]
  <2>1. row \in JobRow /\ row.status = "approved" /\ row.attempt = job[j].attempt
        /\ row.reservation_active = job[j].reservation_active
    BY <1>0 DEF JobRow, Status, Finished
  <2>2. job' = [job EXCEPT ![j] = row]
    BY <1>6 DEF Approve
  <2>3. ~row.reservation_active /\ row.attempt >= 1
    BY <1>0, <1>6, <2>1 DEF Approve, Active
  <2>4. job' \in [Jobs -> JobRow] /\ RowsNumbered'
    BY <1>0, <2>1, <2>2, <2>3, RowChange
  <2> QED
    BY <1>6, <2>4 DEF Approve, TypeInv, TypeOK, workVars, historyVars, creditVars
<1>7. CASE Delete(j)
  <2> DEFINE row == NoRow("deleted")
  <2>1. row \in JobRow /\ row.status = "deleted" /\ ~row.reservation_active
    BY DEF NoRow, JobRow, Status
  <2>2. job' = [job EXCEPT ![j] = row]
    BY <1>7 DEF Delete
  <2>3. job' \in [Jobs -> JobRow] /\ RowsNumbered'
    BY <2>1, <2>2, RowChange
  <2> QED
    BY <1>7, <2>3 DEF Delete, TypeInv, TypeOK, workVars, historyVars, creditVars
<1> QED
  BY <1>1, <1>2, <1>3, <1>4, <1>5, <1>6, <1>7 DEF Request

\* A claim that still holds is of a running job, in its current attempt.
LEMMA HoldsRunning ==
    ASSUME TypeInv, NEW w \in Workers, Holds(w)
    PROVE  /\ worker[w].job \in Jobs
           /\ job[worker[w].job] \in JobRow
           /\ job[worker[w].job].status = "running"
           /\ worker[w].attempt = job[worker[w].job].attempt
           /\ worker[w].attempt \in Attempts
           /\ worker[w].generation \in Nat
<1>1. worker[w] \in Claim
  BY DEF TypeInv, TypeOK
<1>2. worker[w].job \in Jobs /\ worker[w].generation \in Nat
  BY <1>1 DEF Claim, Holds
<1>3. /\ job[worker[w].job] \in JobRow
      /\ job[worker[w].job].status = "running"
      /\ worker[w].attempt = job[worker[w].job].attempt
  BY <1>2 DEF Holds, TypeInv, TypeOK
<1>4. worker[w].attempt \in Attempts
  <2>1. job[worker[w].job].attempt >= 1
    BY <1>2, <1>3 DEF TypeInv, RowsNumbered
  <2> QED
    BY <1>3, <2>1, ConstantsAssumption DEF JobRow, Attempts, ConstantsAssumption
<1> QED BY <1>2, <1>3, <1>4

\* A worker step that only moves the worker.
LEMMA LocalStepType ==
    ASSUME TypeInv, worker' \in [Workers -> Claim], SameTables, SameStops,
           UNCHANGED spent, calls' \in [Jobs \X Attempts -> Nat]
    PROVE  TypeInv'
  BY DEF TypeInv, TypeOK, RowsNumbered, Active, SameTables, SameStops, creditVars

\* A worker step that ends the job.
LEMMA EndStepType ==
    ASSUME TypeInv, NEW w \in Workers, NEW status \in {"failed", "cancelled"},
           Holds(w), EndJob(worker[w].job, status), Return(w), SameStops
    PROVE  TypeInv'
<1>1. /\ job' \in [Jobs -> JobRow]
      /\ RowsNumbered'
      /\ provider_attempts' \in [Jobs -> SUBSET ProviderAttempt]
      /\ ledger' \in SUBSET LedgerKey
      /\ credit_balance' \in [Users -> Nat]
  BY HoldsRunning, EndJobType
<1>2. worker' \in [Workers -> Claim]
  BY WorkerType
<1>3. UNCHANGED <<result_versions, spent, calls, stopping, stops>>
  BY DEF EndJob, historyVars, SameStops
<1> QED BY <1>1, <1>2, <1>3 DEF TypeInv, TypeOK

\* The steps of a worker keep the types.
LEMMA WorkerStepType ==
    ASSUME TypeInv, NEW w \in Workers, WorkerStep(w)
    PROVE  TypeInv'
<1> USE ConstantsAssumption DEF ConstantsAssumption
<1> DEFINE c == worker[w]
           j == c.job
<1>1. CASE CancelClaimed(w)
  BY <1>1, EndStepType DEF CancelClaimed
<1>2. CASE ReleaseForShutdown(w)
  <2> DEFINE row == [job[j] EXCEPT !.status = "queued", !.worker_owner = NoWorker,
                                   !.lease = "none"]
  <2>1. Holds(w) /\ job' = [job EXCEPT ![j] = row]
    BY <1>2 DEF ReleaseForShutdown
  <2>2. j \in Jobs /\ job[j] \in JobRow /\ job[j].attempt \in Attempts
    BY <2>1, HoldsRunning
  <2>3. row \in JobRow /\ row.status = "queued" /\ row.attempt >= 1
    <3>1. job[j].attempt >= 1
      BY <2>2 DEF Attempts
    <3> HIDE DEF j
    <3> QED BY <2>2, <3>1 DEF JobRow, Status
  <2> HIDE DEF row
  <2>4. job' \in [Jobs -> JobRow] /\ RowsNumbered'
    <3> HIDE DEF j
    <3> QED BY <2>1, <2>2, <2>3, RowChange
  <2>5. worker' \in [Workers -> Claim]
    BY <1>2, WorkerType DEF ReleaseForShutdown
  <2> QED
    BY <1>2, <2>4, <2>5
    DEF ReleaseForShutdown, TypeInv, TypeOK, SameStops, historyVars, creditVars
<1>3. CASE Progress(w)
  <2>1. worker' \in [Workers -> Claim]
    BY <1>3, WorkerType DEF Progress
  <2> QED
    BY <1>3, <2>1, LocalStepType DEF Progress, historyVars, TypeInv, TypeOK
<1>4. CASE CancelReady(w)
  BY <1>4, EndStepType DEF CancelReady
<1>5. CASE RefuseDispatch(w)
  BY <1>5, EndStepType DEF RefuseDispatch, StillWanted
<1>6. CASE Dispatch(w)
  <2> DEFINE row == [job[j] EXCEPT !.provider_dispatched = TRUE]
             p == [attempt |-> c.attempt, generation |-> c.generation,
                   outcome |-> "dispatched"]
  <2>1. /\ Holds(w)
        /\ job' = [job EXCEPT ![j] = row]
        /\ provider_attempts' = [provider_attempts EXCEPT ![j] = @ \cup {p}]
        /\ spent' = spent \cup {<<j, c.attempt>>}
    BY <1>6 DEF Dispatch, StillWanted
  <2>2. /\ j \in Jobs /\ job[j] \in JobRow /\ job[j].status = "running"
        /\ c.attempt = job[j].attempt /\ c.attempt \in Attempts /\ c.generation \in Nat
    BY <2>1, HoldsRunning
  <2>3. row \in JobRow /\ row.status = "running" /\ row.attempt >= 1
    <3>1. job[j].attempt >= 1
      BY <2>2 DEF Attempts
    <3> HIDE DEF j, c
    <3> QED BY <2>2, <3>1 DEF JobRow
  <2>4. p \in ProviderAttempt
    BY <2>2 DEF ProviderAttempt
  <2>5. spent' \in SUBSET (Jobs \X Attempts)
    BY <2>1, <2>2 DEF TypeInv, TypeOK
  <2>6. worker' \in [Workers -> Claim]
    BY <1>6, WorkerType DEF Dispatch
  <2> HIDE DEF row, p, j
  <2>7. provider_attempts' \in [Jobs -> SUBSET ProviderAttempt]
    BY <2>1, <2>4 DEF TypeInv, TypeOK
  <2>8. job' \in [Jobs -> JobRow] /\ RowsNumbered'
    BY <2>1, <2>2, <2>3, RowChange
  <2> QED
    BY <1>6, <2>5, <2>6, <2>7, <2>8
    DEF Dispatch, TypeInv, TypeOK, SameStops, creditVars
<1>7. CASE CallProvider(w)
  <2>1. worker' \in [Workers -> Claim]
    BY <1>7, WorkerType DEF CallProvider
  <2>2. calls' \in [Jobs \X Attempts -> Nat]
    <3> DEFINE p == <<c.job, c.attempt>>
    <3>1. calls \in [Jobs \X Attempts -> Nat]
      BY DEF TypeInv, TypeOK
    <3>2. calls' = [calls EXCEPT ![p] = calls[p] + 1]
      BY <1>7 DEF CallProvider
    <3> HIDE DEF p
    <3> QED BY <3>1, <3>2, CountUp
  <2> QED
    BY <1>7, <2>1, <2>2, LocalStepType DEF CallProvider
<1>8. CASE ProviderAnswers(w)
  <2>1. worker' \in [Workers -> Claim]
    BY <1>8, WorkerType DEF ProviderAnswers
  <2> QED
    BY <1>8, <2>1, LocalStepType DEF ProviderAnswers, historyVars, TypeInv, TypeOK
<1>9. CASE CancelAnswered(w)
  BY <1>9, EndStepType DEF CancelAnswered
<1>10. CASE Publish(w)
  <2> DEFINE version == [source |-> IF HasResult(j) THEN "reprocess" ELSE "extraction",
                         attempt |-> c.attempt, generation |-> c.generation]
             done == End(job[j], "review")
             row == [done EXCEPT !.approved = FALSE]
  <2>1. /\ Holds(w)
        /\ job' = [job EXCEPT ![j] = row]
        /\ result_versions' = [result_versions EXCEPT
               ![j] = Append(result_versions[j], version)]
        /\ provider_attempts' =
              [provider_attempts EXCEPT ![j] = Closed(j, "succeeded")]
    BY <1>10 DEF Publish, StillWanted
  <2>2. /\ j \in Jobs /\ job[j] \in JobRow
        /\ job[j].attempt = c.attempt /\ c.attempt \in Attempts /\ c.generation \in Nat
    BY <2>1, HoldsRunning
  <2>3. done \in JobRow /\ done.status = "review" /\ done.attempt = c.attempt
        /\ done.reservation_active = FALSE
    BY <2>2, EndRow DEF Finished
  <2>4. version \in Version
    BY <2>2 DEF Version
  <2>5. Closed(j, "succeeded") \in SUBSET ProviderAttempt
    BY <2>2, ClosedType
  <2>6. worker' \in [Workers -> Claim]
    BY <1>10, WorkerType DEF Publish
  <2>7. c.attempt >= 1
    BY <2>2 DEF Attempts
  <2> HIDE DEF done, version, j
  <2>8. row \in JobRow /\ row.attempt >= 1 /\ ~row.reservation_active
    BY <2>3, <2>7 DEF JobRow
  <2> HIDE DEF row
  <2>9. job' \in [Jobs -> JobRow] /\ RowsNumbered'
    BY <2>1, <2>2, <2>8, RowChange
  <2>10. result_versions' \in [Jobs -> Seq(Version)]
    <3>1. Append(result_versions[j], version) \in Seq(Version)
      BY <2>2, <2>4 DEF TypeInv, TypeOK
    <3> QED BY <2>1, <3>1 DEF TypeInv, TypeOK
  <2>11. provider_attempts' \in [Jobs -> SUBSET ProviderAttempt]
    BY <2>1, <2>5 DEF TypeInv, TypeOK
  <2> QED
    BY <1>10, <2>6, <2>9, <2>10, <2>11
    DEF Publish, TypeInv, TypeOK, SameStops, creditVars, historyVars
<1>11. CASE FinishFailed(w)
  BY <1>11, EndStepType DEF FinishFailed
<1>12. CASE DropStaleClaim(w)
  <2>1. worker' \in [Workers -> Claim]
    BY <1>12, WorkerType DEF DropStaleClaim
  <2> QED
    BY <1>12, <2>1, LocalStepType DEF DropStaleClaim, historyVars, TypeInv, TypeOK
<1> QED
  BY <1>1, <1>2, <1>3, <1>4, <1>5, <1>6, <1>7, <1>8, <1>9, <1>10, <1>11, <1>12
  DEF WorkerStep

\* The recovery transaction keeps the types, however many jobs it ends.
LEMMA RecoveryType ==
    ASSUME TypeInv, RecoverInterruptedJobs
    PROVE  TypeInv'
<1> USE ConstantsAssumption DEF ConstantsAssumption
<1>1. ASSUME NEW j \in Jobs
      PROVE  /\ job'[j] \in JobRow
             /\ job'[j].status \notin {"absent", "deleted"} => job'[j].attempt >= 1
             /\ job'[j].reservation_active => job'[j].status \in {"queued", "running"}
  <2>0. job'[j] = Recovered(j)
    BY DEF RecoverInterruptedJobs
  <2>1. /\ job[j] \in JobRow
        /\ job[j].status \notin {"absent", "deleted"} => job[j].attempt >= 1
        /\ job[j].reservation_active => Active(j)
    BY DEF TypeInv, TypeOK, RowsNumbered
  <2>2. CASE Requeued(j)
    <3> DEFINE row == [job[j] EXCEPT !.status = "queued", !.recovery_count = @ + 1,
                                     !.worker_owner = NoWorker, !.lease = "none"]
    <3>1. job'[j] = row
      BY <2>0, <2>2 DEF Recovered
    <3>2. job[j].recovery_count + 1 \in 0 .. MaxRecovery
      BY <2>1, <2>2 DEF Requeued, JobRow
    <3>3. job[j].attempt >= 1
      BY <2>1, <2>2 DEF Requeued, Expired
    <3>4. row \in JobRow /\ row.status = "queued" /\ row.attempt = job[j].attempt
      BY <2>1, <3>2 DEF JobRow, Status
    <3> HIDE DEF row
    <3>5. /\ job'[j] \in JobRow /\ job'[j].status = "queued"
          /\ job'[j].attempt >= 1
      BY <3>1, <3>3, <3>4
    <3> QED BY <3>5
  <2>3. CASE GivenUp(j)
    <3> DEFINE final == Preserved(j, Reason(j))
    <3>1. job'[j] = End(job[j], final)
      BY <2>0, <2>3 DEF Recovered, GivenUp
    <3>2. final \in Finished
      BY PreservedIsFinished DEF Reason, Finished
    <3>3. job[j].attempt >= 1
      BY <2>1, <2>3 DEF GivenUp, Expired
    <3> HIDE DEF final
    <3>4. /\ job'[j] \in JobRow /\ job'[j].attempt = job[j].attempt
          /\ job'[j].reservation_active = FALSE
      <4>1. job[j] \in JobRow
        BY <2>1
      <4>2. /\ End(job[j], final) \in JobRow
            /\ End(job[j], final).attempt = job[j].attempt
            /\ End(job[j], final).reservation_active = FALSE
        BY <3>2, <4>1, EndRow
      <4> QED BY <3>1, <4>2
    <3> QED BY <3>3, <3>4
  <2>4. CASE ~Requeued(j) /\ ~GivenUp(j)
    <3>1. job'[j] = job[j]
      BY <2>0, <2>4 DEF Recovered
    <3> QED BY <2>1, <3>1 DEF Active
  <2> QED BY <2>2, <2>3, <2>4
<1>2. job' \in [Jobs -> JobRow]
  <2>1. job' = [j \in Jobs |-> Recovered(j)]
    BY DEF RecoverInterruptedJobs
  <2>2. \A j \in Jobs : Recovered(j) \in JobRow
    BY <1>1, <2>1
  <2> QED BY <2>1, <2>2
<1>3. RowsNumbered'
  BY <1>1 DEF RowsNumbered, Active
<1>4. provider_attempts' \in [Jobs -> SUBSET ProviderAttempt]
  <2>1. ASSUME NEW j \in Jobs
        PROVE  Closed(j, Reason(j)) \in SUBSET ProviderAttempt
    BY ClosedType DEF Reason
  <2> QED BY <2>1 DEF RecoverInterruptedJobs, TypeInv, TypeOK
<1>5. ledger' \in SUBSET LedgerKey /\ credit_balance' \in [Users -> Nat]
  <2> DEFINE S == {j \in Jobs : GivenUp(j) /\ RefundDue(j)}
  <2>1. S \in SUBSET Jobs /\ Refund(S)
    BY DEF RecoverInterruptedJobs
  <2>2. \A j \in S : job[j].attempt >= 1
    BY DEF RefundDue, TypeInv, RowsNumbered, Active
  <2> HIDE DEF S
  <2> QED BY <2>1, <2>2, RefundType
<1> QED
  BY <1>2, <1>3, <1>4, <1>5
  DEF RecoverInterruptedJobs, TypeInv, TypeOK, workVars, historyVars

LEMMA TypeStep == TypeInv /\ [Next]_vars => TypeInv'
<1> SUFFICES ASSUME TypeInv, [Next]_vars PROVE TypeInv'
  OBVIOUS
<1> USE ConstantsAssumption DEF ConstantsAssumption
<1>1. ASSUME NEW j \in Jobs, Request(j) PROVE TypeInv'
  BY <1>1, RequestType
<1>2. ASSUME NEW j \in Jobs, LeaseExpires(j) PROVE TypeInv'
  <2> DEFINE row == [job[j] EXCEPT !.lease = "expired"]
  <2>1. /\ job[j] \in JobRow /\ job[j].attempt >= 1
        /\ job' = [job EXCEPT ![j] = row]
        /\ job[j].status = "running"
    BY <1>2 DEF LeaseExpires, TypeInv, TypeOK, RowsNumbered
  <2>2. row \in JobRow /\ row.attempt >= 1 /\ row.status = "running"
    BY <2>1 DEF JobRow
  <2> HIDE DEF row
  <2>3. job' \in [Jobs -> JobRow] /\ RowsNumbered'
    BY <2>1, <2>2, RowChange
  <2> QED
    BY <1>2, <2>3
    DEF LeaseExpires, TypeInv, TypeOK, creditVars, workVars, historyVars
<1>3. ASSUME NEW w \in Workers, NEW j \in Jobs, ClaimNextJob(w, j) PROVE TypeInv'
  <2> DEFINE g == job[j].lease_generation + 1
             row == [job[j] EXCEPT !.status = "running", !.worker_owner = w,
                                   !.lease_generation = g, !.lease = "live"]
             claim == [pc |-> "claimed", job |-> j, attempt |-> job[j].attempt,
                       generation |-> g, saw_cancel |-> job[j].cancel_requested]
  <2>1. /\ job[j] \in JobRow /\ job[j].attempt >= 1
        /\ job' = [job EXCEPT ![j] = row]
        /\ worker' = [worker EXCEPT ![w] = claim]
    BY <1>3 DEF ClaimNextJob, Claimable, TypeInv, TypeOK, RowsNumbered
  <2>2. g \in Nat
    BY <2>1 DEF JobRow
  <2>3. claim \in Claim
    BY <2>1, <2>2 DEF Claim, JobRow
  <2>4. row \in JobRow /\ row.attempt >= 1 /\ row.status = "running"
    <3> HIDE DEF g
    <3> QED BY <2>1, <2>2 DEF JobRow, Status
  <2> HIDE DEF row, claim
  <2>5. job' \in [Jobs -> JobRow] /\ RowsNumbered'
    BY <2>1, <2>4, RowChange
  <2>6. worker' \in [Workers -> Claim]
    BY <2>1, <2>3 DEF TypeInv, TypeOK
  <2> QED
    BY <1>3, <2>5, <2>6
    DEF ClaimNextJob, TypeInv, TypeOK, creditVars, historyVars
<1>4. ASSUME NEW w \in Workers, WorkerStep(w) PROVE TypeInv'
  BY <1>4, WorkerStepType
<1>5. ASSUME NEW w \in Workers, Fault(w) \/ Crash(w) PROVE TypeInv'
  <2>1. worker' \in [Workers -> Claim]
    BY <1>5, WorkerType DEF Fault, Crash
  <2> QED
    BY <1>5, <2>1, LocalStepType DEF Fault, Crash, historyVars, TypeInv, TypeOK
<1>6. ASSUME NEW w \in Workers, Stop(w) \/ Start(w) PROVE TypeInv'
  <2>1. RowsNumbered'
    BY <1>6 DEF Stop, Start, SameTables, TypeInv, RowsNumbered, Active
  <2>2. stopping' \in [Workers -> BOOLEAN] /\ stops' \in 0 .. MaxStops
    <3>1. /\ stopping \in [Workers -> BOOLEAN] /\ stops \in 0 .. MaxStops
          /\ MaxStops \in Nat
      BY DEF TypeInv, TypeOK
    <3>2. CASE Stop(w)
      BY <3>1, <3>2 DEF Stop
    <3>3. CASE Start(w)
      BY <3>1, <3>3 DEF Start
    <3> QED BY <1>6, <3>2, <3>3
  <2> QED
    BY <1>6, <2>1, <2>2
    DEF Stop, Start, SameTables, creditVars, historyVars, TypeInv, TypeOK
<1>7. CASE RecoverInterruptedJobs
  BY <1>7, RecoveryType
<1>8. CASE UNCHANGED vars
  <2>1. RowsNumbered'
    BY <1>8 DEF vars, TypeInv, RowsNumbered, Active
  <2> QED BY <1>8, <2>1 DEF vars, TypeInv, TypeOK
<1> QED
  BY <1>1, <1>2, <1>3, <1>4, <1>5, <1>6, <1>7, <1>8 DEF Next

LEMMA TypeInit == Init => TypeInv
<1> SUFFICES ASSUME Init PROVE TypeInv
  OBVIOUS
<1> USE ConstantsAssumption DEF ConstantsAssumption
<1>1. NoRow("absent") \in JobRow
  BY DEF NoRow, JobRow, Status
<1>2. job \in [Jobs -> JobRow] /\ RowsNumbered
  BY <1>1 DEF Init, RowsNumbered, NoRow
<1>3. Idle \in Claim
  BY DEF Idle, Claim
<1>4. result_versions \in [Jobs -> Seq(Version)]
  BY DEF Init
<1> QED BY <1>2, <1>3, <1>4 DEF Init, TypeInv, TypeOK

\* Every table keeps its shape and no balance is overdrawn, for any number of
\* accounts, jobs and workers and any limits.
THEOREM TypeCorrect == Spec => []TypeOK
<1>1. Spec => []TypeInv
  BY TypeInit, TypeStep, PTL DEF Spec
<1>2. TypeInv => TypeOK
  BY DEF TypeInv
<1> QED BY <1>1, <1>2, PTL

-----------------------------------------------------------------------------
(* The fate of a credit                                                    *)

\* CreditHasOneFate is not inductive: it must know that the reservation flag
\* of a paid job is set exactly while the job is active, that the dispatch flag
\* of an active job tells whether its attempt was spent, that a recorded
\* provider attempt was spent, and that later attempts have no history yet.
CreditOK(j) ==
    /\ job[j].reservation_active => Active(j) /\ j \notin FreeJobs
    /\ Active(j) /\ j \notin FreeJobs => job[j].reservation_active
    /\ job[j].status = "queued" => ~job[j].provider_dispatched
    /\ job[j].status = "absent" => job[j].attempt = 0
    /\ Active(j) => /\ job[j].provider_dispatched <=> <<j, job[j].attempt>> \in spent
                    /\ ~Refunded(j, job[j].attempt)
    /\ \A p \in provider_attempts[j] : <<j, p.attempt>> \in spent
    /\ \A a \in Attempts :
          job[j].status # "deleted" /\ a > job[j].attempt =>
              ~Reserved(j, a) /\ ~Refunded(j, a) /\ <<j, a>> \notin spent
    /\ \A a \in Attempts : OneFate(j, a)

CreditInv == \A j \in Jobs : CreditOK(j)

\* Returning credits adds the refund keys of the given jobs and nothing else.
LEMMA RefundEffect ==
    ASSUME NEW S \in SUBSET Jobs, Refund(S)
    PROVE  \A i \in Jobs, a \in Attempts :
              /\ Refunded(i, a)' <=> Refunded(i, a) \/ (i \in S /\ a = job[i].attempt)
              /\ Reserved(i, a)' <=> Reserved(i, a)
<1> DEFINE due == {[kind |-> "refund", job |-> j, attempt |-> job[j].attempt] : j \in S}
<1>1. ledger' = ledger \cup due
  BY DEF Refund
<1>2. TAKE i \in Jobs, a \in Attempts
<1>3. [kind |-> "refund", job |-> i, attempt |-> a] \in due
          <=> i \in S /\ a = job[i].attempt
  OBVIOUS
<1>4. [kind |-> "reserve", job |-> i, attempt |-> a] \notin due
  OBVIOUS
<1> HIDE DEF due
<1> QED BY <1>1, <1>3, <1>4 DEF Refunded, Reserved

\* Taking a credit adds one reservation key, if the job costs one.
LEMMA ReserveEffect ==
    ASSUME NEW j \in Jobs, NEW b \in Attempts, Reserve(j, b)
    PROVE  \A i \in Jobs, a \in Attempts :
              /\ Refunded(i, a)' <=> Refunded(i, a)
              /\ Reserved(i, a)' <=>
                    Reserved(i, a) \/ (i = j /\ a = b /\ j \notin FreeJobs)
<1> DEFINE key == [kind |-> "reserve", job |-> j, attempt |-> b]
<1>1. ledger' = IF j \in FreeJobs THEN ledger ELSE ledger \cup {key}
  BY DEF Reserve, Cost, creditVars
<1>2. TAKE i \in Jobs, a \in Attempts
<1>3. /\ [kind |-> "reserve", job |-> i, attempt |-> a] = key <=> i = j /\ a = b
      /\ [kind |-> "refund", job |-> i, attempt |-> a] # key
  OBVIOUS
<1> HIDE DEF key
<1> QED BY <1>1, <1>3 DEF Refunded, Reserved

\* The attempt of an active job is one of the model's attempts.
LEMMA AttemptInRange ==
    ASSUME TypeInv, NEW j \in Jobs, Active(j)
    PROVE  job[j].attempt \in Attempts
<1>1. job[j] \in JobRow
  BY DEF TypeInv, TypeOK
<1>2. job[j].attempt >= 1
  BY DEF TypeInv, RowsNumbered, Active
<1> QED
  BY <1>1, <1>2, ConstantsAssumption DEF JobRow, Attempts, ConstantsAssumption

\* What CreditOK(j) depends on did not change.
LEMMA CreditFrame ==
    ASSUME NEW j \in Jobs, CreditOK(j),
           job'[j].attempt = job[j].attempt,
           job'[j].reservation_active = job[j].reservation_active,
           job'[j].provider_dispatched = job[j].provider_dispatched,
           job'[j].status = "queued" => ~job[j].provider_dispatched,
           Active(j)' <=> Active(j),
           \A s \in {"absent", "deleted"} : job'[j].status = s <=> job[j].status = s,
           \A a \in Attempts : /\ Refunded(j, a)' <=> Refunded(j, a)
                               /\ Reserved(j, a)' <=> Reserved(j, a)
                               /\ <<j, a>> \in spent' <=> <<j, a>> \in spent,
           \A p \in provider_attempts'[j] : <<j, p.attempt>> \in spent',
           Active(j) => job[j].attempt \in Attempts
    PROVE  CreditOK(j)'
<1>1. \A a \in Attempts : Held(j, a)' <=> Held(j, a)
  BY DEF Held, RefundDue, Active
<1>2. \A a \in Attempts : OneFate(j, a)'
  BY <1>1 DEF OneFate, CreditOK
<1> QED BY <1>2 DEF CreditOK

\* The attempt of job j ends, and its credit is returned if it is due.
LEMMA CreditEnds ==
    ASSUME TypeInv, NEW j \in Jobs, CreditOK(j), Active(j),
           job'[j].attempt = job[j].attempt,
           job'[j].reservation_active = FALSE,
           job'[j].status \in Finished,
           \A a \in Attempts :
              /\ Refunded(j, a)' <=>
                    Refunded(j, a) \/ (RefundDue(j) /\ a = job[j].attempt)
              /\ Reserved(j, a)' <=> Reserved(j, a)
              /\ <<j, a>> \in spent' <=> <<j, a>> \in spent,
           \A p \in provider_attempts'[j] : <<j, p.attempt>> \in spent'
    PROVE  CreditOK(j)'
<1>1. ~Active(j)' /\ job'[j].status \notin {"absent", "deleted", "queued"}
  BY DEF Active, Finished
<1>2. job[j].attempt \in Attempts
  BY AttemptInRange
<1>3. ASSUME NEW a \in Attempts PROVE OneFate(j, a)'
  <2>1. ~Held(j, a)'
    BY <1>1 DEF Held
  <2>2. OneFate(j, a)
    BY DEF CreditOK
  <2>3. CASE a = job[j].attempt
    BY <2>1, <2>2, <2>3 DEF OneFate, Held, RefundDue, CreditOK
  <2>4. CASE a # job[j].attempt
    BY <2>1, <2>2, <2>4 DEF OneFate, Held
  <2> QED BY <2>3, <2>4
<1>4. ASSUME NEW a \in Attempts, a > job'[j].attempt
      PROVE  (~Reserved(j, a) /\ ~Refunded(j, a) /\ <<j, a>> \notin spent)'
  <2>1. a # job[j].attempt /\ a > job[j].attempt
    BY <1>2, <1>4 DEF Attempts
  <2>2. job[j].status # "deleted"
    BY DEF Active
  <2> QED BY <2>1, <2>2 DEF CreditOK
<1> QED BY <1>1, <1>3, <1>4 DEF CreditOK

LEMMA ClosedKeepsAttempts ==
    ASSUME TypeInv, NEW j \in Jobs, NEW outcome
    PROVE  \A p \in Closed(j, outcome) :
              \E q \in provider_attempts[j] : p.attempt = q.attempt
<1>1. \A q \in provider_attempts[j] : [q EXCEPT !.outcome = outcome].attempt = q.attempt
  BY DEF TypeInv, TypeOK, ProviderAttempt
<1> QED BY <1>1 DEF Closed

\* A worker that ends its job by failing or cancelling.
LEMMA EndStepCredit ==
    ASSUME TypeInv, CreditInv, NEW w \in Workers, NEW status \in {"failed", "cancelled"},
           Holds(w), EndJob(worker[w].job, status)
    PROVE  CreditInv'
<1> DEFINE i == worker[w].job
           S == IF RefundDue(i) THEN {i} ELSE {}
<1>1. i \in Jobs /\ job[i] \in JobRow /\ job[i].status = "running"
  BY HoldsRunning
<1>2. Preserved(i, status) \in Finished
  BY PreservedIsFinished DEF Finished
<1>3. /\ job' = [job EXCEPT ![i] = End(job[i], Preserved(i, status))]
      /\ Refund(S) /\ spent' = spent
      /\ provider_attempts' = IF job[i].provider_dispatched
                              THEN [provider_attempts EXCEPT ![i] = Closed(i, status)]
                              ELSE provider_attempts
  BY DEF EndJob, historyVars
<1>4. S \in SUBSET Jobs
  BY <1>1
<1>5. \A k \in Jobs, a \in Attempts :
          /\ Refunded(k, a)' <=> Refunded(k, a) \/ (k \in S /\ a = job[k].attempt)
          /\ Reserved(k, a)' <=> Reserved(k, a)
  BY <1>3, <1>4, RefundEffect
<1> HIDE DEF i
<1>6. SUFFICES ASSUME NEW j \in Jobs PROVE CreditOK(j)'
  BY DEF CreditInv
<1>7. /\ CreditOK(j) /\ job \in [Jobs -> JobRow]
      /\ provider_attempts \in [Jobs -> SUBSET ProviderAttempt]
  BY DEF CreditInv, TypeInv, TypeOK
<1>8. \A p \in provider_attempts'[j] : <<j, p.attempt>> \in spent'
  <2>1. \A p \in provider_attempts[j] : <<j, p.attempt>> \in spent
    BY <1>7 DEF CreditOK
  <2>2. \A p \in Closed(j, status) : \E q \in provider_attempts[j] : p.attempt = q.attempt
    BY ClosedKeepsAttempts
  <2> QED BY <1>3, <1>7, <2>1, <2>2
<1>9. CASE j = i
  <2>1. /\ job'[j].attempt = job[j].attempt /\ job'[j].reservation_active = FALSE
        /\ job'[j].status \in Finished
    BY <1>1, <1>2, <1>3, <1>7, <1>9, EndRow
  <2>2. j \in S <=> RefundDue(j)
    BY <1>9
  <2>3. Active(j)
    BY <1>1, <1>9 DEF Active
  <2> QED BY <1>3, <1>5, <1>7, <1>8, <2>1, <2>2, <2>3, CreditEnds
<1>10. CASE j # i
  <2>1. job'[j] = job[j] /\ j \notin S
    BY <1>3, <1>7, <1>10
  <2>2. Active(j) => job[j].attempt \in Attempts
    BY AttemptInRange
  <2>3. job[j].status = "queued" => ~job[j].provider_dispatched
    BY <1>7 DEF CreditOK
  <2> QED BY <1>3, <1>5, <1>7, <1>8, <2>1, <2>2, <2>3, CreditFrame DEF Active
<1> QED BY <1>9, <1>10

\* A step that changes one row, and nothing in it that a credit depends on.
LEMMA RowStepCredit ==
    ASSUME TypeInv, CreditInv, NEW i \in Jobs, NEW row,
           job' = [job EXCEPT ![i] = row],
           row.attempt = job[i].attempt,
           row.reservation_active = job[i].reservation_active,
           row.provider_dispatched = job[i].provider_dispatched,
           row.status = "queued" => ~job[i].provider_dispatched,
           row.status \in {"queued", "running"} <=> Active(i),
           row.status \notin {"absent", "deleted"},
           job[i].status \notin {"absent", "deleted"},
           UNCHANGED <<ledger, spent, provider_attempts>>
    PROVE  CreditInv'
<1> SUFFICES ASSUME NEW j \in Jobs PROVE CreditOK(j)'
  BY DEF CreditInv
<1>1. CreditOK(j) /\ job \in [Jobs -> JobRow]
  BY DEF CreditInv, TypeInv, TypeOK
<1>2. job'[j] = IF j = i THEN row ELSE job[j]
  BY <1>1
<1>3. /\ \A a \in Attempts : /\ Refunded(j, a)' <=> Refunded(j, a)
                             /\ Reserved(j, a)' <=> Reserved(j, a)
                             /\ <<j, a>> \in spent' <=> <<j, a>> \in spent
      /\ \A p \in provider_attempts'[j] : <<j, p.attempt>> \in spent'
  BY <1>1 DEF Refunded, Reserved, CreditOK
<1>4. Active(j) => job[j].attempt \in Attempts
  BY AttemptInRange
<1>5. Active(j)' <=> Active(j)
  BY <1>2 DEF Active
<1>6. job[j].status = "queued" => ~job[j].provider_dispatched
  BY <1>1 DEF CreditOK
<1> QED BY <1>1, <1>2, <1>3, <1>4, <1>5, <1>6, CreditFrame

LEMMA IdleStepCredit ==
    ASSUME CreditInv, UNCHANGED <<job, ledger, spent, provider_attempts>>
    PROVE  CreditInv'
  BY DEF CreditInv, CreditOK, OneFate, Held, RefundDue, Active, Reserved, Refunded

\* The steps of a customer.
LEMMA RequestCredit ==
    ASSUME TypeInv, CreditInv, NEW i \in Jobs, Request(i)
    PROVE  CreditInv'
<1>0. /\ job \in [Jobs -> JobRow] /\ job[i] \in JobRow
      /\ provider_attempts \in [Jobs -> SUBSET ProviderAttempt]
  BY DEF TypeInv, TypeOK
<1>1. CASE \/ CancelRunning(i)
           \/ Approve(i)
           \/ \E v \in DOMAIN result_versions[i] : StoreCorrection(i, v)
  <2>1. CASE CancelRunning(i)
    <3> DEFINE row == [job[i] EXCEPT !.cancel_requested = TRUE]
    <3>1. /\ job' = [job EXCEPT ![i] = row] /\ job[i].status = "running"
          /\ UNCHANGED <<ledger, spent, provider_attempts>>
      BY <2>1 DEF CancelRunning, creditVars, historyVars
    <3>2. /\ row.attempt = job[i].attempt /\ row.status = "running"
          /\ row.reservation_active = job[i].reservation_active
          /\ row.provider_dispatched = job[i].provider_dispatched
      BY <1>0, <3>1 DEF JobRow
    <3> HIDE DEF row
    <3> QED BY <3>1, <3>2, RowStepCredit DEF Active
  <2>2. CASE Approve(i)
    <3> DEFINE row == [job[i] EXCEPT !.status = "approved", !.approved = TRUE]
    <3>1. /\ job' = [job EXCEPT ![i] = row] /\ job[i].status = "review"
          /\ UNCHANGED <<ledger, spent, provider_attempts>>
      BY <2>2 DEF Approve, creditVars, historyVars
    <3>2. /\ row.attempt = job[i].attempt /\ row.status = "approved"
          /\ row.reservation_active = job[i].reservation_active
          /\ row.provider_dispatched = job[i].provider_dispatched
      BY <1>0 DEF JobRow
    <3> HIDE DEF row
    <3> QED BY <3>1, <3>2, RowStepCredit DEF Active
  <2>3. ASSUME NEW v \in DOMAIN result_versions[i], StoreCorrection(i, v)
        PROVE  CreditInv'
    <3> DEFINE row == [job[i] EXCEPT !.status = "review", !.approved = FALSE]
    <3>1. /\ job' = [job EXCEPT ![i] = row] /\ job[i].status \in {"review", "approved"}
          /\ UNCHANGED <<ledger, spent, provider_attempts>>
      BY <2>3 DEF StoreCorrection, creditVars, historyVars
    <3>2. /\ row.attempt = job[i].attempt /\ row.status = "review"
          /\ row.reservation_active = job[i].reservation_active
          /\ row.provider_dispatched = job[i].provider_dispatched
      BY <1>0 DEF JobRow
    <3> HIDE DEF row
    <3> QED BY <3>1, <3>2, RowStepCredit DEF Active
  <2> QED BY <1>1, <2>1, <2>2, <2>3
<1>2. CASE CancelQueued(i)
  <2> DEFINE S == IF job[i].reservation_active THEN {i} ELSE {}
  <2>1. /\ job[i].status = "queued" /\ Refund(S) /\ S \in SUBSET Jobs
        /\ job' = [job EXCEPT ![i] = End(job[i], Preserved(i, "cancelled"))]
        /\ UNCHANGED <<spent, provider_attempts>>
    BY <1>2 DEF CancelQueued, historyVars
  <2>2. \A k \in Jobs, a \in Attempts :
            /\ Refunded(k, a)' <=> Refunded(k, a) \/ (k \in S /\ a = job[k].attempt)
            /\ Reserved(k, a)' <=> Reserved(k, a)
    BY <2>1, RefundEffect
  <2>3. Preserved(i, "cancelled") \in Finished
    BY PreservedIsFinished DEF Finished
  <2>4. SUFFICES ASSUME NEW j \in Jobs PROVE CreditOK(j)'
    BY DEF CreditInv
  <2>5. /\ CreditOK(j)
        /\ job[j].status = "queued" => ~job[j].provider_dispatched
        /\ \A p \in provider_attempts'[j] : <<j, p.attempt>> \in spent'
    BY <2>1 DEF CreditInv, CreditOK
  <2>6. CASE j = i
    <3>1. /\ job'[j].attempt = job[j].attempt /\ job'[j].reservation_active = FALSE
          /\ job'[j].status \in Finished
      BY <1>0, <2>1, <2>3, <2>6, EndRow
    <3>2. j \in S <=> RefundDue(j)
      BY <2>1, <2>5, <2>6 DEF RefundDue
    <3>3. Active(j)
      BY <2>1, <2>6 DEF Active
    <3> QED BY <2>1, <2>2, <2>5, <3>1, <3>2, <3>3, CreditEnds
  <2>7. CASE j # i
    <3>1. job'[j] = job[j] /\ j \notin S
      BY <1>0, <2>1, <2>7
    <3>2. Active(j) => job[j].attempt \in Attempts
      BY AttemptInRange
    <3> QED BY <2>1, <2>2, <2>5, <3>1, <3>2, CreditFrame DEF Active
  <2> QED BY <2>6, <2>7
<1>3. ASSUME NEW b \in Attempts, NEW row \in JobRow,
             Reserve(i, b), job' = [job EXCEPT ![i] = row],
             row.status = "queued", row.attempt = b, b > job[i].attempt,
             row.reservation_active <=> i \notin FreeJobs,
             ~row.provider_dispatched, job[i].status # "deleted",
             ~Active(i), UNCHANGED <<spent, provider_attempts>>
      PROVE  CreditInv'
  <2>1. \A k \in Jobs, a \in Attempts :
            /\ Refunded(k, a)' <=> Refunded(k, a)
            /\ Reserved(k, a)' <=>
                  Reserved(k, a) \/ (k = i /\ a = b /\ i \notin FreeJobs)
    BY <1>3, ReserveEffect
  <2>2. SUFFICES ASSUME NEW j \in Jobs PROVE CreditOK(j)'
    BY DEF CreditInv
  <2>3. /\ CreditOK(j)
        /\ job[j].status = "queued" => ~job[j].provider_dispatched
        /\ \A p \in provider_attempts'[j] : <<j, p.attempt>> \in spent'
    BY <1>3 DEF CreditInv, CreditOK
  <2>4. CASE j = i
    <3>1. job'[j] = row
      BY <1>0, <1>3, <2>4
    <3>2. ~Reserved(j, b) /\ ~Refunded(j, b) /\ <<j, b>> \notin spent
      BY <1>3, <2>3, <2>4 DEF CreditOK
    <3>3. Active(j)' /\ job'[j].status = "queued" /\ job'[j].attempt = b
          /\ ~job'[j].provider_dispatched
          /\ (job'[j].reservation_active <=> j \notin FreeJobs)
      BY <1>3, <2>4, <3>1 DEF Active
    <3>4. ASSUME NEW a \in Attempts PROVE OneFate(j, a)'
      <4>1. Held(j, a)' <=> a = b /\ j \notin FreeJobs
        BY <3>3 DEF Held, RefundDue
      <4>2. OneFate(j, a) /\ ~Held(j, a)
        BY <1>3, <2>3, <2>4 DEF CreditOK, Held
      <4>3. CASE a = b
        BY <1>3, <2>1, <2>4, <3>2, <4>1, <4>2, <4>3 DEF OneFate
      <4>4. CASE a # b
        BY <1>3, <2>1, <2>4, <4>1, <4>2, <4>4 DEF OneFate
      <4> QED BY <4>3, <4>4
    <3>5. ASSUME NEW a \in Attempts, a > b
          PROVE  (~Reserved(j, a) /\ ~Refunded(j, a) /\ <<j, a>> \notin spent)'
      <4>1. a > job[j].attempt /\ a # b
        BY <1>0, <1>3, <2>4, <3>5 DEF Attempts, JobRow
      <4> QED BY <1>3, <2>1, <2>3, <2>4, <4>1 DEF CreditOK
    <3> QED BY <1>3, <2>1, <2>3, <3>2, <3>3, <3>4, <3>5 DEF CreditOK
  <2>5. CASE j # i
    <3>1. job'[j] = job[j]
      BY <1>0, <1>3, <2>5
    <3>2. Active(j) => job[j].attempt \in Attempts
      BY AttemptInRange
    <3> QED BY <1>3, <2>1, <2>3, <2>5, <3>1, <3>2, CreditFrame DEF Active
  <2> QED BY <2>4, <2>5
<1>4. CASE Create(i)
  <2> DEFINE row == [NoRow("queued") EXCEPT
                        !.created = Cardinality({k \in Jobs : job[k].status # "absent"}),
                        !.attempt = 1,
                        !.reservation_active = (Cost(i) = 1),
                        !.result_reservation_attempt = 1]
  <2>1. /\ Reserve(i, 1) /\ job' = [job EXCEPT ![i] = row]
        /\ job[i].status = "absent" /\ UNCHANGED <<spent, provider_attempts>>
    BY <1>4 DEF Create, historyVars
  <2>2. /\ row.status = "queued" /\ row.attempt = 1
        /\ row.reservation_active = (Cost(i) = 1) /\ ~row.provider_dispatched
    BY DEF NoRow
  <2>3. job[i].attempt = 0 /\ 1 \in Attempts
    <3>1. CreditOK(i)
      BY DEF CreditInv
    <3>2. 1 \in Attempts
      BY ConstantsAssumption DEF Attempts, ConstantsAssumption
    <3> QED BY <2>1, <3>1, <3>2 DEF CreditOK
  <2>4. row \in JobRow
    <3>1. TypeInv'
      BY <1>4, RequestType DEF Request
    <3>2. job'[i] \in JobRow
      BY <3>1 DEF TypeInv, TypeOK
    <3> HIDE DEF row
    <3> QED BY <1>0, <2>1, <3>2
  <2> HIDE DEF row
  <2>5. row.reservation_active <=> i \notin FreeJobs
    <3>1. (Cost(i) = 1) <=> i \notin FreeJobs
      BY DEF Cost
    <3> QED BY <2>2, <3>1
  <2>6. ~Active(i) /\ 1 > job[i].attempt
    BY <2>1, <2>3 DEF Active
  <2> QED BY <1>3, <2>1, <2>2, <2>3, <2>4, <2>5, <2>6
<1>5. CASE Reprocess(i)
  <2> DEFINE b == job[i].attempt + 1
             row == [job[i] EXCEPT
                        !.status = "queued", !.attempt = b, !.recovery_count = 0,
                        !.cancel_requested = FALSE,
                        !.reservation_active = (Cost(i) = 1),
                        !.provider_dispatched = FALSE, !.worker_owner = NoWorker,
                        !.lease = "none", !.result_reservation_attempt = b]
  <2>1. /\ Reserve(i, b) /\ job' = [job EXCEPT ![i] = row] /\ b <= MaxAttempts
        /\ job[i].status \in Finished /\ UNCHANGED <<spent, provider_attempts>>
    BY <1>5 DEF Reprocess, historyVars
  <2>2. /\ row.status = "queued" /\ row.attempt = b
        /\ row.reservation_active = (Cost(i) = 1) /\ ~row.provider_dispatched
    BY <1>0 DEF JobRow
  <2>3. b \in Attempts /\ b > job[i].attempt
    BY <1>0, <2>1, ConstantsAssumption DEF Attempts, JobRow, ConstantsAssumption
  <2>4. row \in JobRow
    <3>1. TypeInv'
      BY <1>5, RequestType DEF Request
    <3>2. job'[i] \in JobRow
      BY <3>1 DEF TypeInv, TypeOK
    <3> HIDE DEF row
    <3> QED BY <1>0, <2>1, <3>2
  <2> HIDE DEF row, b
  <2>5. row.reservation_active <=> i \notin FreeJobs
    <3>1. (Cost(i) = 1) <=> i \notin FreeJobs
      BY DEF Cost
    <3> QED BY <2>2, <3>1
  <2>6. ~Active(i) /\ job[i].status # "deleted"
    BY <2>1 DEF Active, Finished
  <2> QED BY <1>3, <2>1, <2>2, <2>3, <2>4, <2>5, <2>6
<1>6. CASE Delete(i)
  <2>1. /\ job' = [job EXCEPT ![i] = NoRow("deleted")] /\ job[i].status \in Finished
        /\ provider_attempts' = [provider_attempts EXCEPT ![i] = {}]
        /\ UNCHANGED <<ledger, spent>>
    BY <1>6 DEF Delete, creditVars, historyVars
  <2>2. SUFFICES ASSUME NEW j \in Jobs PROVE CreditOK(j)'
    BY DEF CreditInv
  <2>3. /\ CreditOK(j)
        /\ job[j].status = "queued" => ~job[j].provider_dispatched
    BY DEF CreditInv, CreditOK
  <2>4. \A a \in Attempts : /\ Refunded(j, a)' <=> Refunded(j, a)
                            /\ Reserved(j, a)' <=> Reserved(j, a)
                            /\ <<j, a>> \in spent' <=> <<j, a>> \in spent
    BY <2>1 DEF Refunded, Reserved
  <2>5. CASE j = i
    <3>1. /\ job'[j].status = "deleted" /\ ~job'[j].reservation_active
          /\ provider_attempts'[j] = {}
      BY <1>0, <2>1, <2>5 DEF NoRow
    <3>2. ~Active(j) /\ ~Active(j)'
      BY <2>1, <2>5, <3>1 DEF Active, Finished
    <3>3. \A a \in Attempts : OneFate(j, a)'
      BY <2>3, <2>4, <3>2 DEF CreditOK, OneFate, Held
    <3> QED BY <3>1, <3>2, <3>3 DEF CreditOK
  <2>6. CASE j # i
    <3>1. job'[j] = job[j] /\ provider_attempts'[j] = provider_attempts[j]
      BY <1>0, <2>1, <2>6
    <3>2. \A p \in provider_attempts'[j] : <<j, p.attempt>> \in spent'
      BY <2>1, <2>3, <3>1 DEF CreditOK
    <3>3. Active(j) => job[j].attempt \in Attempts
      BY AttemptInRange
    <3> QED BY <2>3, <2>4, <3>1, <3>2, <3>3, CreditFrame DEF Active
  <2> QED BY <2>5, <2>6
<1> QED BY <1>1, <1>2, <1>4, <1>5, <1>6 DEF Request

\* The steps of a worker.
LEMMA WorkerStepCredit ==
    ASSUME TypeInv, CreditInv, NEW w \in Workers, WorkerStep(w)
    PROVE  CreditInv'
<1> DEFINE c == worker[w]
           i == c.job
<1>0. /\ job \in [Jobs -> JobRow]
      /\ provider_attempts \in [Jobs -> SUBSET ProviderAttempt]
  BY DEF TypeInv, TypeOK
<1>1. CASE CancelClaimed(w)
  BY <1>1, EndStepCredit DEF CancelClaimed
<1>2. CASE ReleaseForShutdown(w)
  <2> DEFINE row == [job[i] EXCEPT !.status = "queued", !.worker_owner = NoWorker,
                                   !.lease = "none"]
  <2>1. /\ Holds(w) /\ ~job[i].provider_dispatched
        /\ job' = [job EXCEPT ![i] = row]
        /\ UNCHANGED <<ledger, spent, provider_attempts>>
    BY <1>2 DEF ReleaseForShutdown, creditVars, historyVars
  <2>2. i \in Jobs /\ job[i] \in JobRow /\ job[i].status = "running"
    BY <2>1, HoldsRunning
  <2>3. /\ row.attempt = job[i].attempt /\ row.status = "queued"
        /\ row.reservation_active = job[i].reservation_active
        /\ row.provider_dispatched = job[i].provider_dispatched
    BY <2>2 DEF JobRow
  <2> HIDE DEF row, i
  <2> QED BY <2>1, <2>2, <2>3, RowStepCredit DEF Active
<1>3. CASE Progress(w) \/ CallProvider(w) \/ ProviderAnswers(w) \/ DropStaleClaim(w)
  BY <1>3, IdleStepCredit
  DEF Progress, CallProvider, ProviderAnswers, DropStaleClaim, SameTables,
      creditVars, historyVars
<1>4. CASE CancelReady(w)
  BY <1>4, EndStepCredit DEF CancelReady
<1>5. CASE RefuseDispatch(w)
  BY <1>5, EndStepCredit DEF RefuseDispatch, StillWanted
<1>6. CASE Dispatch(w)
  <2> DEFINE row == [job[i] EXCEPT !.provider_dispatched = TRUE]
             p == [attempt |-> c.attempt, generation |-> c.generation,
                   outcome |-> "dispatched"]
  <2>1. /\ Holds(w) /\ ~job[i].provider_dispatched
        /\ job' = [job EXCEPT ![i] = row]
        /\ provider_attempts' = [provider_attempts EXCEPT ![i] = @ \cup {p}]
        /\ spent' = spent \cup {<<i, c.attempt>>}
        /\ UNCHANGED ledger
    BY <1>6 DEF Dispatch, StillWanted, creditVars
  <2>2. /\ i \in Jobs /\ job[i] \in JobRow /\ job[i].status = "running"
        /\ c.attempt = job[i].attempt /\ c.attempt \in Attempts
    BY <2>1, HoldsRunning
  <2>3. /\ row.attempt = job[i].attempt /\ row.status = "running"
        /\ row.reservation_active = job[i].reservation_active
        /\ row.provider_dispatched = TRUE
        /\ p.attempt = c.attempt
    BY <2>2 DEF JobRow
  <2> HIDE DEF row, p, i, c
  <2>10. PICK b \in Attempts : b = c.attempt
    BY <2>2
  <2>4. SUFFICES ASSUME NEW j \in Jobs PROVE CreditOK(j)'
    BY DEF CreditInv
  <2>5. /\ CreditOK(j)
        /\ job[j].status = "queued" => ~job[j].provider_dispatched
        /\ \A q \in provider_attempts[j] : <<j, q.attempt>> \in spent
    BY DEF CreditInv, CreditOK
  <2>6. \A q \in provider_attempts'[j] : <<j, q.attempt>> \in spent'
    BY <1>0, <2>1, <2>3, <2>5
  <2>7. \A a \in Attempts :
           /\ Refunded(j, a)' <=> Refunded(j, a)
           /\ Reserved(j, a)' <=> Reserved(j, a)
           /\ <<j, a>> \in spent' <=> <<j, a>> \in spent \/ (j = i /\ a = b)
    BY <2>1, <2>10 DEF Refunded, Reserved
  <2>8. CASE j = i
    <3>1. job'[j] = row
      BY <1>0, <2>1, <2>8
    <3>2. Active(j) /\ Active(j)'
      BY <2>2, <2>3, <2>8, <3>1 DEF Active
    <3>3. <<j, b>> \in spent' /\ ~Refunded(j, b)'
      BY <2>2, <2>10, <2>5, <2>7, <2>8, <3>2 DEF CreditOK
    <3>4. ASSUME NEW a \in Attempts PROVE OneFate(j, a)'
      <4>1. OneFate(j, a) /\ ~Held(j, a)'
        BY <2>3, <2>5, <3>1 DEF CreditOK, Held, RefundDue
      <4>2. CASE a = b
        <5>1. Held(j, a) <=> j \notin FreeJobs
          BY <2>1, <2>2, <2>10, <2>5, <2>8, <3>2, <4>2 DEF CreditOK, Held, RefundDue
        <5> QED BY <2>7, <2>8, <3>3, <4>1, <4>2, <5>1 DEF OneFate
      <4>3. CASE a # b
        <5>1. ~Held(j, a)
          BY <2>2, <2>10, <2>8, <4>3 DEF Held
        <5> QED BY <2>7, <4>1, <4>3, <5>1 DEF OneFate
      <4> QED BY <4>2, <4>3
    <3>5. ASSUME NEW a \in Attempts, a > job[j].attempt
          PROVE  (~Reserved(j, a) /\ ~Refunded(j, a) /\ <<j, a>> \notin spent)'
      <4>1. a # b
        BY <2>2, <2>10, <2>8, <3>5 DEF Attempts
      <4>2. job[j].status # "deleted"
        BY <3>2 DEF Active
      <4> QED BY <2>5, <2>7, <3>5, <4>1, <4>2 DEF CreditOK
    <3> QED BY <2>2, <2>3, <2>10, <2>5, <2>6, <2>8, <3>1, <3>2, <3>3, <3>4, <3>5 DEF CreditOK
  <2>9. CASE j # i
    <3>1. job'[j] = job[j]
      BY <1>0, <2>1, <2>9
    <3>2. Active(j) => job[j].attempt \in Attempts
      BY AttemptInRange
    <3> QED BY <2>5, <2>6, <2>7, <2>9, <3>1, <3>2, CreditFrame DEF Active
  <2> QED BY <2>8, <2>9
<1>7. CASE CancelAnswered(w)
  BY <1>7, EndStepCredit DEF CancelAnswered
<1>8. CASE Publish(w)
  <2> DEFINE done == End(job[i], "review")
             row == [done EXCEPT !.approved = FALSE]
  <2>1. /\ Holds(w) /\ HasOpen(i)
        /\ job' = [job EXCEPT ![i] = row]
        /\ provider_attempts' =
              [provider_attempts EXCEPT ![i] = Closed(i, "succeeded")]
        /\ UNCHANGED <<ledger, spent>>
    BY <1>8 DEF Publish, StillWanted, creditVars, historyVars
  <2>2. i \in Jobs /\ job[i] \in JobRow /\ job[i].status = "running"
    BY <2>1, HoldsRunning
  <2>3. /\ row.attempt = job[i].attempt /\ row.reservation_active = FALSE
        /\ row.status = "review"
    <3>1. /\ done \in JobRow /\ done.attempt = job[i].attempt
          /\ done.reservation_active = FALSE /\ done.status = "review"
      BY <2>2, EndRow DEF Finished
    <3> HIDE DEF done
    <3> QED BY <3>1 DEF JobRow
  <2>4. CreditOK(i) /\ Active(i)
    BY <2>2 DEF CreditInv, Active
  <2>5. ~RefundDue(i)
    <3>1. PICK p \in provider_attempts[i] : Open(i, p)
      BY <2>1 DEF HasOpen
    <3> QED BY <2>4, <3>1 DEF CreditOK, Open, RefundDue
  <2>6. \A p \in Closed(i, "succeeded") : <<i, p.attempt>> \in spent
    BY <2>2, <2>4, ClosedKeepsAttempts DEF CreditOK
  <2> HIDE DEF row, i
  <2>7. SUFFICES ASSUME NEW j \in Jobs PROVE CreditOK(j)'
    BY DEF CreditInv
  <2>8. /\ CreditOK(j)
        /\ job[j].status = "queued" => ~job[j].provider_dispatched
        /\ \A q \in provider_attempts[j] : <<j, q.attempt>> \in spent
    BY DEF CreditInv, CreditOK
  <2>9. \A q \in provider_attempts'[j] : <<j, q.attempt>> \in spent'
    BY <1>0, <2>1, <2>6, <2>8
  <2>10. \A a \in Attempts : /\ Refunded(j, a)' <=> Refunded(j, a)
                             /\ Reserved(j, a)' <=> Reserved(j, a)
                             /\ <<j, a>> \in spent' <=> <<j, a>> \in spent
    BY <2>1 DEF Refunded, Reserved
  <2>11. CASE j = i
    <3>1. /\ job'[j].attempt = job[j].attempt /\ job'[j].reservation_active = FALSE
          /\ job'[j].status \in Finished
      BY <1>0, <2>1, <2>3, <2>11 DEF Finished
    <3> QED BY <2>4, <2>5, <2>8, <2>9, <2>10, <2>11, <3>1, CreditEnds
  <2>12. CASE j # i
    <3>1. job'[j] = job[j]
      BY <1>0, <2>1, <2>12
    <3>2. Active(j) => job[j].attempt \in Attempts
      BY AttemptInRange
    <3> QED BY <2>8, <2>9, <2>10, <3>1, <3>2, CreditFrame DEF Active
  <2> QED BY <2>11, <2>12
<1>9. CASE FinishFailed(w)
  BY <1>9, EndStepCredit DEF FinishFailed
<1> QED
  BY <1>1, <1>2, <1>3, <1>4, <1>5, <1>6, <1>7, <1>8, <1>9 DEF WorkerStep

\* Recovery, job by job.
LEMMA RecoveryCredit ==
    ASSUME TypeInv, CreditInv, RecoverInterruptedJobs
    PROVE  CreditInv'
<1> DEFINE S == {i \in Jobs : GivenUp(i) /\ RefundDue(i)}
<1>1. /\ job' = [i \in Jobs |-> Recovered(i)] /\ Refund(S) /\ spent' = spent
      /\ provider_attempts' = [i \in Jobs |->
             IF GivenUp(i) /\ job[i].provider_dispatched
             THEN Closed(i, Reason(i)) ELSE provider_attempts[i]]
  BY DEF RecoverInterruptedJobs, historyVars
<1>2. \A k \in Jobs, a \in Attempts :
          /\ Refunded(k, a)' <=> Refunded(k, a) \/ (k \in S /\ a = job[k].attempt)
          /\ Reserved(k, a)' <=> Reserved(k, a)
  BY <1>1, RefundEffect
<1>3. SUFFICES ASSUME NEW j \in Jobs PROVE CreditOK(j)'
  BY DEF CreditInv
<1>4. /\ CreditOK(j) /\ job[j] \in JobRow /\ job'[j] = Recovered(j)
      /\ j \in S <=> GivenUp(j) /\ RefundDue(j)
  BY <1>1 DEF CreditInv, TypeInv, TypeOK
<1>5. \A p \in provider_attempts'[j] : <<j, p.attempt>> \in spent'
  <2>1. \A p \in provider_attempts[j] : <<j, p.attempt>> \in spent
    BY <1>4 DEF CreditOK
  <2>2. \A p \in Closed(j, Reason(j)) : \E q \in provider_attempts[j] : p.attempt = q.attempt
    BY ClosedKeepsAttempts
  <2> QED BY <1>1, <2>1, <2>2
<1> HIDE DEF S
<1>6. CASE Requeued(j)
  <2> DEFINE row == [job[j] EXCEPT !.status = "queued", !.recovery_count = @ + 1,
                                   !.worker_owner = NoWorker, !.lease = "none"]
  <2>1. job'[j] = row
    BY <1>4, <1>6 DEF Recovered
  <2>2. /\ row.status = "queued" /\ row.attempt = job[j].attempt
        /\ row.reservation_active = job[j].reservation_active
        /\ row.provider_dispatched = job[j].provider_dispatched
    BY <1>4 DEF JobRow
  <2>3. ~job[j].provider_dispatched /\ job[j].status = "running" /\ ~GivenUp(j)
    BY <1>6 DEF Requeued, Expired, GivenUp
  <2> HIDE DEF row
  <2>4. Active(j) /\ Active(j)'
    BY <2>1, <2>2, <2>3 DEF Active
  <2>5. job[j].attempt \in Attempts
    BY <2>4, AttemptInRange
  <2> QED BY <1>1, <1>2, <1>4, <1>5, <2>1, <2>2, <2>3, <2>4, <2>5, CreditFrame
<1>7. CASE GivenUp(j)
  <2> DEFINE final == Preserved(j, Reason(j))
  <2>1. job'[j] = End(job[j], final)
    BY <1>4, <1>7 DEF Recovered, GivenUp
  <2>2. final \in Finished
    BY PreservedIsFinished DEF Reason, Finished
  <2> HIDE DEF final
  <2>3. /\ job'[j].attempt = job[j].attempt /\ job'[j].reservation_active = FALSE
        /\ job'[j].status \in Finished
    <3>1. job[j] \in JobRow
      BY <1>4
    <3>2. /\ End(job[j], final).attempt = job[j].attempt
          /\ End(job[j], final).reservation_active = FALSE
          /\ End(job[j], final).status = final
      BY <2>2, <3>1, EndRow
    <3> QED BY <2>1, <2>2, <3>2
  <2>4. Active(j)
    BY <1>7 DEF GivenUp, Expired, Active
  <2> QED BY <1>1, <1>2, <1>4, <1>5, <1>7, <2>3, <2>4, CreditEnds
<1>8. CASE ~Requeued(j) /\ ~GivenUp(j)
  <2>1. job'[j] = job[j]
    BY <1>4, <1>8 DEF Recovered
  <2>2. Active(j) => job[j].attempt \in Attempts
    BY AttemptInRange
  <2>3. job[j].status = "queued" => ~job[j].provider_dispatched
    BY <1>4 DEF CreditOK
  <2> QED BY <1>1, <1>2, <1>4, <1>5, <1>8, <2>1, <2>2, <2>3, CreditFrame DEF Active
<1> QED BY <1>6, <1>7, <1>8

LEMMA CreditStep == TypeInv /\ CreditInv /\ [Next]_vars => CreditInv'
<1> SUFFICES ASSUME TypeInv, CreditInv, [Next]_vars PROVE CreditInv'
  OBVIOUS
<1>1. ASSUME NEW i \in Jobs, Request(i) PROVE CreditInv'
  BY <1>1, RequestCredit
<1>2. ASSUME NEW i \in Jobs, LeaseExpires(i) PROVE CreditInv'
  <2> DEFINE row == [job[i] EXCEPT !.lease = "expired"]
  <2>1. /\ job[i] \in JobRow /\ job[i].status = "running"
        /\ job' = [job EXCEPT ![i] = row]
        /\ UNCHANGED <<ledger, spent, provider_attempts>>
    BY <1>2 DEF LeaseExpires, TypeInv, TypeOK, creditVars, historyVars
  <2>2. /\ row.attempt = job[i].attempt /\ row.status = "running"
        /\ row.reservation_active = job[i].reservation_active
        /\ row.provider_dispatched = job[i].provider_dispatched
    BY <2>1 DEF JobRow
  <2> HIDE DEF row
  <2> QED BY <2>1, <2>2, RowStepCredit DEF Active
<1>3. ASSUME NEW w \in Workers, NEW i \in Jobs, ClaimNextJob(w, i) PROVE CreditInv'
  <2> DEFINE row == [job[i] EXCEPT !.status = "running", !.worker_owner = w,
                                   !.lease_generation = job[i].lease_generation + 1,
                                   !.lease = "live"]
  <2>1. /\ job[i] \in JobRow /\ job[i].status = "queued"
        /\ job' = [job EXCEPT ![i] = row]
        /\ UNCHANGED <<ledger, spent, provider_attempts>>
    BY <1>3 DEF ClaimNextJob, Claimable, TypeInv, TypeOK, creditVars, historyVars
  <2>2. /\ row.attempt = job[i].attempt /\ row.status = "running"
        /\ row.reservation_active = job[i].reservation_active
        /\ row.provider_dispatched = job[i].provider_dispatched
    BY <2>1 DEF JobRow
  <2> HIDE DEF row
  <2> QED BY <2>1, <2>2, RowStepCredit DEF Active
<1>4. ASSUME NEW w \in Workers, WorkerStep(w) PROVE CreditInv'
  BY <1>4, WorkerStepCredit
<1>5. ASSUME NEW w \in Workers, Fault(w) \/ Crash(w) \/ Stop(w) \/ Start(w)
      PROVE  CreditInv'
  BY <1>5, IdleStepCredit
  DEF Fault, Crash, Stop, Start, SameTables, creditVars, historyVars
<1>6. CASE RecoverInterruptedJobs
  BY <1>6, RecoveryCredit
<1>7. CASE UNCHANGED vars
  BY <1>7, IdleStepCredit DEF vars
<1> QED
  BY <1>1, <1>2, <1>3, <1>4, <1>5, <1>6, <1>7 DEF Next

LEMMA CreditInit == Init => CreditInv
  BY DEF Init, CreditInv, CreditOK, OneFate, Held, Active, NoRow, Reserved, Refunded

LEMMA CreditInvariant == Spec => [](TypeInv /\ CreditInv)
  BY TypeInit, TypeStep, CreditInit, CreditStep, PTL DEF Spec

\* The credit of every paid attempt has exactly one fate, for any number of
\* jobs, attempts and workers, and wherever workers crash or leases expire.
THEOREM CreditSettlesOnce == Spec => []CreditHasOneFate
<1>1. CreditInv => CreditHasOneFate
  <2> SUFFICES ASSUME CreditInv, NEW j \in Jobs, NEW a \in Attempts
               PROVE  OneFate(j, a)
    BY DEF CreditHasOneFate
  <2> QED BY DEF CreditInv, CreditOK
<1> QED BY <1>1, CreditInvariant, PTL

-----------------------------------------------------------------------------
(* One provider call for each attempt                                      *)

\* A worker on its way to the provider is alone with the dispatch it committed,
\* and no call was made for it yet.
CallInv ==
    /\ \A j \in Jobs, a \in Attempts :
          calls[<<j, a>>] \in {0, 1} /\ (calls[<<j, a>>] = 1 => <<j, a>> \in spent)
    /\ \A w \in Workers : worker[w].pc = "dispatched" =>
          /\ worker[w].job \in Jobs /\ worker[w].attempt \in Attempts
          /\ <<worker[w].job, worker[w].attempt>> \in spent
          /\ calls[<<worker[w].job, worker[w].attempt>>] = 0
    /\ \A v, w \in Workers :
          /\ worker[v].pc = "dispatched" /\ worker[w].pc = "dispatched"
          /\ worker[v].job = worker[w].job /\ worker[v].attempt = worker[w].attempt
          => v = w

\* No worker newly reaches the provider, and nothing is called.
LEMMA CallFrame ==
    ASSUME TypeInv, CallInv,
           UNCHANGED <<spent, calls>>,
           \A v \in Workers : worker'[v].pc = "dispatched" => worker'[v] = worker[v]
    PROVE  CallInv'
  BY DEF CallInv

LEMMA CallStep == TypeInv /\ CreditInv /\ CallInv /\ [Next]_vars => CallInv'
<1> SUFFICES ASSUME TypeInv, CreditInv, CallInv, [Next]_vars PROVE CallInv'
  OBVIOUS
<1>0. worker \in [Workers -> Claim]
  BY DEF TypeInv, TypeOK
<1>a. ASSUME NEW w \in Workers, Return(w) PROVE
        \A v \in Workers : worker'[v].pc = "dispatched" => worker'[v] = worker[v]
  BY <1>0, <1>a DEF Return, Idle
<1>b. ASSUME NEW w \in Workers, NEW pc, pc # "dispatched", GoTo(w, pc) PROVE
        \A v \in Workers : worker'[v].pc = "dispatched" => worker'[v] = worker[v]
  BY <1>0, <1>b DEF GoTo, Claim
<1>1. ASSUME NEW i \in Jobs, Request(i) \/ LeaseExpires(i) PROVE CallInv'
  <2>1. UNCHANGED <<worker, spent, calls>>
    BY <1>1 DEF Request, Create, Reprocess, CancelQueued, CancelRunning,
       StoreCorrection, Approve, Delete, LeaseExpires, workVars, historyVars
  <2> QED BY <2>1, CallFrame
<1>2. ASSUME NEW w \in Workers, NEW i \in Jobs, ClaimNextJob(w, i) PROVE CallInv'
  <2>1. \A v \in Workers : worker'[v].pc = "dispatched" => worker'[v] = worker[v]
    BY <1>0, <1>2 DEF ClaimNextJob
  <2> QED BY <1>2, <2>1, CallFrame DEF ClaimNextJob, historyVars
<1>3. ASSUME NEW w \in Workers,
             \/ CancelClaimed(w) \/ ReleaseForShutdown(w) \/ CancelReady(w)
             \/ RefuseDispatch(w) \/ CancelAnswered(w) \/ Publish(w)
             \/ FinishFailed(w) \/ DropStaleClaim(w) \/ Crash(w)
      PROVE  CallInv'
  <2>1. Return(w) /\ UNCHANGED <<spent, calls>>
    BY <1>3 DEF CancelClaimed, ReleaseForShutdown, CancelReady, RefuseDispatch,
       CancelAnswered, Publish, FinishFailed, DropStaleClaim, Crash, EndJob, historyVars
  <2> QED BY <1>a, <2>1, CallFrame
<1>4. ASSUME NEW w \in Workers, Progress(w) \/ ProviderAnswers(w) \/ Fault(w)
      PROVE  CallInv'
  <2>1. /\ UNCHANGED <<spent, calls>>
        /\ \E pc \in {"reading", "ready", "publishing", "failing"} : GoTo(w, pc)
    BY <1>4 DEF Progress, ProviderAnswers, Fault, historyVars
  <2> QED BY <1>b, <2>1, CallFrame
<1>5. ASSUME NEW w \in Workers, Dispatch(w) PROVE CallInv'
  <2> DEFINE c == worker[w]
             q == <<c.job, c.attempt>>
  <2>1. /\ Holds(w) /\ ~job[c.job].provider_dispatched
        /\ spent' = spent \cup {q} /\ calls' = calls
        /\ worker' = [worker EXCEPT ![w].pc = "dispatched"]
    BY <1>5 DEF Dispatch, StillWanted, GoTo
  <2>2. /\ c.job \in Jobs /\ c.attempt \in Attempts
        /\ c.attempt = job[c.job].attempt /\ job[c.job].status = "running"
    BY <2>1, HoldsRunning
  <2>3. q \notin spent
    BY <2>1, <2>2 DEF CreditInv, CreditOK, Active
  <2>4. calls[q] = 0
    BY <2>2, <2>3 DEF CallInv
  <2>5. \A v \in Workers : v # w => worker'[v] = worker[v]
    BY <1>0, <2>1
  <2>6. /\ worker'[w].pc = "dispatched" /\ worker'[w].job = c.job
        /\ worker'[w].attempt = c.attempt
    BY <1>0, <2>1 DEF Claim
  <2>7. \A v \in Workers : v # w /\ worker[v].pc = "dispatched" =>
            ~(worker[v].job = c.job /\ worker[v].attempt = c.attempt)
    BY <2>3 DEF CallInv
  <2>8. (\A j \in Jobs, a \in Attempts :
            calls[<<j, a>>] \in {0, 1} /\ (calls[<<j, a>>] = 1 => <<j, a>> \in spent))'
    BY <2>1 DEF CallInv
  <2>9. ASSUME NEW v \in Workers, worker'[v].pc = "dispatched"
        PROVE  /\ worker'[v].job \in Jobs /\ worker'[v].attempt \in Attempts
               /\ <<worker'[v].job, worker'[v].attempt>> \in spent'
               /\ calls'[<<worker'[v].job, worker'[v].attempt>>] = 0
    <3>1. CASE v = w
      BY <2>1, <2>2, <2>4, <2>6, <3>1
    <3>2. CASE v # w
      BY <2>1, <2>5, <2>9, <3>2 DEF CallInv
    <3> QED BY <3>1, <3>2
  <2>10. ASSUME NEW u \in Workers, NEW v \in Workers,
                worker'[u].pc = "dispatched", worker'[v].pc = "dispatched",
                worker'[u].job = worker'[v].job, worker'[u].attempt = worker'[v].attempt
         PROVE  u = v
    BY <2>5, <2>6, <2>7, <2>10 DEF CallInv
  <2> QED BY <2>8, <2>9, <2>10 DEF CallInv
<1>6. ASSUME NEW w \in Workers, CallProvider(w) PROVE CallInv'
  <2> DEFINE c == worker[w]
             q == <<c.job, c.attempt>>
  <2>1. /\ c.pc = "dispatched" /\ spent' = spent
        /\ calls' = [calls EXCEPT ![q] = @ + 1]
        /\ worker' = [worker EXCEPT ![w].pc = "calling"]
    BY <1>6 DEF CallProvider, GoTo
  <2>2. /\ c.job \in Jobs /\ c.attempt \in Attempts /\ q \in spent /\ calls[q] = 0
        /\ calls \in [Jobs \X Attempts -> Nat]
    BY <2>1 DEF CallInv, TypeInv, TypeOK
  <2>3. \A j \in Jobs, a \in Attempts :
            calls'[<<j, a>>] = IF <<j, a>> = q THEN 1 ELSE calls[<<j, a>>]
    BY <2>1, <2>2
  <2>4. \A v \in Workers : worker'[v].pc = "dispatched" => v # w /\ worker'[v] = worker[v]
    BY <1>0, <2>1 DEF Claim
  <2>5. \A v \in Workers : v # w /\ worker[v].pc = "dispatched" =>
            <<worker[v].job, worker[v].attempt>> # q
    BY <2>1 DEF CallInv
  <2>6. (\A j \in Jobs, a \in Attempts :
            calls[<<j, a>>] \in {0, 1} /\ (calls[<<j, a>>] = 1 => <<j, a>> \in spent))'
    BY <2>1, <2>2, <2>3 DEF CallInv
  <2>7. ASSUME NEW v \in Workers, worker'[v].pc = "dispatched"
        PROVE  /\ worker'[v].job \in Jobs /\ worker'[v].attempt \in Attempts
               /\ <<worker'[v].job, worker'[v].attempt>> \in spent'
               /\ calls'[<<worker'[v].job, worker'[v].attempt>>] = 0
    BY <2>1, <2>3, <2>4, <2>5, <2>7 DEF CallInv
  <2> QED BY <2>4, <2>6, <2>7 DEF CallInv
<1>7. ASSUME NEW w \in Workers, Stop(w) \/ Start(w) PROVE CallInv'
  BY <1>7, CallFrame DEF Stop, Start, historyVars
<1>8. CASE RecoverInterruptedJobs \/ UNCHANGED vars
  BY <1>8, CallFrame DEF RecoverInterruptedJobs, workVars, historyVars, vars
<1> QED
  BY <1>1, <1>2, <1>3, <1>4, <1>5, <1>6, <1>7, <1>8 DEF Next, WorkerStep

LEMMA CallInit == Init => CallInv
  BY DEF Init, CallInv, Idle

\* However often a job is claimed, recovered and claimed again, the provider is
\* called at most once for each attempt, and only after its credit was spent.
THEOREM OneProviderCall == Spec => []ProviderCalledOnce
<1>1. Spec => []CallInv
  BY CreditInvariant, CallInit, CallStep, PTL DEF Spec
<1>2. CallInv => ProviderCalledOnce
  <2> SUFFICES ASSUME CallInv, NEW j \in Jobs, NEW a \in Attempts
               PROVE  calls[<<j, a>>] <= 1 /\ (calls[<<j, a>>] = 1 => <<j, a>> \in spent)
    BY DEF ProviderCalledOnce
  <2>1. calls[<<j, a>>] \in {0, 1} /\ (calls[<<j, a>>] = 1 => <<j, a>> \in spent)
    BY DEF CallInv
  <2>2. calls[<<j, a>>] <= 1
    BY <2>1
  <2> QED BY <2>1, <2>2
<1> QED BY <1>1, <1>2, PTL

-----------------------------------------------------------------------------
(* What a step does to credits                                             *)

\* No job newly comes to owe a refund.
NoNewRefund == \A j \in Jobs : RefundDue(j)' => RefundDue(j)

\* Nothing is taken, spent or returned.
NoCreditMoves == UNCHANGED <<ledger, credit_balance, spent>> /\ NoNewRefund

\* A job takes a credit for an attempt that has no history.
TakesCredit(i, b) ==
    /\ Reserve(i, b) /\ UNCHANGED spent
    /\ ~Active(i) /\ job[i].status # "deleted" /\ b > job[i].attempt
    /\ \A j \in Jobs : RefundDue(j)' => RefundDue(j) \/ (j = i /\ Cost(i) = 1)

\* The current attempt of an active job is dispatched.
SpendsCredit(i) ==
    /\ UNCHANGED <<ledger, credit_balance>> /\ NoNewRefund
    /\ Active(i) /\ ~job[i].provider_dispatched
    /\ spent' = spent \cup {<<i, job[i].attempt>>}

\* The jobs S end without having been dispatched.
ReturnsCredits(S) ==
    /\ Refund(S) /\ UNCHANGED spent /\ NoNewRefund
    /\ \A j \in S : RefundDue(j) /\ ~RefundDue(j)'

CreditMoves ==
    \/ NoCreditMoves
    \/ \E i \in Jobs, b \in Attempts : TakesCredit(i, b)
    \/ \E i \in Jobs : SpendsCredit(i)
    \/ \E S \in SUBSET Jobs : ReturnsCredits(S)

\* A step that leaves the credit of every row as it is, or ends it.
LEMMA RowKeepsRefunds ==
    ASSUME TypeInv, NEW i \in Jobs, NEW row, job' = [job EXCEPT ![i] = row],
           row.reservation_active => job[i].reservation_active,
           row.provider_dispatched = job[i].provider_dispatched
    PROVE  NoNewRefund
  BY DEF NoNewRefund, RefundDue, TypeInv, TypeOK

\* A worker that ends its job by failing or cancelling.
LEMMA EndStepMoves ==
    ASSUME TypeInv, NEW w \in Workers, NEW status \in {"failed", "cancelled"},
           Holds(w), EndJob(worker[w].job, status)
    PROVE  CreditMoves
<1>1. PICK i \in Jobs : i = worker[w].job
  BY HoldsRunning
<1> DEFINE row == End(job[i], Preserved(i, status))
           S == IF RefundDue(i) THEN {i} ELSE {}
<1>2. job[i] \in JobRow /\ Preserved(i, status) \in Finished
  BY PreservedIsFinished DEF Finished, TypeInv, TypeOK
<1>3. job' = [job EXCEPT ![i] = row] /\ Refund(S) /\ UNCHANGED spent
  BY <1>1 DEF EndJob, historyVars
<1>4. row.reservation_active = FALSE /\ row.provider_dispatched = job[i].provider_dispatched
  BY <1>2, EndRow
<1> HIDE DEF row
<1>5. NoNewRefund /\ ~RefundDue(i)'
  <2>1. job'[i] = row
    BY <1>3 DEF TypeInv, TypeOK
  <2>2. NoNewRefund
    BY <1>3, <1>4, RowKeepsRefunds
  <2> QED BY <1>4, <2>1, <2>2 DEF RefundDue
<1>6. \A j \in S : RefundDue(j) /\ ~RefundDue(j)'
  BY <1>5
<1>7. S \in SUBSET Jobs /\ ReturnsCredits(S)
  BY <1>3, <1>5, <1>6 DEF ReturnsCredits
<1> QED BY <1>7 DEF CreditMoves

\* The steps of a customer.
LEMMA RequestMoves ==
    ASSUME TypeInv, CreditInv, NEW i \in Jobs, Request(i)
    PROVE  CreditMoves
<1>0. job[i] \in JobRow /\ CreditOK(i) /\ job \in [Jobs -> JobRow]
  BY DEF TypeInv, TypeOK, CreditInv
<1>1. CASE Create(i)
  <2> DEFINE row == [NoRow("queued") EXCEPT
                        !.created = Cardinality({k \in Jobs : job[k].status # "absent"}),
                        !.attempt = 1,
                        !.reservation_active = (Cost(i) = 1),
                        !.result_reservation_attempt = 1]
  <2>1. /\ Reserve(i, 1) /\ UNCHANGED spent
        /\ job' = [job EXCEPT ![i] = row]
        /\ job[i].status = "absent"
    BY <1>1 DEF Create, historyVars
  <2>2. 1 \in Attempts /\ ~Active(i) /\ 1 > job[i].attempt
    <3>1. job[i].attempt = 0 /\ ~Active(i)
      BY <1>0, <2>1 DEF CreditOK, Active
    <3> QED BY <3>1, ConstantsAssumption DEF Attempts, ConstantsAssumption
  <2>3. row.reservation_active = (Cost(i) = 1)
    BY DEF NoRow
  <2> HIDE DEF row
  <2>4. \A j \in Jobs : RefundDue(j)' => RefundDue(j) \/ (j = i /\ Cost(i) = 1)
    BY <1>0, <2>1, <2>3 DEF RefundDue
  <2>5. TakesCredit(i, 1)
    BY <2>1, <2>2, <2>4 DEF TakesCredit
  <2> QED BY <2>2, <2>5 DEF CreditMoves
<1>2. CASE Reprocess(i)
  <2> DEFINE b == job[i].attempt + 1
             row == [job[i] EXCEPT
                        !.status = "queued", !.attempt = b, !.recovery_count = 0,
                        !.cancel_requested = FALSE,
                        !.reservation_active = (Cost(i) = 1),
                        !.provider_dispatched = FALSE, !.worker_owner = NoWorker,
                        !.lease = "none", !.result_reservation_attempt = b]
  <2>1. /\ Reserve(i, b) /\ UNCHANGED spent /\ b <= MaxAttempts
        /\ job' = [job EXCEPT ![i] = row]
        /\ job[i].status \in Finished
    BY <1>2 DEF Reprocess, historyVars
  <2>2. b \in Attempts /\ b > job[i].attempt
    BY <1>0, <2>1, ConstantsAssumption DEF Attempts, JobRow, ConstantsAssumption
  <2>3. row.reservation_active = (Cost(i) = 1)
    BY <1>0 DEF JobRow
  <2> HIDE DEF row, b
  <2>4. \A j \in Jobs : RefundDue(j)' => RefundDue(j) \/ (j = i /\ Cost(i) = 1)
    BY <1>0, <2>1, <2>3 DEF RefundDue
  <2>5. TakesCredit(i, b)
    BY <2>1, <2>2, <2>4 DEF TakesCredit, Active, Finished
  <2> QED BY <2>2, <2>5 DEF CreditMoves
<1>3. CASE CancelQueued(i)
  <2> DEFINE row == End(job[i], Preserved(i, "cancelled"))
             S == IF job[i].reservation_active THEN {i} ELSE {}
  <2>1. /\ job' = [job EXCEPT ![i] = row] /\ Refund(S) /\ UNCHANGED spent
        /\ job[i].status = "queued"
    BY <1>3 DEF CancelQueued, historyVars
  <2>2. Preserved(i, "cancelled") \in Finished
    BY PreservedIsFinished DEF Finished
  <2>3. row.reservation_active = FALSE /\ row.provider_dispatched = job[i].provider_dispatched
    BY <1>0, <2>2, EndRow
  <2> HIDE DEF row
  <2>4. NoNewRefund /\ ~RefundDue(i)'
    <3>1. job'[i] = row
      BY <1>0, <2>1
    <3> QED BY <2>1, <2>3, <3>1, RowKeepsRefunds DEF RefundDue
  <2>5. \A j \in S : RefundDue(j) /\ ~RefundDue(j)'
    BY <1>0, <2>1, <2>4 DEF RefundDue, CreditOK
  <2>6. S \in SUBSET Jobs /\ ReturnsCredits(S)
    BY <2>1, <2>4, <2>5 DEF ReturnsCredits
  <2> QED BY <2>6 DEF CreditMoves
<1>4. CASE CancelRunning(i)
  <2> DEFINE row == [job[i] EXCEPT !.cancel_requested = TRUE]
  <2>1. job' = [job EXCEPT ![i] = row] /\ UNCHANGED <<ledger, credit_balance, spent>>
    BY <1>4 DEF CancelRunning, creditVars, historyVars
  <2>2. /\ row.reservation_active = job[i].reservation_active
        /\ row.provider_dispatched = job[i].provider_dispatched
    BY <1>0 DEF JobRow
  <2> HIDE DEF row
  <2> QED BY <2>1, <2>2, RowKeepsRefunds DEF NoCreditMoves, CreditMoves
<1>5. ASSUME NEW v \in DOMAIN result_versions[i], StoreCorrection(i, v)
      PROVE  CreditMoves
  <2> DEFINE row == [job[i] EXCEPT !.status = "review", !.approved = FALSE]
  <2>1. job' = [job EXCEPT ![i] = row] /\ UNCHANGED <<ledger, credit_balance, spent>>
    BY <1>5 DEF StoreCorrection, creditVars, historyVars
  <2>2. /\ row.reservation_active = job[i].reservation_active
        /\ row.provider_dispatched = job[i].provider_dispatched
    BY <1>0 DEF JobRow
  <2> HIDE DEF row
  <2> QED BY <2>1, <2>2, RowKeepsRefunds DEF NoCreditMoves, CreditMoves
<1>6. CASE Approve(i)
  <2> DEFINE row == [job[i] EXCEPT !.status = "approved", !.approved = TRUE]
  <2>1. job' = [job EXCEPT ![i] = row] /\ UNCHANGED <<ledger, credit_balance, spent>>
    BY <1>6 DEF Approve, creditVars, historyVars
  <2>2. /\ row.reservation_active = job[i].reservation_active
        /\ row.provider_dispatched = job[i].provider_dispatched
    BY <1>0 DEF JobRow
  <2> HIDE DEF row
  <2> QED BY <2>1, <2>2, RowKeepsRefunds DEF NoCreditMoves, CreditMoves
<1>7. CASE Delete(i)
  <2>1. /\ job' = [job EXCEPT ![i] = NoRow("deleted")]
        /\ UNCHANGED <<ledger, credit_balance, spent>>
    BY <1>7 DEF Delete, creditVars, historyVars
  <2>2. NoNewRefund
    BY <1>0, <2>1 DEF NoNewRefund, RefundDue, NoRow
  <2> QED BY <2>1, <2>2 DEF NoCreditMoves, CreditMoves
<1> QED BY <1>1, <1>2, <1>3, <1>4, <1>5, <1>6, <1>7 DEF Request

\* A step that leaves the rows and the credits alone.
LEMMA IdleMoves ==
    ASSUME UNCHANGED <<job, ledger, credit_balance, spent>>
    PROVE  CreditMoves
  BY DEF CreditMoves, NoCreditMoves, NoNewRefund, RefundDue

\* The steps of a worker that holds a job.
LEMMA WorkerStepMoves ==
    ASSUME TypeInv, CreditInv, NEW w \in Workers, WorkerStep(w)
    PROVE  CreditMoves
<1> DEFINE i == worker[w].job
<1>0. job \in [Jobs -> JobRow]
  BY DEF TypeInv, TypeOK
<1>1. CASE CancelClaimed(w)
  BY <1>1, EndStepMoves DEF CancelClaimed
<1>2. CASE ReleaseForShutdown(w)
  <2> DEFINE row == [job[i] EXCEPT !.status = "queued", !.worker_owner = NoWorker,
                                   !.lease = "none"]
  <2>1. /\ Holds(w) /\ job' = [job EXCEPT ![i] = row]
        /\ UNCHANGED <<ledger, credit_balance, spent>>
    BY <1>2 DEF ReleaseForShutdown, creditVars, historyVars
  <2>2. i \in Jobs /\ job[i] \in JobRow
    BY <2>1, HoldsRunning
  <2>3. /\ row.reservation_active = job[i].reservation_active
        /\ row.provider_dispatched = job[i].provider_dispatched
    BY <2>2 DEF JobRow
  <2> HIDE DEF row, i
  <2> QED BY <2>1, <2>2, <2>3, RowKeepsRefunds DEF NoCreditMoves, CreditMoves
<1>3. CASE Progress(w) \/ CallProvider(w) \/ ProviderAnswers(w) \/ DropStaleClaim(w)
  BY <1>3, IdleMoves
  DEF Progress, CallProvider, ProviderAnswers, DropStaleClaim, SameTables,
      creditVars, historyVars
<1>4. CASE CancelReady(w)
  BY <1>4, EndStepMoves DEF CancelReady
<1>5. CASE RefuseDispatch(w)
  BY <1>5, EndStepMoves DEF RefuseDispatch, StillWanted
<1>6. CASE Dispatch(w)
  <2> DEFINE row == [job[i] EXCEPT !.provider_dispatched = TRUE]
  <2>1. /\ Holds(w) /\ ~job[i].provider_dispatched
        /\ job' = [job EXCEPT ![i] = row]
        /\ spent' = spent \cup {<<i, worker[w].attempt>>}
        /\ UNCHANGED <<ledger, credit_balance>>
    BY <1>6 DEF Dispatch, StillWanted, creditVars
  <2>2. /\ i \in Jobs /\ job[i] \in JobRow /\ job[i].status = "running"
        /\ worker[w].attempt = job[i].attempt
    BY <2>1, HoldsRunning
  <2>3. row.provider_dispatched = TRUE
    BY <2>2 DEF JobRow
  <2> HIDE DEF row, i
  <2>4. NoNewRefund
    BY <1>0, <2>1, <2>2, <2>3 DEF NoNewRefund, RefundDue
  <2>5. SpendsCredit(i)
    BY <2>1, <2>2, <2>4 DEF SpendsCredit, Active
  <2> QED BY <2>2, <2>5 DEF CreditMoves
<1>7. CASE CancelAnswered(w)
  BY <1>7, EndStepMoves DEF CancelAnswered
<1>8. CASE Publish(w)
  <2> DEFINE done == End(job[i], "review")
             row == [done EXCEPT !.approved = FALSE]
  <2>1. /\ Holds(w) /\ job' = [job EXCEPT ![i] = row]
        /\ UNCHANGED <<ledger, credit_balance, spent>>
    BY <1>8 DEF Publish, StillWanted, creditVars, historyVars
  <2>2. i \in Jobs /\ job[i] \in JobRow
    BY <2>1, HoldsRunning
  <2>3. /\ row.reservation_active = FALSE
        /\ row.provider_dispatched = job[i].provider_dispatched
    <3>1. /\ done \in JobRow /\ done.reservation_active = FALSE
          /\ done.provider_dispatched = job[i].provider_dispatched
      BY <2>2, EndRow DEF Finished
    <3> HIDE DEF done
    <3> QED BY <3>1 DEF JobRow
  <2> HIDE DEF row, i
  <2> QED BY <2>1, <2>2, <2>3, RowKeepsRefunds DEF NoCreditMoves, CreditMoves
<1>9. CASE FinishFailed(w)
  BY <1>9, EndStepMoves DEF FinishFailed
<1> QED
  BY <1>1, <1>2, <1>3, <1>4, <1>5, <1>6, <1>7, <1>8, <1>9 DEF WorkerStep

\* Recovery returns the credits of the jobs it gives up undispatched.
LEMMA RecoveryMoves ==
    ASSUME TypeInv, RecoverInterruptedJobs
    PROVE  CreditMoves
<1> DEFINE S == {i \in Jobs : GivenUp(i) /\ RefundDue(i)}
<1>1. Refund(S) /\ UNCHANGED spent /\ job' = [i \in Jobs |-> Recovered(i)]
  BY DEF RecoverInterruptedJobs, historyVars
<1>2. ASSUME NEW j \in Jobs
      PROVE  /\ RefundDue(j)' => RefundDue(j)
             /\ GivenUp(j) => ~RefundDue(j)'
  <2>1. job'[j] = Recovered(j) /\ job[j] \in JobRow
    BY <1>1 DEF TypeInv, TypeOK
  <2>2. CASE Requeued(j)
    <3> DEFINE row == [job[j] EXCEPT !.status = "queued", !.recovery_count = @ + 1,
                                     !.worker_owner = NoWorker, !.lease = "none"]
    <3>1. job'[j] = row /\ ~GivenUp(j)
      BY <2>1, <2>2 DEF Recovered, GivenUp
    <3>2. /\ row.reservation_active = job[j].reservation_active
          /\ row.provider_dispatched = job[j].provider_dispatched
      BY <2>1 DEF JobRow
    <3> HIDE DEF row
    <3> QED BY <3>1, <3>2 DEF RefundDue
  <2>3. CASE GivenUp(j)
    <3> DEFINE final == Preserved(j, Reason(j))
    <3>1. job'[j] = End(job[j], final)
      BY <2>1, <2>3 DEF Recovered, GivenUp
    <3>2. final \in Finished
      BY PreservedIsFinished DEF Reason, Finished
    <3> HIDE DEF final
    <3>3. End(job[j], final).reservation_active = FALSE
      BY <2>1, <3>2, EndRow
    <3> QED BY <3>1, <3>3 DEF RefundDue
  <2>4. CASE ~Requeued(j) /\ ~GivenUp(j)
    BY <2>1, <2>4 DEF Recovered, RefundDue
  <2> QED BY <2>2, <2>3, <2>4
<1>3. S \in SUBSET Jobs /\ ReturnsCredits(S)
  BY <1>1, <1>2 DEF ReturnsCredits, NoNewRefund
<1> QED BY <1>3 DEF CreditMoves

\* Every step of the service moves credits in one of these ways.
LEMMA StepMovesCredits == TypeInv /\ CreditInv /\ [Next]_vars => CreditMoves
<1> SUFFICES ASSUME TypeInv, CreditInv, [Next]_vars PROVE CreditMoves
  OBVIOUS
<1>1. ASSUME NEW i \in Jobs, Request(i) PROVE CreditMoves
  BY <1>1, RequestMoves
<1>2. ASSUME NEW i \in Jobs, LeaseExpires(i) PROVE CreditMoves
  <2> DEFINE row == [job[i] EXCEPT !.lease = "expired"]
  <2>1. /\ job[i] \in JobRow /\ job' = [job EXCEPT ![i] = row]
        /\ UNCHANGED <<ledger, credit_balance, spent>>
    BY <1>2 DEF LeaseExpires, TypeInv, TypeOK, creditVars, historyVars
  <2>2. /\ row.reservation_active = job[i].reservation_active
        /\ row.provider_dispatched = job[i].provider_dispatched
    BY <2>1 DEF JobRow
  <2> HIDE DEF row
  <2> QED BY <2>1, <2>2, RowKeepsRefunds DEF NoCreditMoves, CreditMoves
<1>3. ASSUME NEW w \in Workers, NEW i \in Jobs, ClaimNextJob(w, i) PROVE CreditMoves
  <2> DEFINE row == [job[i] EXCEPT !.status = "running", !.worker_owner = w,
                                   !.lease_generation = job[i].lease_generation + 1,
                                   !.lease = "live"]
  <2>1. /\ job[i] \in JobRow /\ job' = [job EXCEPT ![i] = row]
        /\ UNCHANGED <<ledger, credit_balance, spent>>
    BY <1>3 DEF ClaimNextJob, TypeInv, TypeOK, creditVars, historyVars
  <2>2. /\ row.reservation_active = job[i].reservation_active
        /\ row.provider_dispatched = job[i].provider_dispatched
    BY <2>1 DEF JobRow
  <2> HIDE DEF row
  <2> QED BY <2>1, <2>2, RowKeepsRefunds DEF NoCreditMoves, CreditMoves
<1>4. ASSUME NEW w \in Workers, WorkerStep(w) PROVE CreditMoves
  BY <1>4, WorkerStepMoves
<1>5. ASSUME NEW w \in Workers, Fault(w) \/ Crash(w) \/ Stop(w) \/ Start(w)
      PROVE  CreditMoves
  BY <1>5, IdleMoves
  DEF Fault, Crash, Stop, Start, SameTables, creditVars, historyVars
<1>6. CASE RecoverInterruptedJobs
  BY <1>6, RecoveryMoves
<1>7. CASE UNCHANGED vars
  BY <1>7, IdleMoves DEF vars
<1> QED
  BY <1>1, <1>2, <1>3, <1>4, <1>5, <1>6, <1>7 DEF Next

-----------------------------------------------------------------------------
(* The room of the ledger                                                  *)

\* RefundsFit is about cardinalities, which only finite sets have.
RoomInv == IsFiniteSet(ledger) /\ RefundsFit

\* The refund keys of the jobs S of account u, and those not yet recorded.
DueKeys(S, u) ==
    {[kind |-> "refund", job |-> j, attempt |-> job[j].attempt] :
        j \in {i \in S : Owner[i] = u}}
NewKeys(S, u) == DueKeys(S, u) \ ledger

\* Sets of jobs and sets of ledger rows are finite.
LEMMA FiniteEntries ==
    ASSUME IsFiniteSet(ledger), NEW u
    PROVE  IsFiniteSet(Entries(u)) /\ Cardinality(Entries(u)) \in Nat
<1>1. Entries(u) \in SUBSET ledger
  BY DEF Entries
<1> QED BY <1>1, FS_Subset, FS_CardinalityType

LEMMA FiniteJobs ==
    ASSUME NEW S \in SUBSET Jobs
    PROVE  IsFiniteSet(S) /\ Cardinality(S) \in Nat
  BY FS_Subset, FS_CardinalityType, ConstantsAssumption DEF ConstantsAssumption

\* There are no more refund keys than jobs, and as many when none is recorded.
LEMMA KeysPerJob ==
    ASSUME NEW S \in SUBSET Jobs, NEW u
    PROVE  LET T == {i \in S : Owner[i] = u}
           IN  /\ IsFiniteSet(NewKeys(S, u))
               /\ Cardinality(NewKeys(S, u)) \in Nat
               /\ Cardinality(NewKeys(S, u)) <= Cardinality(T)
               /\ DueKeys(S, u) \cap ledger = {}
                    => Cardinality(NewKeys(S, u)) = Cardinality(T)
<1> DEFINE T == {i \in S : Owner[i] = u}
           D == DueKeys(S, u)
           f == [j \in T |-> [kind |-> "refund", job |-> j, attempt |-> job[j].attempt]]
<1>1. IsFiniteSet(T)
  BY FS_Subset, ConstantsAssumption DEF ConstantsAssumption
<1>2. D = {f[j] : j \in T}
  BY DEF DueKeys
<1>3. \A j \in T : f[j].job = j
  OBVIOUS
<1>4. f \in Surjection(T, D) /\ f \in Injection(T, D)
  <2>1. f \in [T -> D]
    BY <1>2
  <2>2. \A d \in D : \E j \in T : f[j] = d
    BY <1>2
  <2>3. \A i, j \in T : f[i] = f[j] => i = j
    BY <1>3
  <2> HIDE DEF f, D, T
  <2> QED BY <2>1, <2>2, <2>3 DEF Surjection, Injection, IsInjective
<1> HIDE DEF f, T
<1>5. IsFiniteSet(D) /\ Cardinality(D) = Cardinality(T) /\ Cardinality(D) \in Nat
  BY <1>1, <1>4, FS_Surjection, FS_CardinalityType
<1>6. NewKeys(S, u) \in SUBSET D
  BY DEF NewKeys
<1>7. /\ IsFiniteSet(NewKeys(S, u))
      /\ Cardinality(NewKeys(S, u)) <= Cardinality(D)
      /\ Cardinality(NewKeys(S, u)) \in Nat
  BY <1>5, <1>6, FS_Subset, FS_CardinalityType
<1>8. D \cap ledger = {} => NewKeys(S, u) = D
  BY DEF NewKeys
<1>9. /\ IsFiniteSet(NewKeys(S, u))
      /\ Cardinality(NewKeys(S, u)) \in Nat
      /\ Cardinality(NewKeys(S, u)) <= Cardinality(T)
      /\ D \cap ledger = {} => Cardinality(NewKeys(S, u)) = Cardinality(T)
  BY <1>5, <1>7, <1>8
<1> QED BY <1>9 DEF T

\* Refund in terms of the keys of each account.
LEMMA RefundKeys ==
    ASSUME NEW S \in SUBSET Jobs, Refund(S)
    PROVE  /\ \A u \in Users : NewKeys(S, u) # {} =>
                 Cardinality(Entries(u)) + Cardinality(NewKeys(S, u)) <= MaxLedger
           /\ \A u \in Users : Entries(u)' = Entries(u) \cup NewKeys(S, u)
           /\ credit_balance' =
                 [u \in Users |-> credit_balance[u] + Cardinality(NewKeys(S, u))]
           /\ ledger' = ledger \cup
                 {[kind |-> "refund", job |-> j, attempt |-> job[j].attempt] : j \in S}
<1> DEFINE due == {[kind |-> "refund", job |-> j, attempt |-> job[j].attempt] : j \in S}
           new(u) == {e \in due \ ledger : Owner[e.job] = u}
<1>1. \A u : new(u) = NewKeys(S, u)
  BY DEF NewKeys, DueKeys
<1>2. /\ \A u \in Users :
             new(u) # {} => Cardinality(Entries(u)) + Cardinality(new(u)) <= MaxLedger
      /\ ledger' = ledger \cup due
      /\ credit_balance' = [u \in Users |-> credit_balance[u] + Cardinality(new(u))]
  BY DEF Refund
<1>3. \A u \in Users : Entries(u)' = Entries(u) \cup new(u)
  BY <1>2 DEF Entries
<1> HIDE DEF new
<1> QED BY <1>1, <1>2, <1>3

\* The four ways to move credits keep the room for refunds.
LEMMA RoomStep == RoomInv /\ CreditMoves => RoomInv'
<1> SUFFICES ASSUME RoomInv, CreditMoves PROVE RoomInv'
  OBVIOUS
<1>0. /\ MaxLedger \in Nat /\ IsFiniteSet(ledger)
      /\ \A u : Refundable(u) \in SUBSET Jobs /\ Refundable(u)' \in SUBSET Jobs
      /\ Owner \in [Jobs -> Users]
  BY ConstantsAssumption DEF ConstantsAssumption, Refundable, RoomInv
<1>1. ASSUME NEW u \in Users, NoNewRefund
      PROVE  /\ Cardinality(Refundable(u)') \in Nat
             /\ Cardinality(Refundable(u)') <= Cardinality(Refundable(u))
  <2>1. Refundable(u)' \in SUBSET Refundable(u)
    BY <1>1 DEF Refundable, NoNewRefund
  <2> QED BY <1>0, <2>1, FiniteJobs, FS_Subset
<1>2. CASE UNCHANGED ledger /\ NoNewRefund
  <2> SUFFICES ASSUME NEW u \in Users
               PROVE  Cardinality(Entries(u)') + Cardinality(Refundable(u)') <= MaxLedger
    BY <1>0, <1>2 DEF RoomInv, RefundsFit
  <2>1. Entries(u)' = Entries(u)
    BY <1>2 DEF Entries
  <2>2. Cardinality(Entries(u)) + Cardinality(Refundable(u)) <= MaxLedger
    BY DEF RoomInv, RefundsFit
  <2> QED BY <1>0, <1>1, <1>2, <2>1, <2>2, FiniteEntries, FiniteJobs
<1>3. ASSUME NEW i \in Jobs, NEW b \in Attempts, TakesCredit(i, b)
      PROVE  RoomInv'
  <2>1. CASE Cost(i) = 0
    <3>1. UNCHANGED ledger /\ NoNewRefund
      BY <1>3, <2>1 DEF TakesCredit, Reserve, NoNewRefund, creditVars
    <3> QED BY <1>2, <3>1
  <2>2. CASE Cost(i) # 0
    <3> DEFINE key == [kind |-> "reserve", job |-> i, attempt |-> b]
               o == Owner[i]
    <3>1. /\ Cardinality(Entries(o)) + 1 + Cardinality(Refundable(o) \cup {i}) <= MaxLedger
          /\ ledger' = ledger \cup {key}
      BY <1>3, <2>2 DEF TakesCredit, Reserve
    <3>2. IsFiniteSet(ledger')
      BY <1>0, <3>1, FS_AddElement
    <3> SUFFICES ASSUME NEW u \in Users
                 PROVE  Cardinality(Entries(u)') + Cardinality(Refundable(u)') <= MaxLedger
      BY <3>2 DEF RoomInv, RefundsFit
    <3>3. key.job = i
      OBVIOUS
    <3> HIDE DEF key
    <3>4. CASE u = o
      <4>1. Entries(u)' = Entries(u) \cup {key}
        BY <3>1, <3>3, <3>4 DEF Entries
      <4>2. /\ Cardinality(Entries(u)') <= Cardinality(Entries(u)) + 1
            /\ Cardinality(Entries(u)') \in Nat /\ Cardinality(Entries(u)) \in Nat
        <5>1. IsFiniteSet(Entries(u)) /\ Cardinality(Entries(u)) \in Nat
          BY <1>0, FiniteEntries
        <5>2. Cardinality(Entries(u) \cup {key}) =
                 IF key \in Entries(u) THEN Cardinality(Entries(u))
                 ELSE Cardinality(Entries(u)) + 1
          BY <5>1, FS_AddElement
        <5> QED BY <4>1, <5>1, <5>2
      <4>3. Refundable(u)' \in SUBSET (Refundable(u) \cup {i})
        BY <1>3 DEF TakesCredit, Refundable
      <4>4. Refundable(u) \cup {i} \in SUBSET Jobs
        BY <1>0
      <4>5. /\ Cardinality(Refundable(u)') <= Cardinality(Refundable(u) \cup {i})
            /\ Cardinality(Refundable(u)') \in Nat
            /\ Cardinality(Refundable(u) \cup {i}) \in Nat
        BY <1>0, <4>3, <4>4, FiniteJobs, FS_Subset
      <4> QED BY <1>0, <3>1, <3>4, <4>2, <4>5
    <3>5. CASE u # o
      <4>1. Entries(u)' = Entries(u)
        BY <3>1, <3>3, <3>5 DEF Entries
      <4>2. Refundable(u)' \in SUBSET Refundable(u)
        BY <1>3, <3>5 DEF TakesCredit, Refundable
      <4>3. /\ Cardinality(Refundable(u)') <= Cardinality(Refundable(u))
            /\ Cardinality(Refundable(u)') \in Nat /\ Cardinality(Refundable(u)) \in Nat
            /\ Cardinality(Entries(u)) \in Nat
        BY <1>0, <4>2, FiniteEntries, FiniteJobs, FS_Subset
      <4>4. Cardinality(Entries(u)) + Cardinality(Refundable(u)) <= MaxLedger
        BY DEF RoomInv, RefundsFit
      <4> QED BY <1>0, <4>1, <4>3, <4>4
    <3> QED BY <3>4, <3>5
  <2> QED BY <2>1, <2>2
<1>4. ASSUME NEW S \in SUBSET Jobs, ReturnsCredits(S)
      PROVE  RoomInv'
  <2>1. /\ \A u \in Users : Entries(u)' = Entries(u) \cup NewKeys(S, u)
        /\ ledger' = ledger \cup
              {[kind |-> "refund", job |-> j, attempt |-> job[j].attempt] : j \in S}
        /\ \A j \in S : RefundDue(j) /\ ~RefundDue(j)'
        /\ NoNewRefund
    BY <1>4, RefundKeys DEF ReturnsCredits
  <2>2. IsFiniteSet(ledger')
    <3> DEFINE due == {[kind |-> "refund", job |-> j, attempt |-> job[j].attempt] : j \in S}
               f == [j \in S |-> [kind |-> "refund", job |-> j, attempt |-> job[j].attempt]]
    <3>1. f \in Surjection(S, due)
      BY DEF Surjection
    <3>2. IsFiniteSet(S)
      BY FiniteJobs
    <3> HIDE DEF f, due
    <3>3. IsFiniteSet(due)
      BY <3>1, <3>2, FS_Surjection
    <3>4. ledger' = ledger \cup due
      BY <2>1 DEF due
    <3> QED BY <1>0, <3>3, <3>4, FS_Union
  <2> SUFFICES ASSUME NEW u \in Users
               PROVE  Cardinality(Entries(u)') + Cardinality(Refundable(u)') <= MaxLedger
    BY <2>2 DEF RoomInv, RefundsFit
  <2> DEFINE T == {j \in S : Owner[j] = u}
  <2>3. /\ T \in SUBSET Refundable(u)
        /\ Refundable(u)' \in SUBSET (Refundable(u) \ T)
    BY <2>1 DEF Refundable, NoNewRefund
  <2>4. T \in SUBSET Jobs /\ Refundable(u) \ T \in SUBSET Jobs
    BY <1>0, <2>3
  <2>5. /\ IsFiniteSet(NewKeys(S, u))
        /\ Cardinality(NewKeys(S, u)) \in Nat
        /\ Cardinality(NewKeys(S, u)) <= Cardinality(T)
    BY KeysPerJob
  <2> HIDE DEF T
  <2>6. Cardinality(Refundable(u) \ T) = Cardinality(Refundable(u)) - Cardinality(T)
    <3>1. Refundable(u) \cap T = T
      BY <2>3
    <3> QED BY <1>0, <2>4, <3>1, FiniteJobs, FS_Difference
  <2>7. Cardinality(Refundable(u)') <= Cardinality(Refundable(u) \ T)
    BY <1>0, <2>3, <2>4, FiniteJobs, FS_Subset
  <2>8. /\ Cardinality(Entries(u)') <= Cardinality(Entries(u)) + Cardinality(NewKeys(S, u))
        /\ Cardinality(Entries(u)') \in Nat
    <3> DEFINE E == Entries(u)
               K == NewKeys(S, u)
    <3>1. IsFiniteSet(E) /\ Cardinality(E) \in Nat
      BY <1>0, FiniteEntries
    <3>2. Entries(u)' = E \cup K
      BY <2>1
    <3> HIDE DEF E, K
    <3>3. /\ Cardinality(E \cup K) = Cardinality(E) + Cardinality(K) - Cardinality(E \cap K)
          /\ Cardinality(E \cup K) \in Nat /\ Cardinality(E \cap K) \in Nat
      BY <2>5, <3>1, FS_Union, FS_Intersection, FS_CardinalityType DEF K
    <3> QED BY <2>5, <3>1, <3>2, <3>3 DEF E, K
  <2>9. Cardinality(Entries(u)) + Cardinality(Refundable(u)) <= MaxLedger
    BY DEF RoomInv, RefundsFit
  <2>10. /\ Cardinality(Entries(u)) \in Nat /\ Cardinality(T) \in Nat
         /\ Cardinality(Refundable(u)) \in Nat
         /\ Cardinality(Refundable(u)') \in Nat
    BY <1>0, <2>4, FiniteEntries, FiniteJobs
  <2> QED BY <1>0, <2>5, <2>6, <2>7, <2>8, <2>9, <2>10
<1>5. ASSUME NEW i \in Jobs, SpendsCredit(i) PROVE RoomInv'
  BY <1>2, <1>5 DEF SpendsCredit
<1> QED BY <1>2, <1>3, <1>4, <1>5 DEF CreditMoves, NoCreditMoves

LEMMA RoomInit == Init => RoomInv
<1> SUFFICES ASSUME Init, NEW u \in Users
             PROVE  Cardinality(Entries(u)) + Cardinality(Refundable(u)) <= MaxLedger
  BY FS_EmptySet DEF Init, RoomInv, RefundsFit
<1>1. Entries(u) = {} /\ Refundable(u) = {}
  BY DEF Init, Entries, Refundable, RefundDue, NoRow
<1> QED BY <1>1, FS_EmptySet, ConstantsAssumption DEF ConstantsAssumption

\* The ledger of every account has room for each refund it may still have to
\* record, whatever is created, cancelled, failed and recovered together.
THEOREM RefundsAlwaysFit == Spec => []RefundsFit
<1>1. RoomInv => RefundsFit
  BY DEF RoomInv
<1> QED BY <1>1, CreditInvariant, StepMovesCredits, RoomInit, RoomStep, PTL DEF Spec

-----------------------------------------------------------------------------
(* The refinement of CreditAccount                                         *)

\* The fate of every credit, as the refinement mapping has it.
fates == [j \in Jobs |-> [a \in Attempts |-> CreditFate(j, a)]]

\* In a reachable state the fates are told by the rows as well.
LEMMA FateCases ==
    ASSUME CreditInv, NEW j \in Jobs, NEW a \in Attempts
    PROVE  /\ CreditFate(j, a) = "held" <=> j \notin FreeJobs /\ Held(j, a)
           /\ j \in FreeJobs => CreditFate(j, a) = "none"
           /\ <<j, a>> \in spent /\ j \notin FreeJobs => CreditFate(j, a) = "spent"
           /\ job[j].status # "deleted" /\ a > job[j].attempt
                => CreditFate(j, a) = "none"
<1>1. OneFate(j, a) /\ CreditOK(j)
  BY DEF CreditInv, CreditOK
<1>2. Held(j, a) => j \notin FreeJobs
  BY <1>1 DEF CreditOK, Held, RefundDue
<1> QED BY <1>1, <1>2 DEF CreditFate, OneFate, CreditOK

\* A fate changes only when the history of its credit does.
LEMMA FateFrame ==
    ASSUME NEW j \in Jobs, NEW a \in Attempts,
           Refunded(j, a)' <=> Refunded(j, a),
           Reserved(j, a)' <=> Reserved(j, a),
           <<j, a>> \in spent' <=> <<j, a>> \in spent
    PROVE  CreditFate(j, a)' = CreditFate(j, a)
  BY DEF CreditFate

\* A reserved credit is one taken, and none is taken for the saved fixture.
LEMMA TakesAreTaken ==
    ASSUME TypeInv, CreditInv, NEW i \in Jobs, NEW b \in Attempts, TakesCredit(i, b)
    PROVE  Account!Take(i, b) \/ UNCHANGED <<fates, credit_balance>>
<1>1. /\ Reserve(i, b) /\ UNCHANGED spent
      /\ ~Active(i) /\ job[i].status # "deleted" /\ b > job[i].attempt
      /\ job[i].attempt \in Nat
  BY DEF TakesCredit, TypeInv, TypeOK, JobRow
<1>2. \A j \in Jobs, a \in Attempts :
          /\ Refunded(j, a)' <=> Refunded(j, a)
          /\ Reserved(j, a)' <=>
                Reserved(j, a) \/ (j = i /\ a = b /\ i \notin FreeJobs)
          /\ <<j, a>> \in spent' <=> <<j, a>> \in spent
  BY <1>1, ReserveEffect
<1>3. CASE i \in FreeJobs
  <2>1. \A j \in Jobs, a \in Attempts : CreditFate(j, a)' = CreditFate(j, a)
    BY <1>2, <1>3, FateFrame
  <2>2. UNCHANGED credit_balance
    BY <1>1, <1>3 DEF Reserve, Cost, creditVars
  <2> QED BY <2>1, <2>2 DEF fates
<1>4. CASE i \notin FreeJobs
  <2>1. \A a \in Attempts : fates[i][a] # "held"
    BY <1>1, FateCases DEF fates, Held
  <2>2. \A a \in Attempts : a >= b => fates[i][a] = "none"
    <3>1. \A a \in Attempts : a >= b => a > job[i].attempt
      BY <1>1 DEF Attempts
    <3> QED BY <1>1, <3>1, FateCases DEF fates
  <2>3. credit_balance[Owner[i]] >= 1
        /\ credit_balance' = [credit_balance EXCEPT ![Owner[i]] = @ - 1]
    BY <1>1, <1>4 DEF Reserve, Cost
  <2>4. fates' = [fates EXCEPT ![i][b] = "held"]
    <3>1. CreditFate(i, b) = "none" /\ CreditFate(i, b)' = "held"
      <4>1. CreditFate(i, b) = "none" /\ ~Refunded(i, b) /\ <<i, b>> \notin spent
        BY <1>1, FateCases DEF CreditInv, CreditOK
      <4> QED BY <1>2, <1>4, <4>1 DEF CreditFate
    <3>2. ASSUME NEW j \in Jobs, NEW a \in Attempts, j # i \/ a # b
          PROVE  CreditFate(j, a)' = CreditFate(j, a)
      BY <1>2, <3>2, FateFrame
    <3> QED BY <3>1, <3>2 DEF fates
  <2>5. Owner[i] \in Users
    BY ConstantsAssumption DEF ConstantsAssumption
  <2> QED BY <2>1, <2>2, <2>3, <2>4, <2>5 DEF Account!Take, Account!HeldBy, fates
<1> QED BY <1>3, <1>4

\* A committed dispatch spends the held credit.
LEMMA SpendsAreSpent ==
    ASSUME TypeInv, CreditInv, NEW i \in Jobs, SpendsCredit(i)
    PROVE  \/ \E b \in Attempts : Account!Spend(i, b)
           \/ UNCHANGED <<fates, credit_balance>>
<1>1. PICK b \in Attempts : b = job[i].attempt
  BY AttemptInRange DEF SpendsCredit
<1>2. \A j \in Jobs, a \in Attempts :
          /\ Refunded(j, a)' <=> Refunded(j, a)
          /\ Reserved(j, a)' <=> Reserved(j, a)
          /\ <<j, a>> \in spent' <=> <<j, a>> \in spent \/ (j = i /\ a = b)
  BY <1>1 DEF SpendsCredit, Refunded, Reserved
<1>3. UNCHANGED credit_balance
  BY DEF SpendsCredit
<1>4. CASE i \in FreeJobs
  <2>1. \A j \in Jobs, a \in Attempts : CreditFate(j, a)' = CreditFate(j, a)
    BY <1>2, <1>4 DEF CreditFate, Refunded, Reserved
  <2> QED BY <1>3, <2>1 DEF fates
<1>5. CASE i \notin FreeJobs
  <2>1. fates[i][b] = "held"
    <3>1. Held(i, b)
      BY <1>1, <1>5 DEF CreditInv, CreditOK, SpendsCredit, Held, RefundDue
    <3> QED BY <1>5, <3>1, FateCases DEF fates
  <2>2. fates' = [fates EXCEPT ![i][b] = "spent"]
    <3>1. CreditFate(i, b)' = "spent"
      BY <1>2, <1>5 DEF CreditFate
    <3>2. ASSUME NEW j \in Jobs, NEW a \in Attempts, j # i \/ a # b
          PROVE  CreditFate(j, a)' = CreditFate(j, a)
      BY <1>2, <3>2, FateFrame
    <3> QED BY <3>1, <3>2 DEF fates
  <2> QED BY <1>3, <2>1, <2>2 DEF Account!Spend, fates
<1> QED BY <1>4, <1>5

\* The instance of CreditAccount counts as this module does.
LEMMA SameCardinality == \A S : Account!Cardinality(S) = Cardinality(S)
  BY Zenon DEF Account!Cardinality, Cardinality

\* A refund gives back exactly the held credits of its jobs.
LEMMA ReturnsAreGivenBack ==
    ASSUME TypeInv, CreditInv, NEW S \in SUBSET Jobs, ReturnsCredits(S)
    PROVE  Account!GiveBack(S) \/ UNCHANGED <<fates, credit_balance>>
<1>1. /\ Refund(S) /\ UNCHANGED spent
      /\ \A j \in S : RefundDue(j)
  BY DEF ReturnsCredits
<1>2. \A j \in Jobs, a \in Attempts :
          /\ Refunded(j, a)' <=> Refunded(j, a) \/ (j \in S /\ a = job[j].attempt)
          /\ Reserved(j, a)' <=> Reserved(j, a)
          /\ <<j, a>> \in spent' <=> <<j, a>> \in spent
  BY <1>1, RefundEffect
<1>3. ASSUME NEW j \in S
      PROVE  /\ j \in Jobs /\ j \notin FreeJobs /\ Active(j)
             /\ job[j].attempt \in Attempts /\ Held(j, job[j].attempt)
             /\ ~Refunded(j, job[j].attempt)
  <2>1. j \in Jobs /\ RefundDue(j) /\ CreditOK(j)
    BY <1>1 DEF CreditInv
  <2>2. j \notin FreeJobs /\ Active(j) /\ ~Refunded(j, job[j].attempt)
    BY <2>1 DEF CreditOK, RefundDue
  <2>3. job[j].attempt \in Attempts
    BY <2>1, <2>2, AttemptInRange
  <2> QED BY <2>1, <2>2, <2>3 DEF Held
<1>4. ASSUME NEW j \in Jobs, NEW a \in Attempts
      PROVE  CreditFate(j, a)' = IF j \in S /\ CreditFate(j, a) = "held"
                                 THEN "returned" ELSE CreditFate(j, a)
  <2>1. j \in S => (CreditFate(j, a) = "held" <=> a = job[j].attempt)
    BY <1>3, FateCases DEF Held
  <2>2. CASE j \in S /\ a = job[j].attempt
    <3>1. j \notin FreeJobs /\ <<j, a>> \notin spent /\ Refunded(j, a)'
      BY <1>2, <1>3, <2>2 DEF CreditInv, CreditOK, OneFate
    <3> QED BY <1>2, <2>1, <2>2, <3>1 DEF CreditFate
  <2>3. CASE ~(j \in S /\ a = job[j].attempt)
    BY <1>2, <2>1, <2>3, FateFrame
  <2> QED BY <2>2, <2>3
<1>5. \A u \in Users : Cardinality(NewKeys(S, u)) = Cardinality({j \in S : Owner[j] = u})
  <2>1. ASSUME NEW u PROVE DueKeys(S, u) \cap ledger = {}
    BY <1>3 DEF DueKeys, Refunded
  <2> QED BY <2>1, KeysPerJob
<1>6. credit_balance' =
          [u \in Users |-> credit_balance[u] + Cardinality({j \in S : Owner[j] = u})]
  BY <1>1, <1>5, RefundKeys
<1>7. CASE S = {}
  <2>1. \A j \in Jobs, a \in Attempts : CreditFate(j, a)' = CreditFate(j, a)
    BY <1>4, <1>7
  <2>2. UNCHANGED credit_balance
    <3>1. \A u \in Users : {j \in S : Owner[j] = u} = {}
      BY <1>7
    <3>2. credit_balance \in [Users -> Nat]
      BY DEF TypeInv, TypeOK
    <3>3. \A u \in Users : Cardinality({j \in S : Owner[j] = u}) = 0
      BY <3>1, FS_EmptySet
    <3> QED BY <1>6, <3>2, <3>3
  <2> QED BY <2>1, <2>2 DEF fates
<1>8. CASE S # {}
  <2>1. \A j \in S : \E a \in Attempts : fates[j][a] = "held"
    BY <1>3, FateCases DEF fates
  <2>2. fates' = [j \in Jobs |-> [a \in Attempts |->
                     IF j \in S /\ fates[j][a] = "held" THEN "returned" ELSE fates[j][a]]]
    BY <1>4 DEF fates
  <2>3. credit_balance' =
          [u \in Users |-> credit_balance[u] + Account!Cardinality({j \in S : Owner[j] = u})]
    BY <1>6, SameCardinality
  <2> QED BY <1>8, <2>1, <2>2, <2>3 DEF Account!GiveBack, Account!HeldBy, fates
<1> QED BY <1>7, <1>8

\* Every step of the service is a step of CreditAccount or stutters.
LEMMA AccountStep ==
    TypeInv /\ CreditInv /\ CreditMoves =>
        Account!Next \/ UNCHANGED <<fates, credit_balance>>
<1> SUFFICES ASSUME TypeInv, CreditInv, CreditMoves
             PROVE  Account!Next \/ UNCHANGED <<fates, credit_balance>>
  OBVIOUS
<1>1. CASE NoCreditMoves
  <2>1. \A j \in Jobs, a \in Attempts : CreditFate(j, a)' = CreditFate(j, a)
    BY <1>1 DEF NoCreditMoves, CreditFate, Refunded, Reserved
  <2> QED BY <1>1, <2>1 DEF NoCreditMoves, fates
<1>2. ASSUME NEW i \in Jobs, NEW b \in Attempts, TakesCredit(i, b)
      PROVE  Account!Next \/ UNCHANGED <<fates, credit_balance>>
  BY <1>2, TakesAreTaken DEF Account!Next
<1>3. ASSUME NEW i \in Jobs, SpendsCredit(i)
      PROVE  Account!Next \/ UNCHANGED <<fates, credit_balance>>
  BY <1>3, SpendsAreSpent DEF Account!Next
<1>4. ASSUME NEW S \in SUBSET Jobs, ReturnsCredits(S)
      PROVE  Account!Next \/ UNCHANGED <<fates, credit_balance>>
  BY <1>4, ReturnsAreGivenBack DEF Account!Next
<1> QED BY <1>1, <1>2, <1>3, <1>4 DEF CreditMoves

LEMMA AccountInit == Init => Account!Init
<1> SUFFICES ASSUME Init, NEW j \in Jobs, NEW a \in Attempts
             PROVE  CreditFate(j, a) = "none"
  BY DEF Init, Account!Init
<1> QED BY DEF Init, CreditFate, Refunded, Reserved

\* The service implements CreditAccount: whatever workers, recoveries and
\* customers do, the credits move only as the abstract account lets them.
THEOREM CreditsImplementAccount == Spec => CreditsAreAccounted
<1>1. TypeInv /\ CreditInv /\ [Next]_vars =>
          [Account!Next]_(Account!creditAccountVars)
  BY StepMovesCredits, AccountStep DEF Account!creditAccountVars, fates
<1> QED
  BY <1>1, AccountInit, CreditInvariant, PTL DEF Spec, CreditsAreAccounted, Account!Spec

-----------------------------------------------------------------------------
(* What jobs publish: their provider attempts, versions, statuses,         *)
(* approvals and requests to cancel.  All of it relates the row of one job *)
(* to its own versions and provider attempts, so the invariant is a        *)
(* predicate of one row r, its versions V and its attempts A, and the      *)
(* lemmas speak of such triples.                                           *)


-----------------------------------------------------------------------------
(* The invariant of one job                                                *)

Busy(r) == r.status \in {"queued", "running"}

\* Open and Closed for the row r.
OpenIn(r, p) ==
    /\ p.attempt = r.attempt
    /\ p.generation = r.lease_generation
    /\ p.outcome = "dispatched"

ClosedIn(r, A, outcome) ==
    {IF OpenIn(r, p) THEN [p EXCEPT !.outcome = outcome] ELSE p : p \in A}

\* The provider attempts of a job follow its row.
AttemptsFit(r, A) ==
    /\ (\E p \in A : OpenIn(r, p)) <=> r.status = "running" /\ r.provider_dispatched
    /\ \A p \in A : p.outcome = "dispatched" => OpenIn(r, p)
    /\ r.status = "queued" => ~r.provider_dispatched
    /\ r.status \in {"absent", "deleted"} => A = {}
    /\ \A p, q \in A : p.attempt = q.attempt => p = q
    /\ \A p \in A : /\ p.attempt <= r.attempt
                    /\ Busy(r) /\ p.attempt = r.attempt => r.provider_dispatched

\* So do its versions and its flags.
VersionsFit(r, V) ==
    /\ Busy(r) => Len(V) < MaxVersions /\ r.result_reservation_attempt = r.attempt
    /\ r.status \in {"review", "approved"} => V # <<>>
    /\ r.status \in {"failed", "cancelled", "absent", "deleted"} => V = <<>>
    /\ r.approved => V # <<>>
    /\ ~Busy(r) => /\ r.approved <=> r.status = "approved"
                   /\ ~r.cancel_requested

\* The receipt of every version is an answered attempt.
Receipts(V, A) ==
    \A v \in DOMAIN V : \E p \in A : /\ p.outcome = "succeeded"
                                     /\ p.attempt = V[v].attempt
                                     /\ p.generation = V[v].generation

Fits(r, V, A) == AttemptsFit(r, A) /\ VersionsFit(r, V) /\ Receipts(V, A)

\* What a step may do to a row with a request to cancel, and to an approval.
Bound(r, V, s, W) ==
    r.cancel_requested =>
        /\ s.provider_dispatched => r.provider_dispatched
        /\ W = V
        /\ s.status # "failed"
        /\ s.cancel_requested \/ s.status \in Finished

Follows(r, V, s, W) ==
    r.approved => \/ s.approved /\ W = V
                  \/ ~s.approved /\ Len(W) = Len(V) + 1
                  \/ s.status = "deleted"

Lawful(r, V, s, W) == Bound(r, V, s, W) /\ Follows(r, V, s, W)

JobsFit == \A j \in Jobs : Fits(job[j], result_versions[j], provider_attempts[j])

JobsLawful ==
    \A j \in Jobs : Lawful(job[j], result_versions[j], job'[j], result_versions'[j])

-----------------------------------------------------------------------------
(* Changes of one triple                                                   *)

\* A job that no step touches.
LEMMA SameJob ==
    ASSUME NEW r, NEW V, NEW A, Fits(r, V, A)
    PROVE  Lawful(r, V, r, V)
  BY DEF Fits, VersionsFit, Lawful, Bound, Follows, Busy

\* An active job stays active and nothing is dispatched or published; what is
\* dispatched keeps its execution.
LEMMA StaysBusy ==
    ASSUME NEW r, NEW V, NEW A, NEW s, Fits(r, V, A), Busy(r), Busy(s),
           s.attempt = r.attempt,
           s.provider_dispatched = r.provider_dispatched,
           s.result_reservation_attempt = r.result_reservation_attempt,
           s.approved = r.approved,
           r.cancel_requested => s.cancel_requested,
           \/ ~r.provider_dispatched
           \/ s.status = r.status /\ s.lease_generation = r.lease_generation
    PROVE  Fits(s, V, A) /\ Lawful(r, V, s, V)
<1>1. AttemptsFit(s, A)
  <2>1. CASE ~r.provider_dispatched
    BY <2>1 DEF Fits, AttemptsFit, OpenIn, Busy
  <2>2. CASE s.status = r.status /\ s.lease_generation = r.lease_generation
    BY <2>2 DEF Fits, AttemptsFit, OpenIn, Busy
  <2> QED BY <2>1, <2>2
<1>2. VersionsFit(s, V)
  BY DEF Fits, VersionsFit, Busy
<1>3. Lawful(r, V, s, V)
  BY DEF Lawful, Bound, Follows, Busy
<1> QED BY <1>1, <1>2, <1>3 DEF Fits

\* A job that ends without a new version.
Fallback(r, V, otherwise) ==
    IF V = <<>> THEN otherwise ELSE IF r.approved THEN "approved" ELSE "review"

LEMMA EndsJob ==
    ASSUME NEW r \in JobRow, NEW V, NEW A \in SUBSET ProviderAttempt, NEW s,
           NEW outcome \in {"failed", "cancelled"}, NEW B,
           Fits(r, V, A), Busy(r),
           r.cancel_requested => outcome = "cancelled",
           s = End(r, Fallback(r, V, outcome)),
           B = IF r.provider_dispatched THEN ClosedIn(r, A, outcome) ELSE A
    PROVE  Fits(s, V, B) /\ Lawful(r, V, s, V)
<1> DEFINE final == Fallback(r, V, outcome)
<1>1. /\ s.status = final
      /\ s.attempt = r.attempt
      /\ s.approved = r.approved
      /\ s.provider_dispatched = r.provider_dispatched
      /\ s.cancel_requested = FALSE
  BY DEF End, JobRow
<1>2. final \in Finished /\ (V = <<>> => final = outcome)
  BY DEF Fallback, Finished
<1>3. V # <<>> => final = IF r.approved THEN "approved" ELSE "review"
  BY DEF Fallback
<1> HIDE DEF final
<1>4. ~Busy(s) /\ s.status \notin {"absent", "deleted", "queued", "running"}
  BY <1>1, <1>2 DEF Busy, Finished
<1>5. VersionsFit(s, V)
  <2>1. V = <<>> => ~r.approved
    BY DEF Fits, VersionsFit
  <2>2. CASE V = <<>>
    BY <1>1, <1>2, <1>4, <2>1, <2>2 DEF VersionsFit
  <2>3. CASE V # <<>>
    BY <1>1, <1>3, <1>4, <2>3 DEF VersionsFit
  <2> QED BY <2>2, <2>3
<1>6. /\ \A q \in B : /\ q.outcome # "dispatched"
                      /\ \E p \in A : /\ q.attempt = p.attempt
                                      /\ q = IF OpenIn(r, p)
                                             THEN [p EXCEPT !.outcome = outcome] ELSE p
      /\ \A p \in A : p.outcome = "succeeded" => p \in B
  <2>1. CASE ~r.provider_dispatched
    <3>1. B = A /\ \A p \in A : ~OpenIn(r, p) /\ p.outcome # "dispatched"
      BY <2>1 DEF Fits, AttemptsFit
    <3> QED BY <3>1
  <2>2. CASE r.provider_dispatched
    <3>1. B = ClosedIn(r, A, outcome)
      BY <2>2
    <3>2. \A p \in A : /\ [p EXCEPT !.outcome = outcome].attempt = p.attempt
                       /\ [p EXCEPT !.outcome = outcome].outcome = outcome
      BY DEF ProviderAttempt
    <3>3. \A p \in A : p.outcome = "dispatched" => OpenIn(r, p)
      BY DEF Fits, AttemptsFit
    <3>4. \A p \in A : p.outcome = "succeeded" => ~OpenIn(r, p)
      BY DEF OpenIn
    <3> QED BY <3>1, <3>2, <3>3, <3>4 DEF ClosedIn
  <2> QED BY <2>1, <2>2 DEF JobRow
<1>7. AttemptsFit(s, B)
  <2>1. \A p, q \in B : p.attempt = q.attempt => p = q
    <3> SUFFICES ASSUME NEW p \in B, NEW q \in B, p.attempt = q.attempt PROVE p = q
      OBVIOUS
    <3>1. PICK a \in A : /\ p.attempt = a.attempt
                         /\ p = IF OpenIn(r, a) THEN [a EXCEPT !.outcome = outcome] ELSE a
      BY <1>6
    <3>2. PICK b \in A : /\ q.attempt = b.attempt
                         /\ q = IF OpenIn(r, b) THEN [b EXCEPT !.outcome = outcome] ELSE b
      BY <1>6
    <3>3. a = b
      BY <3>1, <3>2 DEF Fits, AttemptsFit
    <3> QED BY <3>1, <3>2, <3>3
  <2>2. \A q \in B : q.attempt <= s.attempt
    <3>1. \A p \in A : p.attempt <= r.attempt
      BY DEF Fits, AttemptsFit
    <3> QED BY <1>1, <1>6, <3>1
  <2> QED BY <1>4, <1>6, <2>1, <2>2 DEF AttemptsFit, OpenIn
<1>8. Receipts(V, B)
  BY <1>6 DEF Fits, Receipts
<1>9. Lawful(r, V, s, V)
  <2>1. Bound(r, V, s, V)
    <3>1. r.cancel_requested => s.status # "failed"
      BY <1>1, <1>2, <1>3
    <3> QED BY <1>1, <1>2, <3>1 DEF Bound
  <2> QED BY <1>1, <2>1 DEF Lawful, Follows
<1> QED BY <1>5, <1>7, <1>8, <1>9 DEF Fits

\* A job begins: absent, or finished and now reprocessed.
LEMMA StartsJob ==
    ASSUME NEW r \in JobRow, NEW V, NEW A \in SUBSET ProviderAttempt, NEW s \in JobRow,
           Fits(r, V, A), ~Busy(r), s.status = "queued",
           Len(V) < MaxVersions,
           s.attempt = r.attempt + 1,
           s.result_reservation_attempt = s.attempt,
           s.provider_dispatched = FALSE,
           s.approved = r.approved
    PROVE  Fits(s, V, A) /\ Lawful(r, V, s, V)
<1>1. \A p \in A : p.outcome # "dispatched" /\ p.attempt < s.attempt
  <2>1. ~(\E p \in A : OpenIn(r, p)) /\ \A p \in A : p.outcome = "dispatched" => OpenIn(r, p)
    BY DEF Fits, AttemptsFit, Busy
  <2>2. \A p \in A : p.attempt <= r.attempt /\ p.attempt \in Int
    BY DEF Fits, AttemptsFit, ProviderAttempt, Attempts
  <2>3. r.attempt \in Int /\ s.attempt \in Int
    BY DEF JobRow
  <2> QED BY <2>1, <2>2, <2>3
<1>2. AttemptsFit(s, A)
  <2>1. \A p \in A : p.attempt \in Int
    BY DEF ProviderAttempt, Attempts
  <2>2. s.attempt \in Int
    BY DEF JobRow
  <2> QED BY <1>1, <2>1, <2>2 DEF Fits, AttemptsFit, OpenIn, Busy
<1>3. VersionsFit(s, V)
  BY DEF Fits, VersionsFit, Busy
<1>4. Lawful(r, V, s, V)
  BY DEF Fits, VersionsFit, Lawful, Bound, Follows
<1> QED BY <1>2, <1>3, <1>4 DEF Fits

\* The provider attempt of a dispatch is the first of its attempt number.
LEMMA DispatchesJob ==
    ASSUME NEW r \in JobRow, NEW V, NEW A \in SUBSET ProviderAttempt, NEW s, NEW p,
           Fits(r, V, A), r.status = "running", ~r.provider_dispatched,
           ~r.cancel_requested,
           s = [r EXCEPT !.provider_dispatched = TRUE],
           p = [attempt |-> r.attempt, generation |-> r.lease_generation,
                outcome |-> "dispatched"]
    PROVE  Fits(s, V, A \cup {p}) /\ Lawful(r, V, s, V)
<1>1. /\ s.status = "running" /\ s.provider_dispatched
      /\ s.attempt = r.attempt /\ s.lease_generation = r.lease_generation
      /\ s.approved = r.approved /\ s.cancel_requested = r.cancel_requested
      /\ s.result_reservation_attempt = r.result_reservation_attempt
  BY DEF JobRow
<1>2. OpenIn(s, p) /\ p.attempt = s.attempt
  BY <1>1 DEF OpenIn
<1>3. \A q \in A : /\ q.outcome # "dispatched" /\ ~OpenIn(s, q)
                   /\ q.attempt # s.attempt /\ q.attempt <= s.attempt
  BY <1>1 DEF Fits, AttemptsFit, OpenIn, Busy
<1>4. s.attempt <= s.attempt
  BY <1>1 DEF JobRow
<1>5. AttemptsFit(s, A \cup {p})
  <2>1. \A q, z \in A \cup {p} : q.attempt = z.attempt => q = z
    BY <1>2, <1>3 DEF Fits, AttemptsFit
  <2>2. \E q \in A \cup {p} : OpenIn(s, q)
    BY <1>2
  <2>3. \A q \in A \cup {p} : /\ q.outcome = "dispatched" => OpenIn(s, q)
                             /\ q.attempt <= s.attempt
    BY <1>2, <1>3, <1>4
  <2> QED BY <1>1, <2>1, <2>2, <2>3 DEF AttemptsFit
<1>6. VersionsFit(s, V)
  BY <1>1 DEF Fits, VersionsFit, Busy
<1>7. Receipts(V, A \cup {p})
  BY DEF Fits, Receipts
<1>8. Lawful(r, V, s, V)
  BY <1>1 DEF Lawful, Bound, Follows
<1> QED BY <1>5, <1>6, <1>7, <1>8 DEF Fits

\* A new version with a genuine receipt withdraws the approval.
LEMMA AppendsVersion ==
    ASSUME NEW r \in JobRow, NEW V \in Seq(Version), NEW A, NEW B, NEW s,
           NEW version \in Version,
           Fits(r, V, A), AttemptsFit(s, B), Receipts(V, B),
           ~r.cancel_requested, s.status = "review", ~s.approved, ~s.cancel_requested,
           \E p \in B : /\ p.outcome = "succeeded"
                        /\ p.attempt = version.attempt
                        /\ p.generation = version.generation
    PROVE  LET W == Append(V, version)
           IN  Fits(s, W, B) /\ Lawful(r, V, s, W)
<1> DEFINE W == Append(V, version)
<1>1. /\ W # <<>> /\ Len(W) = Len(V) + 1
      /\ DOMAIN W = 1 .. Len(V) + 1 /\ DOMAIN V = 1 .. Len(V)
      /\ \A v \in DOMAIN V : W[v] = V[v]
      /\ W[Len(V) + 1] = version
      /\ Len(V) \in Nat
  OBVIOUS
<1> HIDE DEF W
<1>2. VersionsFit(s, W)
  BY <1>1 DEF VersionsFit, Busy
<1>3. Receipts(W, B)
  <2> SUFFICES ASSUME NEW v \in DOMAIN W
               PROVE  \E p \in B : /\ p.outcome = "succeeded"
                                   /\ p.attempt = W[v].attempt
                                   /\ p.generation = W[v].generation
    BY DEF Receipts
  <2>1. CASE v = Len(V) + 1
    BY <1>1, <2>1
  <2>2. CASE v # Len(V) + 1
    <3>1. v \in DOMAIN V /\ W[v] = V[v]
      BY <1>1, <2>2
    <3> QED BY <3>1 DEF Receipts
  <2> QED BY <2>1, <2>2
<1>4. Lawful(r, V, s, W)
  BY <1>1 DEF Lawful, Bound, Follows
<1>5. Fits(s, W, B) /\ Lawful(r, V, s, W)
  BY <1>2, <1>3, <1>4 DEF Fits
<1> QED BY <1>5 DEF W

\* An attempt that was answered closes, and its result may be published.
LEMMA ClosesAttempt ==
    ASSUME NEW r \in JobRow, NEW V, NEW A \in SUBSET ProviderAttempt, NEW s,
           Fits(r, V, A), r.status = "running", r.provider_dispatched,
           s.status = "review", s.attempt = r.attempt
    PROVE  LET B == ClosedIn(r, A, "succeeded")
           IN  /\ AttemptsFit(s, B)
               /\ Receipts(V, B)
               /\ \E p \in B : /\ p.outcome = "succeeded"
                               /\ p.attempt = r.attempt
                               /\ p.generation = r.lease_generation
<1> DEFINE B == ClosedIn(r, A, "succeeded")
           done(p) == IF OpenIn(r, p) THEN [p EXCEPT !.outcome = "succeeded"] ELSE p
<1>1. \A p \in A : /\ done(p).attempt = p.attempt
                   /\ done(p).generation = p.generation
                   /\ done(p).outcome # "dispatched"
                   /\ p.outcome = "succeeded" => done(p) = p
                   /\ OpenIn(r, p) => done(p).outcome = "succeeded"
  <2>1. \A p \in A : /\ [p EXCEPT !.outcome = "succeeded"].attempt = p.attempt
                     /\ [p EXCEPT !.outcome = "succeeded"].generation = p.generation
                     /\ [p EXCEPT !.outcome = "succeeded"].outcome = "succeeded"
    BY DEF ProviderAttempt
  <2>2. \A p \in A : p.outcome = "dispatched" => OpenIn(r, p)
    BY DEF Fits, AttemptsFit
  <2> QED BY <2>1, <2>2 DEF OpenIn
<1>2. /\ \A q \in B : \E p \in A : q = done(p)
      /\ \A p \in A : done(p) \in B
  BY DEF ClosedIn
<1>3. /\ \A p, q \in A : p.attempt = q.attempt => p = q
      /\ \A p \in A : p.attempt <= s.attempt
      /\ \E p \in A : OpenIn(r, p)
  BY DEF Fits, AttemptsFit
<1> HIDE DEF B, done
<1>4. \A p, q \in B : p.attempt = q.attempt => p = q
  <2> SUFFICES ASSUME NEW p \in B, NEW q \in B, p.attempt = q.attempt PROVE p = q
    OBVIOUS
  <2>1. PICK a \in A : p = done(a)
    BY <1>2
  <2>2. PICK b \in A : q = done(b)
    BY <1>2
  <2>3. a = b
    BY <1>1, <1>3, <2>1, <2>2
  <2> QED BY <2>1, <2>2, <2>3
<1>5. AttemptsFit(s, B)
  <2>1. \A q \in B : q.outcome # "dispatched" /\ q.attempt <= s.attempt
    BY <1>1, <1>2, <1>3
  <2> QED BY <1>4, <2>1 DEF AttemptsFit, OpenIn, Busy
<1>6. Receipts(V, B)
  <2>1. \A p \in A : p.outcome = "succeeded" => p \in B
    BY <1>1, <1>2
  <2> QED BY <2>1 DEF Fits, Receipts
<1>7. \E p \in B : /\ p.outcome = "succeeded"
                   /\ p.attempt = r.attempt
                   /\ p.generation = r.lease_generation
  <2>1. PICK p \in A : OpenIn(r, p)
    BY <1>3
  <2>2. done(p) \in B
    BY <1>2
  <2>3. /\ done(p).outcome = "succeeded"
        /\ done(p).attempt = r.attempt
        /\ done(p).generation = r.lease_generation
    BY <1>1, <2>1 DEF OpenIn
  <2> QED BY <2>2, <2>3
<1>8. /\ AttemptsFit(s, B)
      /\ Receipts(V, B)
      /\ \E p \in B : /\ p.outcome = "succeeded"
                      /\ p.attempt = r.attempt
                      /\ p.generation = r.lease_generation
  BY <1>5, <1>6, <1>7
<1> QED BY <1>8 DEF B

-----------------------------------------------------------------------------
(* The steps of the service                                                *)

\* The triple of a job is well formed.
LEMMA TripleType ==
    ASSUME TypeInv, NEW j \in Jobs
    PROVE  /\ job[j] \in JobRow
           /\ result_versions[j] \in Seq(Version)
           /\ provider_attempts[j] \in SUBSET ProviderAttempt
  BY DEF TypeInv, TypeOK

\* A step that changes the triple of one job.
LEMMA AtOneJob ==
    ASSUME TypeInv, JobsFit, NEW i \in Jobs, NEW s, NEW W, NEW B,
           job' = [job EXCEPT ![i] = s],
           result_versions' = [result_versions EXCEPT ![i] = W],
           provider_attempts' = [provider_attempts EXCEPT ![i] = B],
           Fits(s, W, B), Lawful(job[i], result_versions[i], s, W)
    PROVE  JobsFit' /\ JobsLawful
<1>1. /\ job'[i] = s /\ result_versions'[i] = W /\ provider_attempts'[i] = B
      /\ \A j \in Jobs \ {i} : /\ job'[j] = job[j]
                               /\ result_versions'[j] = result_versions[j]
                               /\ provider_attempts'[j] = provider_attempts[j]
  BY DEF TypeInv, TypeOK
<1>2. ASSUME NEW j \in Jobs
      PROVE  /\ Fits(job'[j], result_versions'[j], provider_attempts'[j])
             /\ Lawful(job[j], result_versions[j], job'[j], result_versions'[j])
  <2>1. CASE j = i
    BY <1>1, <2>1
  <2>2. CASE j # i
    BY <1>1, <2>2, SameJob DEF JobsFit
  <2> QED BY <2>1, <2>2
<1> QED BY <1>2 DEF JobsFit, JobsLawful

\* A step that changes the row of one job only.
LEMMA AtOneRow ==
    ASSUME TypeInv, JobsFit, NEW i \in Jobs, NEW s,
           job' = [job EXCEPT ![i] = s],
           UNCHANGED <<result_versions, provider_attempts>>,
           LET V == result_versions[i]
           IN  Fits(s, V, provider_attempts[i]) /\ Lawful(job[i], V, s, V)
    PROVE  JobsFit' /\ JobsLawful
<1>1. /\ result_versions' = [result_versions EXCEPT ![i] = result_versions[i]]
      /\ provider_attempts' = [provider_attempts EXCEPT ![i] = provider_attempts[i]]
  BY DEF TypeInv, TypeOK
<1> QED BY <1>1, AtOneJob

\* A step that changes no triple.
LEMMA NoJobStep ==
    ASSUME JobsFit, UNCHANGED <<job, result_versions, provider_attempts>>
    PROVE  JobsFit' /\ JobsLawful
  BY SameJob DEF JobsFit, JobsLawful

\* The terminal transactions of the model are those of the triple.
LEMMA SameNames ==
    ASSUME NEW j \in Jobs, NEW outcome
    PROVE  /\ Preserved(j, outcome) = Fallback(job[j], result_versions[j], outcome)
           /\ Closed(j, outcome) = ClosedIn(job[j], provider_attempts[j], outcome)
           /\ \A p : Open(j, p) <=> OpenIn(job[j], p)
  BY DEF Preserved, Fallback, HasResult, Closed, ClosedIn, Open, OpenIn

\* A worker that ends its job by failing or cancelling.
LEMMA EndStepFits ==
    ASSUME TypeInv, JobsFit, NEW w \in Workers, NEW outcome \in {"failed", "cancelled"},
           Holds(w), EndJob(worker[w].job, outcome),
           job[worker[w].job].cancel_requested => outcome = "cancelled"
    PROVE  JobsFit' /\ JobsLawful
<1> DEFINE i == worker[w].job
           s == End(job[i], Preserved(i, outcome))
           A == provider_attempts[i]
           B == IF job[i].provider_dispatched THEN Closed(i, outcome) ELSE A
<1>1. i \in Jobs /\ Busy(job[i])
  BY HoldsRunning DEF Busy
<1>2. /\ job' = [job EXCEPT ![i] = s]
      /\ result_versions' = [result_versions EXCEPT ![i] = result_versions[i]]
      /\ provider_attempts' = [provider_attempts EXCEPT ![i] = B]
  BY <1>1 DEF EndJob, TypeInv, TypeOK
<1>3. /\ job[i] \in JobRow /\ A \in SUBSET ProviderAttempt
      /\ Fits(job[i], result_versions[i], A)
  BY <1>1, TripleType DEF JobsFit
<1>4. /\ s = End(job[i], Fallback(job[i], result_versions[i], outcome))
      /\ B = IF job[i].provider_dispatched THEN ClosedIn(job[i], A, outcome) ELSE A
      /\ job[i].cancel_requested => outcome = "cancelled"
  BY <1>1, SameNames
<1> HIDE DEF i, s, A, B
<1>5. /\ Fits(s, result_versions[i], B)
      /\ Lawful(job[i], result_versions[i], s, result_versions[i])
  BY <1>1, <1>3, <1>4, EndsJob
<1> QED BY <1>1, <1>2, <1>5, AtOneJob

\* The steps of a customer.
LEMMA RequestFits ==
    ASSUME TypeInv, JobsFit, NEW i \in Jobs, Request(i)
    PROVE  JobsFit' /\ JobsLawful
<1> USE ConstantsAssumption DEF ConstantsAssumption
<1> DEFINE r == job[i]
           V == result_versions[i]
           A == provider_attempts[i]
<1>0. /\ r \in JobRow /\ V \in Seq(Version) /\ A \in SUBSET ProviderAttempt
      /\ Fits(r, V, A)
  BY TripleType DEF JobsFit
<1>00. job'[i] \in JobRow
  BY RequestType DEF TypeInv, TypeOK
<1>1. CASE Create(i)
  <2> DEFINE n == Cardinality({k \in Jobs : job[k].status # "absent"})
             s == [NoRow("queued") EXCEPT
                      !.created = n, !.attempt = 1,
                      !.reservation_active = (Cost(i) = 1),
                      !.result_reservation_attempt = 1]
  <2>1. /\ job' = [job EXCEPT ![i] = s]
        /\ UNCHANGED <<result_versions, provider_attempts>>
        /\ r.status = "absent"
    BY <1>1 DEF Create
  <2>2. /\ s.status = "queued" /\ s.attempt = 1 /\ s.result_reservation_attempt = 1
        /\ s.provider_dispatched = FALSE /\ s.approved = FALSE
    BY DEF NoRow
  <2> HIDE DEF s
  <2>3. s \in JobRow
    BY <1>00, <2>1 DEF TypeInv, TypeOK
  <2>4. ~Busy(r) /\ V = <<>> /\ A = {} /\ ~r.approved
    BY <1>0, <2>1 DEF Fits, AttemptsFit, VersionsFit, Busy
  <2>5. Fits(s, V, A)
    <3>1. Len(V) < MaxVersions
      BY <2>4
    <3> QED BY <2>2, <2>4, <3>1
            DEF Fits, AttemptsFit, VersionsFit, Receipts, Busy
  <2>6. Lawful(r, V, s, V)
    BY <1>0, <2>4 DEF Fits, VersionsFit, Lawful, Bound, Follows
  <2> QED BY <2>1, <2>5, <2>6, AtOneRow
<1>2. CASE Reprocess(i)
  <2> DEFINE a == r.attempt + 1
             s == [r EXCEPT !.status = "queued", !.attempt = a, !.recovery_count = 0,
                            !.cancel_requested = FALSE,
                            !.reservation_active = (Cost(i) = 1),
                            !.provider_dispatched = FALSE, !.worker_owner = NoWorker,
                            !.lease = "none", !.result_reservation_attempt = a]
  <2>1. /\ job' = [job EXCEPT ![i] = s]
        /\ UNCHANGED <<result_versions, provider_attempts>>
        /\ r.status \in Finished /\ Len(V) < MaxVersions
    BY <1>2 DEF Reprocess, RoomForResult
  <2>2. /\ s.status = "queued" /\ s.attempt = a /\ s.result_reservation_attempt = a
        /\ s.provider_dispatched = FALSE /\ s.approved = r.approved
    BY <1>0 DEF JobRow
  <2> HIDE DEF s
  <2>3. s \in JobRow
    BY <1>00, <2>1 DEF TypeInv, TypeOK
  <2>4. ~Busy(r)
    BY <2>1 DEF Busy, Finished
  <2>5. Fits(s, V, A) /\ Lawful(r, V, s, V)
    <3> HIDE DEF r, V, A
    <3> QED BY <1>0, <2>1, <2>2, <2>3, <2>4, StartsJob
  <2> QED BY <2>1, <2>5, AtOneRow
<1>3. CASE CancelQueued(i)
  <2> DEFINE s == End(r, Preserved(i, "cancelled"))
  <2>1. /\ job' = [job EXCEPT ![i] = s]
        /\ UNCHANGED <<result_versions, provider_attempts>>
        /\ r.status = "queued"
    BY <1>3 DEF CancelQueued
  <2>2. s = End(r, Fallback(r, V, "cancelled")) /\ Busy(r) /\ ~r.provider_dispatched
    BY <1>0, <2>1, SameNames DEF Busy, Fits, AttemptsFit
  <2>3. Fits(s, V, A) /\ Lawful(r, V, s, V)
    <3> HIDE DEF r, V, A, s
    <3> QED BY <1>0, <2>2, EndsJob
  <2> QED BY <2>1, <2>3, AtOneRow
<1>4. CASE CancelRunning(i)
  <2> DEFINE s == [r EXCEPT !.cancel_requested = TRUE]
  <2>1. /\ job' = [job EXCEPT ![i] = s]
        /\ UNCHANGED <<result_versions, provider_attempts>>
        /\ r.status = "running"
    BY <1>4 DEF CancelRunning
  <2>2. /\ s.status = r.status /\ s.attempt = r.attempt
        /\ s.lease_generation = r.lease_generation
        /\ s.provider_dispatched = r.provider_dispatched
        /\ s.result_reservation_attempt = r.result_reservation_attempt
        /\ s.approved = r.approved /\ s.cancel_requested
    BY <1>0 DEF JobRow
  <2>3. Fits(s, V, A) /\ Lawful(r, V, s, V)
    <3>1. Busy(r) /\ Busy(s)
      BY <2>1, <2>2 DEF Busy
    <3> HIDE DEF r, V, A, s
    <3> QED BY <1>0, <2>2, <3>1, StaysBusy
  <2> QED BY <2>1, <2>3, AtOneRow
<1>5. ASSUME NEW v \in DOMAIN V, StoreCorrection(i, v)
      PROVE  JobsFit' /\ JobsLawful
  <2> DEFINE s == [r EXCEPT !.status = "review", !.approved = FALSE]
             version == [V[v] EXCEPT !.source = "correction"]
  <2>1. /\ job' = [job EXCEPT ![i] = s]
        /\ result_versions' = [result_versions EXCEPT ![i] = Append(V, version)]
        /\ provider_attempts' = [provider_attempts EXCEPT ![i] = A]
        /\ r.status \in {"review", "approved"}
    BY <1>5 DEF StoreCorrection, TypeInv, TypeOK
  <2>2. /\ s.status = "review" /\ ~s.approved /\ s.attempt = r.attempt
        /\ s.cancel_requested = r.cancel_requested
    BY <1>0 DEF JobRow
  <2>3. V[v] \in Version
    BY <1>0
  <2>4. /\ version \in Version
        /\ version.attempt = V[v].attempt /\ version.generation = V[v].generation
    BY <2>3 DEF Version
  <2>5. ~r.cancel_requested /\ ~Busy(r)
    BY <1>0, <2>1 DEF Fits, VersionsFit, Busy
  <2>6. AttemptsFit(s, A) /\ Receipts(V, A)
    BY <1>0, <2>1, <2>2 DEF Fits, AttemptsFit, OpenIn, Busy
  <2>7. \E p \in A : /\ p.outcome = "succeeded"
                     /\ p.attempt = version.attempt
                     /\ p.generation = version.generation
    BY <2>4, <2>6 DEF Receipts
  <2> HIDE DEF s, version, r, V, A
  <2>8. Fits(s, Append(V, version), A) /\ Lawful(r, V, s, Append(V, version))
    BY <1>0, <2>2, <2>4, <2>5, <2>6, <2>7, AppendsVersion
  <2> QED BY <2>1, <2>8, AtOneJob DEF r, V
<1>6. CASE Approve(i)
  <2> DEFINE s == [r EXCEPT !.status = "approved", !.approved = TRUE]
  <2>1. /\ job' = [job EXCEPT ![i] = s]
        /\ UNCHANGED <<result_versions, provider_attempts>>
        /\ r.status = "review" /\ V # <<>>
    BY <1>6 DEF Approve, HasResult
  <2>2. /\ s.status = "approved" /\ s.approved /\ s.attempt = r.attempt
        /\ s.cancel_requested = r.cancel_requested
    BY <1>0 DEF JobRow
  <2>3. ~r.cancel_requested /\ ~r.approved
    BY <1>0, <2>1 DEF Fits, VersionsFit, Busy
  <2>4. Fits(s, V, A)
    BY <1>0, <2>1, <2>2, <2>3 DEF Fits, AttemptsFit, VersionsFit, OpenIn, Busy
  <2>5. Lawful(r, V, s, V)
    BY <2>3 DEF Lawful, Bound, Follows
  <2> QED BY <2>1, <2>4, <2>5, AtOneRow
<1>7. CASE Delete(i)
  <2> DEFINE s == NoRow("deleted")
  <2>1. /\ job' = [job EXCEPT ![i] = s]
        /\ result_versions' = [result_versions EXCEPT ![i] = <<>>]
        /\ provider_attempts' = [provider_attempts EXCEPT ![i] = {}]
        /\ r.status \in Finished
    BY <1>7 DEF Delete
  <2>2. s.status = "deleted" /\ ~s.approved /\ ~s.cancel_requested
    BY DEF NoRow
  <2>3. ~r.cancel_requested
    BY <1>0, <2>1 DEF Fits, VersionsFit, Busy, Finished
  <2>4. Fits(s, <<>>, {})
    BY <2>2 DEF Fits, AttemptsFit, VersionsFit, Receipts, Busy
  <2>5. Lawful(r, V, s, <<>>)
    BY <2>2, <2>3 DEF Lawful, Bound, Follows
  <2> QED BY <2>1, <2>4, <2>5, AtOneJob
<1> QED BY <1>1, <1>2, <1>3, <1>4, <1>5, <1>6, <1>7 DEF Request

\* A worker takes the oldest queued job: nothing of it was dispatched.
LEMMA ClaimFits ==
    ASSUME TypeInv, JobsFit, NEW w \in Workers, NEW i \in Jobs, ClaimNextJob(w, i)
    PROVE  JobsFit' /\ JobsLawful
<1> DEFINE r == job[i]
           g == r.lease_generation + 1
           s == [r EXCEPT !.status = "running", !.worker_owner = w,
                          !.lease_generation = g, !.lease = "live"]
           V == result_versions[i]
           A == provider_attempts[i]
<1>1. /\ job' = [job EXCEPT ![i] = s]
      /\ UNCHANGED <<result_versions, provider_attempts>>
      /\ r.status = "queued"
  BY DEF ClaimNextJob, Claimable
<1>2. r \in JobRow /\ Fits(r, V, A)
  BY TripleType DEF JobsFit
<1>3. /\ s.status = "running" /\ s.attempt = r.attempt
      /\ s.provider_dispatched = r.provider_dispatched
      /\ s.result_reservation_attempt = r.result_reservation_attempt
      /\ s.approved = r.approved /\ s.cancel_requested = r.cancel_requested
  BY <1>2 DEF JobRow
<1>4. Busy(r) /\ Busy(s) /\ ~r.provider_dispatched
  BY <1>1, <1>2, <1>3 DEF Busy, Fits, AttemptsFit
<1>5. Fits(s, V, A) /\ Lawful(r, V, s, V)
  <2> HIDE DEF r, s, V, A
  <2> QED BY <1>2, <1>3, <1>4, StaysBusy
<1> QED BY <1>1, <1>5, AtOneRow

\* The steps of a worker that holds a job.
LEMMA WorkerStepFits ==
    ASSUME TypeInv, JobsFit, NEW w \in Workers, WorkerStep(w)
    PROVE  JobsFit' /\ JobsLawful
<1> DEFINE c == worker[w]
           i == c.job
           r == job[i]
           V == result_versions[i]
           A == provider_attempts[i]
<1>0. ASSUME Holds(w)
      PROVE  /\ i \in Jobs /\ r \in JobRow /\ r.status = "running"
             /\ c.attempt = r.attempt /\ c.attempt \in Attempts /\ c.generation \in Nat
             /\ c.generation = r.lease_generation
             /\ V \in Seq(Version) /\ A \in SUBSET ProviderAttempt
             /\ Fits(r, V, A)
  <2>1. /\ i \in Jobs /\ r.status = "running"
        /\ c.attempt = r.attempt /\ c.attempt \in Attempts /\ c.generation \in Nat
    BY <1>0, HoldsRunning
  <2> QED BY <1>0, <2>1, TripleType DEF JobsFit, Holds
<1>1. CASE CancelClaimed(w)
  BY <1>1, EndStepFits DEF CancelClaimed
<1>2. CASE ReleaseForShutdown(w)
  <2> DEFINE s == [r EXCEPT !.status = "queued", !.worker_owner = NoWorker,
                            !.lease = "none"]
  <2>1. /\ Holds(w) /\ ~r.provider_dispatched
        /\ job' = [job EXCEPT ![i] = s]
        /\ UNCHANGED <<result_versions, provider_attempts>>
    BY <1>2 DEF ReleaseForShutdown
  <2>2. i \in Jobs /\ r \in JobRow /\ r.status = "running" /\ Fits(r, V, A)
    BY <1>0, <2>1
  <2>3. /\ s.status = "queued" /\ s.attempt = r.attempt
        /\ s.provider_dispatched = r.provider_dispatched
        /\ s.result_reservation_attempt = r.result_reservation_attempt
        /\ s.approved = r.approved /\ s.cancel_requested = r.cancel_requested
    <3> HIDE DEF r
    <3> QED BY <2>2 DEF JobRow
  <2>4. Busy(r) /\ Busy(s)
    BY <2>2, <2>3 DEF Busy
  <2> HIDE DEF s
  <2>5. Fits(s, V, A) /\ Lawful(r, V, s, V)
    <3> HIDE DEF r, V, A
    <3> QED BY <2>1, <2>2, <2>3, <2>4, StaysBusy
  <2> HIDE DEF i
  <2> QED BY <2>1, <2>2, <2>5, AtOneRow
<1>3. CASE Progress(w) \/ CallProvider(w) \/ ProviderAnswers(w) \/ DropStaleClaim(w)
  <2>1. UNCHANGED <<job, result_versions, provider_attempts>>
    BY <1>3 DEF Progress, CallProvider, ProviderAnswers, DropStaleClaim, SameTables
  <2> QED BY <2>1, NoJobStep
<1>4. CASE CancelReady(w)
  BY <1>4, EndStepFits DEF CancelReady
<1>5. CASE RefuseDispatch(w)
  BY <1>5, EndStepFits DEF RefuseDispatch, StillWanted
<1>6. CASE Dispatch(w)
  <2> DEFINE s == [r EXCEPT !.provider_dispatched = TRUE]
             p == [attempt |-> c.attempt, generation |-> c.generation,
                   outcome |-> "dispatched"]
  <2>1. /\ Holds(w) /\ ~r.provider_dispatched /\ ~r.cancel_requested
        /\ job' = [job EXCEPT ![i] = s]
        /\ provider_attempts' = [provider_attempts EXCEPT ![i] = A \cup {p}]
        /\ UNCHANGED result_versions
    BY <1>6 DEF Dispatch, StillWanted
  <2>2. /\ i \in Jobs /\ r \in JobRow /\ r.status = "running"
        /\ A \in SUBSET ProviderAttempt /\ Fits(r, V, A)
    BY <1>0, <2>1
  <2>3. p = [attempt |-> r.attempt, generation |-> r.lease_generation,
             outcome |-> "dispatched"]
    BY <1>0, <2>1
  <2> HIDE DEF p
  <2>4. Fits(s, V, A \cup {p}) /\ Lawful(r, V, s, V)
    <3> HIDE DEF r, V, A
    <3> QED BY <2>1, <2>2, <2>3, DispatchesJob
  <2>5. result_versions' = [result_versions EXCEPT ![i] = V]
    BY <2>1, <2>2 DEF TypeInv, TypeOK
  <2> HIDE DEF s, i
  <2> QED BY <2>1, <2>2, <2>4, <2>5, AtOneJob
<1>7. CASE CancelAnswered(w)
  BY <1>7, EndStepFits DEF CancelAnswered
<1>8. CASE Publish(w)
  <2> DEFINE version == [source |-> IF HasResult(i) THEN "reprocess" ELSE "extraction",
                         attempt |-> c.attempt, generation |-> c.generation]
             done == End(r, "review")
             s == [done EXCEPT !.approved = FALSE]
             B == ClosedIn(r, A, "succeeded")
             W == Append(V, version)
  <2>1. /\ Holds(w) /\ ~r.cancel_requested /\ HasOpen(i)
        /\ job' = [job EXCEPT ![i] = s]
        /\ result_versions' = [result_versions EXCEPT ![i] = W]
        /\ provider_attempts' = [provider_attempts EXCEPT ![i] = Closed(i, "succeeded")]
    BY <1>8 DEF Publish, StillWanted
  <2>2. /\ i \in Jobs /\ r \in JobRow /\ r.status = "running"
        /\ c.attempt = r.attempt /\ c.generation = r.lease_generation
        /\ c.attempt \in Attempts /\ c.generation \in Nat
        /\ V \in Seq(Version) /\ A \in SUBSET ProviderAttempt /\ Fits(r, V, A)
    BY <1>0, <2>1
  <2>3. r.provider_dispatched
    <3>1. \E p \in A : OpenIn(r, p)
      BY <2>1, <2>2, SameNames DEF HasOpen
    <3> QED BY <2>2, <3>1 DEF Fits, AttemptsFit
  <2>4. /\ version \in Version
        /\ version.attempt = r.attempt /\ version.generation = r.lease_generation
    BY <2>2 DEF Version
  <2>5. done \in JobRow /\ done.status = "review" /\ done.attempt = r.attempt
        /\ done.cancel_requested = FALSE
    <3>1. "review" \in Finished
      BY DEF Finished
    <3>2. done \in JobRow /\ done.status = "review" /\ done.attempt = r.attempt
      BY <2>2, <3>1, EndRow
    <3> HIDE DEF r
    <3> QED BY <2>2, <3>2 DEF End, JobRow
  <2>6. Closed(i, "succeeded") = B
    BY <2>2, SameNames
  <2> HIDE DEF done, version
  <2>7. s.status = "review" /\ ~s.approved /\ ~s.cancel_requested
        /\ s.attempt = r.attempt
    BY <2>5 DEF JobRow
  <2> HIDE DEF s
  <2>8. /\ AttemptsFit(s, B) /\ Receipts(V, B)
        /\ \E p \in B : /\ p.outcome = "succeeded"
                        /\ p.attempt = r.attempt
                        /\ p.generation = r.lease_generation
    <3> HIDE DEF r, V, A
    <3> QED BY <2>2, <2>3, <2>7, ClosesAttempt
  <2> HIDE DEF B
  <2>9. Fits(s, W, B) /\ Lawful(r, V, s, W)
    <3>1. \E p \in B : /\ p.outcome = "succeeded"
                       /\ p.attempt = version.attempt
                       /\ p.generation = version.generation
      BY <2>4, <2>8
    <3> HIDE DEF r, V, A
    <3> QED BY <2>1, <2>2, <2>4, <2>7, <2>8, <3>1, AppendsVersion
  <2> HIDE DEF W, i
  <2> QED BY <2>1, <2>2, <2>6, <2>9, AtOneJob
<1>9. CASE FinishFailed(w)
  <2>1. EndJob(i, IF r.cancel_requested THEN "cancelled" ELSE "failed") /\ Holds(w)
    BY <1>9 DEF FinishFailed
  <2>2. CASE r.cancel_requested
    BY <2>1, <2>2, EndStepFits
  <2>3. CASE ~r.cancel_requested
    BY <2>1, <2>3, EndStepFits
  <2> QED BY <2>2, <2>3
<1> QED BY <1>1, <1>2, <1>3, <1>4, <1>5, <1>6, <1>7, <1>8, <1>9 DEF WorkerStep

\* The recovery transaction, for every job that it ends or puts back.
LEMMA RecoveryFits ==
    ASSUME TypeInv, JobsFit, RecoverInterruptedJobs
    PROVE  JobsFit' /\ JobsLawful
<1>1. ASSUME NEW i \in Jobs
      PROVE  /\ Fits(job'[i], result_versions'[i], provider_attempts'[i])
             /\ Lawful(job[i], result_versions[i], job'[i], result_versions'[i])
  <2> DEFINE r == job[i]
             V == result_versions[i]
             A == provider_attempts[i]
  <2>0. /\ r \in JobRow /\ A \in SUBSET ProviderAttempt /\ Fits(r, V, A)
        /\ result_versions'[i] = V
    BY TripleType DEF JobsFit, RecoverInterruptedJobs
  <2>1. CASE Requeued(i)
    <3> DEFINE s == [r EXCEPT !.status = "queued", !.recovery_count = @ + 1,
                              !.worker_owner = NoWorker, !.lease = "none"]
    <3>1. job'[i] = s /\ provider_attempts'[i] = A
      BY <2>1 DEF RecoverInterruptedJobs, Recovered, GivenUp
    <3>2. r.status = "running" /\ ~r.provider_dispatched
      BY <2>1 DEF Requeued, Expired
    <3>3. /\ s.status = "queued" /\ s.attempt = r.attempt
          /\ s.provider_dispatched = r.provider_dispatched
          /\ s.result_reservation_attempt = r.result_reservation_attempt
          /\ s.approved = r.approved /\ s.cancel_requested = r.cancel_requested
      BY <2>0 DEF JobRow
    <3>4. Busy(r) /\ Busy(s)
      BY <3>2, <3>3 DEF Busy
    <3>5. Fits(s, V, A) /\ Lawful(r, V, s, V)
      <4> HIDE DEF r, s, V, A
      <4> QED BY <2>0, <3>2, <3>3, <3>4, StaysBusy
    <3> QED BY <2>0, <3>1, <3>5
  <2>2. CASE GivenUp(i)
    <3> DEFINE outcome == Reason(i)
               s == End(r, Preserved(i, outcome))
               B == IF r.provider_dispatched THEN Closed(i, outcome) ELSE A
    <3>1. job'[i] = s /\ provider_attempts'[i] = B
      BY <2>2 DEF RecoverInterruptedJobs, Recovered, GivenUp
    <3>2. /\ outcome \in {"failed", "cancelled"}
          /\ r.cancel_requested => outcome = "cancelled"
      BY DEF Reason
    <3>3. Busy(r)
      BY <2>2 DEF GivenUp, Expired, Busy
    <3> HIDE DEF outcome
    <3>4. /\ s = End(r, Fallback(r, V, outcome))
          /\ B = IF r.provider_dispatched THEN ClosedIn(r, A, outcome) ELSE A
      BY SameNames
    <3> HIDE DEF s, B
    <3>5. Fits(s, V, B) /\ Lawful(r, V, s, V)
      <4> HIDE DEF r, V, A
      <4> QED BY <2>0, <3>2, <3>3, <3>4, EndsJob
    <3> QED BY <2>0, <3>1, <3>5
  <2>3. CASE ~Requeued(i) /\ ~GivenUp(i)
    <3>1. job'[i] = r /\ provider_attempts'[i] = A
      BY <2>3 DEF RecoverInterruptedJobs, Recovered
    <3> QED BY <2>0, <3>1, SameJob
  <2> QED BY <2>1, <2>2, <2>3
<1> QED BY <1>1 DEF JobsFit, JobsLawful

-----------------------------------------------------------------------------
(* Theorems                                                                *)

LEMMA JobsInit == Init => JobsFit
  BY DEF Init, NoRow, JobsFit, Fits, AttemptsFit, VersionsFit, Receipts, Busy

LEMMA JobsStep == TypeInv /\ JobsFit /\ [Next]_vars => JobsFit' /\ JobsLawful
<1> SUFFICES ASSUME TypeInv, JobsFit, [Next]_vars PROVE JobsFit' /\ JobsLawful
  OBVIOUS
<1>1. ASSUME NEW i \in Jobs, Request(i) PROVE JobsFit' /\ JobsLawful
  BY <1>1, RequestFits
<1>2. ASSUME NEW i \in Jobs, LeaseExpires(i) PROVE JobsFit' /\ JobsLawful
  <2> DEFINE r == job[i]
             s == [r EXCEPT !.lease = "expired"]
             V == result_versions[i]
             A == provider_attempts[i]
  <2>1. /\ job' = [job EXCEPT ![i] = s]
        /\ UNCHANGED <<result_versions, provider_attempts>>
        /\ r.status = "running"
    BY <1>2 DEF LeaseExpires
  <2>2. r \in JobRow /\ Fits(r, V, A)
    BY TripleType DEF JobsFit
  <2>3. /\ s.status = r.status /\ s.attempt = r.attempt
        /\ s.lease_generation = r.lease_generation
        /\ s.provider_dispatched = r.provider_dispatched
        /\ s.result_reservation_attempt = r.result_reservation_attempt
        /\ s.approved = r.approved /\ s.cancel_requested = r.cancel_requested
    BY <2>2 DEF JobRow
  <2>4. Busy(r) /\ Busy(s)
    BY <2>1, <2>3 DEF Busy
  <2>5. Fits(s, V, A) /\ Lawful(r, V, s, V)
    <3> HIDE DEF r, s, V, A
    <3> QED BY <2>2, <2>3, <2>4, StaysBusy
  <2> QED BY <2>1, <2>5, AtOneRow
<1>3. ASSUME NEW w \in Workers, NEW i \in Jobs, ClaimNextJob(w, i)
      PROVE  JobsFit' /\ JobsLawful
  BY <1>3, ClaimFits
<1>4. ASSUME NEW w \in Workers, WorkerStep(w) PROVE JobsFit' /\ JobsLawful
  BY <1>4, WorkerStepFits
<1>5. ASSUME NEW w \in Workers, Fault(w) \/ Crash(w) \/ Stop(w) \/ Start(w)
      PROVE  JobsFit' /\ JobsLawful
  BY <1>5, NoJobStep DEF Fault, Crash, Stop, Start, SameTables
<1>6. CASE RecoverInterruptedJobs
  BY <1>6, RecoveryFits
<1>7. CASE UNCHANGED vars
  BY <1>7, NoJobStep DEF vars
<1> QED BY <1>1, <1>2, <1>3, <1>4, <1>5, <1>6, <1>7 DEF Next

LEMMA JobsInvariant == Spec => [](TypeInv /\ JobsFit)
  BY TypeInit, TypeStep, JobsInit, JobsStep, PTL DEF Spec

\* The terminal transactions that need the one open provider attempt of a
\* charged job find it, whatever leases expire and whoever recovers the job.
THEOREM OpenAttemptsMatch == Spec => []OpenAttemptMatches
<1>1. JobsFit => OpenAttemptMatches
  BY DEF JobsFit, Fits, AttemptsFit, OpenIn, OpenAttemptMatches, HasOpen, Open
<1> QED BY <1>1, JobsInvariant, PTL

\* The room for the version of a paid attempt is there until the attempt ends.
THEOREM RoomIsKept == Spec => []ResultReserved
<1>1. JobsFit => ResultReserved
  BY DEF JobsFit, Fits, VersionsFit, Busy, ResultReserved, Active
<1> QED BY <1>1, JobsInvariant, PTL

\* No failed, cancelled or recovered attempt hides a result or invents one.
THEOREM StatusTellsTheResult == Spec => []StatusMatchesResult
<1>1. JobsFit => StatusMatchesResult
  BY DEF JobsFit, Fits, VersionsFit, Busy, StatusMatchesResult, Active, HasResult
<1> QED BY <1>1, JobsInvariant, PTL

\* Every version names an execution that the provider answered.
THEOREM ReceiptsStayGenuine == Spec => []ReceiptsAreGenuine
<1>1. JobsFit => ReceiptsAreGenuine
  BY DEF JobsFit, Fits, AttemptsFit, Receipts, ReceiptsAreGenuine
<1> QED BY <1>1, JobsInvariant, PTL

\* A request to cancel that reached a running job is obeyed by every worker.
THEOREM CancellationBinds == Spec => CancelBinds
<1>1. JobsLawful => \A j \in Jobs : job[j].cancel_requested =>
          /\ job'[j].provider_dispatched => job[j].provider_dispatched
          /\ result_versions'[j] = result_versions[j]
          /\ job'[j].status # "failed"
          /\ job'[j].cancel_requested \/ job'[j].status \in Finished
  BY DEF JobsLawful, Lawful, Bound
<1> QED BY <1>1, JobsInvariant, JobsStep, PTL DEF Spec, CancelBinds

\* An approval stays with the result that was approved.
THEOREM ApprovalsStay == Spec => ApprovalFollowsResult
<1>1. JobsLawful => \A j \in Jobs : job[j].approved =>
          \/ job'[j].approved /\ result_versions'[j] = result_versions[j]
          \/ ~job'[j].approved /\ Len(result_versions'[j]) = Len(result_versions[j]) + 1
          \/ job'[j].status = "deleted"
  BY DEF JobsLawful, Lawful, Follows
<1> QED BY <1>1, JobsInvariant, JobsStep, PTL DEF Spec, ApprovalFollowsResult
=============================================================================
