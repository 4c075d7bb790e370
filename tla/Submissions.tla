---------------------------- MODULE Submissions ----------------------------
(***************************************************************************)
(* The Idempotency-Key of a submission: create_job (browser) and           *)
(* _submit_api_staged_extraction (API) in unrender/product/service.py,     *)
(* with the replay window, the tombstones after it, and the housekeeping   *)
(* that forgets them.  A client that hears no answer sends its request     *)
(* again, so requests of one key overlap in the web server's threads; a    *)
(* request looks for the key before it stages its file, and again in the   *)
(* transaction that would create the job.                                  *)
(*                                                                         *)
(* Abstractions.  An order is what request_sha256 covers: upload, page and *)
(* crop, or name, page and bytes.  A job is named by the request that made *)
(* it.  One account; files and credits are in SourceFiles and              *)
(* ExtractionJobs, and a request may be refused wherever they may refuse.  *)
(***************************************************************************)
EXTENDS Integers

CONSTANTS
    Keys,          \* Idempotency-Key, as stored (a digest, per account)
    Orders,
    Requests,      \* HTTP requests; a retry is another request
    None

VARIABLES
    records,       \* table api_idempotency
    requests,      \* the web server's requests
    made,          \* history: requests that created a job
    horizons,      \* history: times a key's record passed the tombstone horizon
    birth          \* history: horizons of the key when a request created its job

submissionVars == <<records, requests, made, horizons, birth>>

\* age: against expires_at and the tombstone horizon; job: None once the
\* response has been erased.
Record == [order : Orders, job : Requests \cup {None}, age : {"live", "late", "old"}]
Records == Record \cup {None}
Reply == Requests \cup {None, "refused", "expired", "conflict"}
Request == [pc : {"arrived", "admitted", "answered"}, key : Keys, order : Orders,
            reply : Reply]

ASSUME SubmissionsAssumption ==
    /\ None \notin Requests \cup Record \cup Request
    /\ Requests \cap {"refused", "expired", "conflict"} = {}

SubmissionsInit ==
    /\ records = [k \in Keys |-> None]
    /\ requests = [r \in Requests |-> None]
    /\ made = {}
    /\ horizons = [k \in Keys |-> 0]
    /\ birth = [r \in Requests |-> 0]

-----------------------------------------------------------------------------
\* _idempotent_response: what the record of the key says to a request.
IsExpired(rec) == rec.job = None \/ rec.age # "live"
AnyOrder(rec, order) == FALSE
IsConflict(rec, order) == rec.order # order
Response(rec, order) ==
    IF IsExpired(rec) THEN "expired"
    ELSE IF IsConflict(rec, order) THEN "conflict"
    ELSE rec.job

Answer(r, reply) ==
    requests' = [requests EXCEPT ![r].pc = "answered", ![r].reply = reply]
Recorded(r) == records[requests[r].key] # None
AnswerFromRecord(r) ==
    Answer(r, Response(records[requests[r].key], requests[r].order))

\* A client sends an order under a key of its choice: new, or used before.
Arrive(r, k, o) ==
    /\ requests[r] = None
    /\ requests' = [requests EXCEPT ![r] =
                      [pc |-> "arrived", key |-> k, order |-> o, reply |-> None]]
    /\ UNCHANGED <<records, made, horizons, birth>>

\* The first look at the key, outside any transaction.
LookUp(r) ==
    /\ requests[r] # None /\ requests[r].pc = "arrived"
    /\ \/ Recorded(r) /\ AnswerFromRecord(r)
       \/ ~Recorded(r) /\ requests' = [requests EXCEPT ![r].pc = "admitted"]
    /\ UNCHANGED <<records, made, horizons, birth>>

\* Validation, quota, credit, storage or a crash: nothing was committed.
Refuse(r) ==
    /\ requests[r] # None /\ requests[r].pc \in {"arrived", "admitted"}
    /\ Answer(r, "refused")
    /\ UNCHANGED <<records, made, horizons, birth>>

\* Housekeeping, of cleanup_expired and of each new record: past its window a
\* record loses its response, past the horizon it goes.
NoTombstone(rec) ==
    IF rec = None \/ rec.age # "live" THEN None ELSE rec
ErasedEarly(rec) ==
    IF rec = None \/ rec.age = "old" THEN None ELSE [rec EXCEPT !.job = None]
Compacted(rec) ==
    IF rec = None \/ rec.age = "old" THEN None
    ELSE IF rec.age = "late" THEN [rec EXCEPT !.job = None] ELSE rec
AllCompacted == [k \in Keys |-> Compacted(records[k])]

\* The transaction: a record that appeared meanwhile answers; otherwise the
\* record, the job, its charge and the stored response are one commit.
Transact(r) ==
    /\ requests[r] # None /\ requests[r].pc = "admitted"
    /\ LET k == requests[r].key
       IN \/ /\ Recorded(r) /\ AnswerFromRecord(r)
             /\ UNCHANGED <<records, made, birth>>
          \/ /\ ~Recorded(r)
             /\ records' = [AllCompacted EXCEPT ![k] =
                              [order |-> requests[r].order, job |-> r, age |-> "live"]]
             /\ made' = made \cup {r}
             /\ birth' = [birth EXCEPT ![r] = horizons[k]]
             /\ Answer(r, r)
    /\ UNCHANGED horizons

Housekeep ==
    /\ AllCompacted # records
    /\ records' = AllCompacted
    /\ UNCHANGED <<requests, made, horizons, birth>>

\* Time: idempotency_ttl_hours, then idempotency_tombstone_days.
Later(k) ==
    /\ records[k] # None
    /\ \/ /\ records[k].age = "live"
          /\ records' = [records EXCEPT ![k].age = "late"]
          /\ UNCHANGED horizons
       \/ /\ records[k].age = "late"
          /\ records' = [records EXCEPT ![k].age = "old"]
          /\ horizons' = [horizons EXCEPT ![k] = @ + 1]
    /\ UNCHANGED <<requests, made, birth>>

SubmissionsNext ==
    \/ \E r \in Requests :
          \/ \E k \in Keys, o \in Orders : Arrive(r, k, o)
          \/ LookUp(r) \/ Refuse(r) \/ Transact(r)
    \/ Housekeep
    \/ \E k \in Keys : Later(k)

SubmissionsSpec == SubmissionsInit /\ [][SubmissionsNext]_submissionVars

-----------------------------------------------------------------------------
\* Types; a record is written by the request that answers with its own job,
\* and one that can still be replayed has its response.
SubmissionsTypeOK ==
    /\ records \in [Keys -> Records]
    /\ requests \in [Requests -> Request \cup {None}]
    /\ made \subseteq Requests
    /\ horizons \in [Keys -> Nat] /\ birth \in [Requests -> Nat]
    /\ \A k \in Keys : records[k] # None /\ records[k].age = "live" => records[k].job # None

\* Two jobs of one key are a whole tombstone horizon apart: however a client
\* repeats itself, with whatever answers lost, it makes, and pays for, one job.
OneJobPerKey ==
    \A r, s \in made :
        r # s /\ requests[r].key = requests[s].key => birth[r] # birth[s]

\* A job a client is told about was made under its own key and for exactly
\* what it asked, also when the answer was stored for another request.
AnswersAreTrue ==
    \A r \in Requests :
        requests[r] # None /\ requests[r].reply \in Requests =>
            LET job == requests[r].reply
            IN /\ job \in made
               /\ requests[job].key = requests[r].key
               /\ requests[job].order = requests[r].order
=============================================================================
