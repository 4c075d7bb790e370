---------------------------- MODULE RequestProofs ----------------------------
(***************************************************************************)
(* What a request to the service may rely on, proved for every value of    *)
(* the constants: submissions with a key, the result that tabs review and  *)
(* export, the slots and windows that admit requests, the pages of the     *)
(* browser that submits, the gate before the provider, and the cache of    *)
(* previews.  The modules share no state, so each has its own inductive    *)
(* invariant.                                                              *)
(***************************************************************************)
EXTENDS Submissions, Review, Admission, BrowserSubmission, DispatchGate, PreviewCache,
        SequenceTheorems, FiniteSums

-----------------------------------------------------------------------------
(***************************************************************************)
(* One job per key, and true answers, for every set of keys, orders and    *)
(* requests.  OneJobPerKey is not inductive: it needs to know that a job   *)
(* whose key has not passed the horizon since still has a record in its    *)
(* way, and AnswersAreTrue that a stored response is true of its record.   *)
(***************************************************************************)

\* A job is never younger than its key's record, and until the horizon passes
\* the record is there: live, or past its window, but not forgotten.
Guarded ==
    \A r \in made :
        LET k == requests[r].key
        IN /\ birth[r] <= horizons[k]
           /\ birth[r] = horizons[k] => records[k] \in Record /\ records[k].age # "old"

\* A stored response names a job of its own key and order.
Stored ==
    \A k \in Keys :
        records[k] \in Record /\ records[k].job \in Requests =>
            LET found == records[k].job
            IN /\ found \in made
               /\ requests[found].key = k
               /\ requests[found].order = records[k].order

Sent == \A r \in made : requests[r] \in Request /\ requests[r].pc = "answered"

SubmissionsInv ==
    /\ SubmissionsTypeOK /\ Sent
    /\ Guarded /\ OneJobPerKey
    /\ Stored /\ AnswersAreTrue

-----------------------------------------------------------------------------
\* What a response to a request can be: the job of the record, if it is for
\* the same order and has not been erased, or one of the refusals.
LEMMA ResponseIsStored ==
    ASSUME NEW rec \in Record, NEW order \in Orders
    PROVE  /\ Response(rec, order) \in Requests \cup {"expired", "conflict"}
           /\ Response(rec, order) \in Requests =>
                 Response(rec, order) = rec.job /\ rec.order = order
BY SubmissionsAssumption DEF Response, IsExpired, IsConflict, Record

\* Housekeeping only erases responses and drops old records.
LEMMA CompactedIsWeaker ==
    ASSUME NEW rec \in Records
    PROVE  /\ Compacted(rec) \in Records
           /\ rec \in Record /\ rec.age # "old" =>
                 Compacted(rec) \in Record /\ Compacted(rec).age = rec.age
           /\ Compacted(rec) \in Record =>
                 /\ rec \in Record
                 /\ Compacted(rec).order = rec.order
                 /\ Compacted(rec).age = rec.age
                 /\ Compacted(rec).job \in {rec.job, None}
                 /\ rec.age = "live" => Compacted(rec).job = rec.job
<1>1. CASE rec = None
  BY <1>1, SubmissionsAssumption DEF Compacted, Records
<1>2. CASE rec \in Record /\ rec.age = "old"
  BY <1>2, SubmissionsAssumption DEF Compacted, Records
<1>3. CASE rec \in Record /\ rec.age = "live"
  BY <1>3, SubmissionsAssumption DEF Compacted, Records
<1>4. CASE rec \in Record /\ rec.age = "late"
  <2>1. /\ Compacted(rec) = [rec EXCEPT !.job = None]
        /\ Compacted(rec) \in Record
    BY <1>4, SubmissionsAssumption DEF Compacted, Record
  <2> QED BY <2>1, <1>4, SubmissionsAssumption DEF Records, Record
<1> QED BY <1>1, <1>2, <1>3, <1>4 DEF Records, Record

-----------------------------------------------------------------------------
LEMMA SubmissionsStart == SubmissionsInit => SubmissionsInv
<1> SUFFICES ASSUME SubmissionsInit PROVE SubmissionsInv
  OBVIOUS
<1>1. SubmissionsTypeOK
  BY DEF SubmissionsInit, SubmissionsTypeOK, Records
<1>2. \A k \in Keys : records[k] \notin Record
  BY SubmissionsAssumption DEF SubmissionsInit
<1>3. \A r \in Requests : requests[r] = None
  BY DEF SubmissionsInit
<1> QED
  BY <1>1, <1>2, <1>3 DEF SubmissionsInit, SubmissionsInv, Sent, Guarded, OneJobPerKey, Stored, AnswersAreTrue

\* Steps of a request that leave records and jobs alone: what matters is the
\* answer, which may only name a job made for this key and order.
LEMMA AnswerKeeps ==
    ASSUME SubmissionsInv, NEW r \in Requests, requests[r] \in Request,
           requests[r].pc # "answered",
           NEW reply \in Reply, Answer(r, reply),
           UNCHANGED <<records, made, horizons, birth>>,
           reply \in Requests =>
               /\ reply \in made
               /\ requests[reply].key = requests[r].key
               /\ requests[reply].order = requests[r].order
    PROVE  SubmissionsInv'
<1> USE DEF SubmissionsInv
<1>1. /\ requests' \in [Requests -> Request \cup {None}]
      /\ requests'[r] \in Request
      /\ requests'[r].key = requests[r].key /\ requests'[r].order = requests[r].order
      /\ requests'[r].reply = reply
      /\ \A s \in Requests \ {r} : requests'[s] = requests[s]
  BY DEF Answer, Request, SubmissionsTypeOK
<1>2. r \notin made
  BY DEF Sent
<1>3. SubmissionsTypeOK'
  BY <1>1 DEF SubmissionsTypeOK
<1>4. made \subseteq Requests
  BY DEF SubmissionsTypeOK
<1>5. \A s \in made : requests'[s] = requests[s]
  BY <1>1, <1>2, <1>4
<1>6. Sent' /\ Guarded' /\ OneJobPerKey'
  BY <1>5 DEF Sent, Guarded, OneJobPerKey
<1>7. Stored'
  BY <1>5 DEF Stored
<1>8. AnswersAreTrue'
  <2> SUFFICES ASSUME NEW s \in Requests, requests'[s] # None, requests'[s].reply \in Requests
               PROVE  /\ requests'[s].reply \in made
                      /\ requests'[requests'[s].reply].key = requests'[s].key
                      /\ requests'[requests'[s].reply].order = requests'[s].order
    BY DEF AnswersAreTrue
  <2>1. CASE s = r
    BY <2>1, <1>1, <1>5
  <2>2. CASE s # r
    BY <2>2, <1>1, <1>5 DEF AnswersAreTrue
  <2> QED BY <2>1, <2>2
<1> QED BY <1>3, <1>6, <1>7, <1>8

LEMMA ArriveKeeps ==
    ASSUME SubmissionsInv, NEW r \in Requests, NEW k \in Keys, NEW o \in Orders,
           Arrive(r, k, o)
    PROVE  SubmissionsInv'
<1> USE DEF SubmissionsInv
<1>1. /\ requests' \in [Requests -> Request \cup {None}]
      /\ requests'[r].reply = None
      /\ \A s \in Requests \ {r} : requests'[s] = requests[s]
  BY DEF Arrive, Request, Reply, SubmissionsTypeOK
<1>2. r \notin made
  BY SubmissionsAssumption DEF Arrive, Sent
<1>3. SubmissionsTypeOK'
  BY <1>1 DEF Arrive, SubmissionsTypeOK
<1>4. \A s \in made : requests'[s] = requests[s]
  BY <1>1, <1>2 DEF SubmissionsTypeOK
<1>5. Sent' /\ Guarded' /\ OneJobPerKey'
  BY <1>4 DEF Arrive, Sent, Guarded, OneJobPerKey
<1>6. Stored'
  BY <1>4 DEF Arrive, Stored
<1>7. AnswersAreTrue'
  BY <1>1, <1>4, SubmissionsAssumption DEF Arrive, AnswersAreTrue
<1> QED BY <1>3, <1>5, <1>6, <1>7

\* An answer taken from the record of the key is true of it.
LEMMA RecordAnswers ==
    ASSUME SubmissionsInv, NEW r \in Requests, requests[r] \in Request,
           requests[r].pc # "answered", Recorded(r), AnswerFromRecord(r),
           UNCHANGED <<records, made, horizons, birth>>
    PROVE  SubmissionsInv'
<1> DEFINE k == requests[r].key
           o == requests[r].order
           reply == Response(records[k], o)
<1>1. k \in Keys /\ o \in Orders
  BY DEF Request
<1>2. records[k] \in Record
  BY <1>1 DEF SubmissionsInv, SubmissionsTypeOK, Records, Recorded
<1>3. reply \in Reply
  BY <1>1, <1>2, ResponseIsStored DEF Reply
<1>4. ASSUME reply \in Requests
      PROVE  reply \in made /\ requests[reply].key = k /\ requests[reply].order = o
  BY <1>1, <1>2, <1>4, ResponseIsStored DEF SubmissionsInv, Stored
<1>5. Answer(r, reply)
  BY DEF AnswerFromRecord
<1> HIDE DEF reply
<1> QED BY <1>3, <1>4, <1>5, AnswerKeeps

LEMMA LookUpKeeps ==
    ASSUME SubmissionsInv, NEW r \in Requests, LookUp(r)
    PROVE  SubmissionsInv'
<1>1. requests[r] \in Request /\ requests[r].pc = "arrived"
  BY DEF LookUp, SubmissionsInv, SubmissionsTypeOK
<1>2. CASE Recorded(r) /\ AnswerFromRecord(r)
  BY <1>1, <1>2, RecordAnswers DEF LookUp
<1>3. CASE ~Recorded(r) /\ requests' = [requests EXCEPT ![r].pc = "admitted"]
  <2> USE DEF SubmissionsInv
  <2>1. /\ requests' \in [Requests -> Request \cup {None}]
        /\ requests'[r] \in Request
        /\ requests'[r].key = requests[r].key /\ requests'[r].order = requests[r].order
        /\ requests'[r].reply = requests[r].reply
        /\ \A s \in Requests \ {r} : requests'[s] = requests[s]
    BY <1>1, <1>3 DEF Request, SubmissionsTypeOK
  <2>2. r \notin made
    BY <1>1 DEF Sent
  <2>3. SubmissionsTypeOK'
    BY <2>1 DEF LookUp, SubmissionsTypeOK
  <2>4. \A s \in made : requests'[s] = requests[s]
    BY <2>1, <2>2 DEF SubmissionsTypeOK
  <2>5. Sent' /\ Guarded' /\ OneJobPerKey'
    BY <2>4 DEF LookUp, Sent, Guarded, OneJobPerKey
  <2>6. Stored'
    BY <2>4 DEF LookUp, Stored
  <2>7. AnswersAreTrue'
    <3> SUFFICES ASSUME NEW s \in Requests, requests'[s] # None, requests'[s].reply \in Requests
                 PROVE  /\ requests'[s].reply \in made'
                        /\ requests'[requests'[s].reply].key = requests'[s].key
                        /\ requests'[requests'[s].reply].order = requests'[s].order
      BY DEF AnswersAreTrue
    <3>1. requests[s] # None /\ requests[s].reply = requests'[s].reply
          /\ requests[s].key = requests'[s].key /\ requests[s].order = requests'[s].order
      BY <1>1, <2>1, SubmissionsAssumption
    <3> QED BY <3>1, <2>4 DEF LookUp, AnswersAreTrue
  <2> QED BY <2>3, <2>5, <2>6, <2>7
<1> QED BY <1>2, <1>3 DEF LookUp

LEMMA RefuseKeeps ==
    ASSUME SubmissionsInv, NEW r \in Requests, Refuse(r)
    PROVE  SubmissionsInv'
<1>1. requests[r] \in Request /\ requests[r].pc # "answered"
  BY DEF Refuse, SubmissionsInv, SubmissionsTypeOK
<1>2. "refused" \in Reply /\ "refused" \notin Requests
  BY SubmissionsAssumption DEF Reply
<1> QED BY <1>1, <1>2, AnswerKeeps DEF Refuse

\* Records after housekeeping: what stood in the way of a second job before
\* its horizon still does, and stored responses are as true as before.
LEMMA CompactionKeepsRecords ==
    ASSUME SubmissionsInv
    PROVE  /\ AllCompacted \in [Keys -> Records]
           /\ \A k \in Keys : AllCompacted[k] = Compacted(records[k])
           /\ \A k \in Keys : AllCompacted[k] # None /\ AllCompacted[k].age = "live" =>
                 AllCompacted[k].job # None
           /\ \A r \in made :
                 birth[r] = horizons[requests[r].key] =>
                    /\ AllCompacted[requests[r].key] \in Record
                    /\ AllCompacted[requests[r].key].age # "old"
           /\ \A k \in Keys :
                 AllCompacted[k] \in Record /\ AllCompacted[k].job \in Requests =>
                    LET found == AllCompacted[k].job
                    IN /\ found \in made
                       /\ requests[found].key = k
                       /\ requests[found].order = AllCompacted[k].order
<1> USE DEF SubmissionsInv
<1>1. \A k \in Keys : records[k] \in Records
  BY DEF SubmissionsTypeOK
<1>2. \A k \in Keys : AllCompacted[k] = Compacted(records[k])
  BY DEF AllCompacted
<1>3. \A k \in Keys : Compacted(records[k]) \in Records
  BY <1>1, CompactedIsWeaker
<1>4. AllCompacted \in [Keys -> Records]
  BY <1>3 DEF AllCompacted
<1>5. ASSUME NEW k \in Keys, AllCompacted[k] # None, AllCompacted[k].age = "live"
      PROVE  AllCompacted[k].job # None
  <2>1. AllCompacted[k] \in Record
    BY <1>4, <1>5 DEF Records
  <2>2. records[k] \in Record /\ records[k].age = "live" /\ AllCompacted[k].job = records[k].job
    BY <2>1, <1>1, <1>2, <1>5, CompactedIsWeaker
  <2>3. records[k] # None
    BY <2>2, SubmissionsAssumption
  <2> QED BY <2>2, <2>3 DEF SubmissionsTypeOK
<1>6. ASSUME NEW r \in made, birth[r] = horizons[requests[r].key]
      PROVE  /\ AllCompacted[requests[r].key] \in Record
             /\ AllCompacted[requests[r].key].age # "old"
  <2>1. requests[r].key \in Keys
    BY DEF Sent, Request
  <2>2. records[requests[r].key] \in Record /\ records[requests[r].key].age # "old"
    BY <1>6 DEF Guarded
  <2> QED BY <2>1, <2>2, <1>1, <1>2, CompactedIsWeaker
<1>7. ASSUME NEW k \in Keys, AllCompacted[k] \in Record, AllCompacted[k].job \in Requests
      PROVE  /\ AllCompacted[k].job \in made
             /\ requests[AllCompacted[k].job].key = k
             /\ requests[AllCompacted[k].job].order = AllCompacted[k].order
  <2>1. /\ records[k] \in Record
        /\ AllCompacted[k].order = records[k].order
        /\ AllCompacted[k].job \in {records[k].job, None}
    BY <1>1, <1>2, <1>7, CompactedIsWeaker
  <2>2. AllCompacted[k].job = records[k].job
    BY <2>1, <1>7, SubmissionsAssumption
  <2> QED BY <2>1, <2>2, <1>7 DEF Stored
<1> QED BY <1>2, <1>4, <1>5, <1>6, <1>7

LEMMA HousekeepKeeps ==
    ASSUME SubmissionsInv, Housekeep
    PROVE  SubmissionsInv'
<1> USE DEF SubmissionsInv, Housekeep
<1>1. SubmissionsTypeOK'
  BY CompactionKeepsRecords DEF SubmissionsTypeOK
<1>2. Guarded'
  BY CompactionKeepsRecords DEF Guarded
<1>3. Stored'
  BY CompactionKeepsRecords DEF Stored
<1>4. Sent' /\ OneJobPerKey' /\ AnswersAreTrue'
  BY DEF Sent, OneJobPerKey, AnswersAreTrue
<1> QED BY <1>1, <1>2, <1>3, <1>4

\* A job is made only where no record stands, so every earlier job of the key
\* was born before the horizon passed.
LEMMA TransactKeeps ==
    ASSUME SubmissionsInv, NEW r \in Requests, Transact(r)
    PROVE  SubmissionsInv'
<1> DEFINE k == requests[r].key
           o == requests[r].order
<1>1. /\ requests[r] \in Request /\ requests[r].pc = "admitted"
      /\ k \in Keys /\ o \in Orders
  BY DEF Transact, SubmissionsInv, SubmissionsTypeOK, Request
<1>2. CASE Recorded(r) /\ AnswerFromRecord(r) /\ UNCHANGED <<records, made, birth>>
  BY <1>1, <1>2, RecordAnswers DEF Transact
<1>3. CASE /\ ~Recorded(r)
           /\ records' = [AllCompacted EXCEPT ![k] = [order |-> o, job |-> r, age |-> "live"]]
           /\ made' = made \cup {r}
           /\ birth' = [birth EXCEPT ![r] = horizons[k]]
           /\ Answer(r, r)
  <2> USE DEF SubmissionsInv
  <2>1. /\ requests' \in [Requests -> Request \cup {None}]
        /\ requests'[r] \in Request /\ requests'[r].pc = "answered"
        /\ requests'[r].key = k /\ requests'[r].order = o /\ requests'[r].reply = r
        /\ \A s \in Requests \ {r} : requests'[s] = requests[s]
    BY <1>1, <1>3 DEF Answer, Request, Reply, SubmissionsTypeOK
  <2>2. made \subseteq Requests /\ r \notin made /\ horizons' = horizons
    BY <1>1 DEF Transact, SubmissionsTypeOK, Sent
  <2>3. \A s \in made : requests'[s] = requests[s] /\ birth'[s] = birth[s]
    BY <1>3, <2>1, <2>2 DEF SubmissionsTypeOK
  <2>4. birth' \in [Requests -> Nat] /\ birth'[r] = horizons[k]
    BY <1>1, <1>3 DEF SubmissionsTypeOK
  <2>5. /\ records' \in [Keys -> Records]
        /\ records'[k] = [order |-> o, job |-> r, age |-> "live"]
        /\ records'[k] \in Record
        /\ \A l \in Keys \ {k} : records'[l] = AllCompacted[l]
    BY <1>1, <1>3, CompactionKeepsRecords DEF Records, Record
  <2>6. \A s \in made : requests[s].key = k => birth[s] # horizons[k]
    BY <1>1, <1>3, SubmissionsAssumption DEF Recorded, Guarded
  <2>7. SubmissionsTypeOK'
    <3>1. \A l \in Keys : records'[l] # None /\ records'[l].age = "live" => records'[l].job # None
      BY <1>1, <2>5, CompactionKeepsRecords, SubmissionsAssumption
    <3> QED BY <3>1, <1>3, <2>1, <2>2, <2>4, <2>5 DEF SubmissionsTypeOK
  <2>8. Sent'
    BY <1>3, <2>1, <2>3 DEF Sent
  <2>9. Guarded'
    <3> SUFFICES ASSUME NEW s \in made'
                 PROVE  /\ birth'[s] <= horizons[requests'[s].key]
                        /\ birth'[s] = horizons[requests'[s].key] =>
                              /\ records'[requests'[s].key] \in Record
                              /\ records'[requests'[s].key].age # "old"
      BY <2>2 DEF Guarded
    <3>1. CASE s = r
      BY <3>1, <1>1, <2>1, <2>4, <2>5 DEF SubmissionsTypeOK
    <3>2. CASE s \in made
      <4>1. requests[s].key \in Keys
        BY <3>2 DEF Sent, Request
      <4>2. birth[s] <= horizons[requests[s].key]
        BY <3>2 DEF Guarded
      <4>3. birth[s] = horizons[requests[s].key] =>
               requests[s].key # k /\ AllCompacted[requests[s].key] \in Record
               /\ AllCompacted[requests[s].key].age # "old"
        BY <3>2, <2>6, CompactionKeepsRecords
      <4> QED BY <3>2, <4>1, <4>2, <4>3, <2>3, <2>5
    <3> QED BY <3>1, <3>2, <1>3
  <2>10. OneJobPerKey'
    BY <1>3, <2>1, <2>3, <2>4, <2>6 DEF OneJobPerKey
  <2>11. Stored'
    <3> SUFFICES ASSUME NEW l \in Keys, records'[l] \in Record, records'[l].job \in Requests
                 PROVE  /\ records'[l].job \in made'
                        /\ requests'[records'[l].job].key = l
                        /\ requests'[records'[l].job].order = records'[l].order
      BY DEF Stored
    <3>1. CASE l = k
      BY <3>1, <1>3, <2>1, <2>5
    <3>2. CASE l # k
      <4>1. records'[l] = AllCompacted[l]
        BY <3>2, <2>5
      <4> QED BY <4>1, <1>3, <2>3, CompactionKeepsRecords
    <3> QED BY <3>1, <3>2
  <2>12. AnswersAreTrue'
    <3> SUFFICES ASSUME NEW s \in Requests, requests'[s] # None, requests'[s].reply \in Requests
                 PROVE  /\ requests'[s].reply \in made'
                        /\ requests'[requests'[s].reply].key = requests'[s].key
                        /\ requests'[requests'[s].reply].order = requests'[s].order
      BY DEF AnswersAreTrue
    <3>1. CASE s = r
      BY <3>1, <1>3, <2>1
    <3>2. CASE s # r
      BY <3>2, <1>3, <2>1, <2>3 DEF AnswersAreTrue
    <3> QED BY <3>1, <3>2
  <2> QED BY <2>7, <2>8, <2>9, <2>10, <2>11, <2>12
<1> QED BY <1>2, <1>3 DEF Transact

LEMMA LaterKeeps ==
    ASSUME SubmissionsInv, NEW k \in Keys, Later(k)
    PROVE  SubmissionsInv'
<1> USE DEF SubmissionsInv
<1>1. records[k] \in Record
  BY DEF Later, SubmissionsTypeOK, Records
<1>2. PICK age \in {"late", "old"} :
         /\ records' = [records EXCEPT ![k].age = age]
         /\ records[k].age # "old"
         /\ IF age = "late" THEN UNCHANGED horizons
            ELSE horizons' = [horizons EXCEPT ![k] = @ + 1]
  BY DEF Later
<1>3. /\ records' \in [Keys -> Records]
      /\ records'[k] \in Record /\ records'[k].age = age
      /\ records'[k].job = records[k].job /\ records'[k].order = records[k].order
      /\ \A l \in Keys \ {k} : records'[l] = records[l]
  BY <1>1, <1>2 DEF SubmissionsTypeOK, Records, Record
<1>4. /\ horizons' \in [Keys -> Nat]
      /\ \A l \in Keys \ {k} : horizons'[l] = horizons[l]
      /\ horizons'[k] = IF age = "late" THEN horizons[k] ELSE horizons[k] + 1
  BY <1>2 DEF SubmissionsTypeOK
<1>5. UNCHANGED <<requests, made, birth>>
  BY DEF Later
<1>6. SubmissionsTypeOK'
  BY <1>3, <1>4, <1>5 DEF SubmissionsTypeOK
<1>7. Guarded'
  <2> SUFFICES ASSUME NEW s \in made
               PROVE  /\ birth[s] <= horizons'[requests[s].key]
                      /\ birth[s] = horizons'[requests[s].key] =>
                            /\ records'[requests[s].key] \in Record
                            /\ records'[requests[s].key].age # "old"
    BY <1>5 DEF Guarded
  <2>1. requests[s].key \in Keys /\ birth[s] \in Nat /\ birth[s] <= horizons[requests[s].key]
    BY DEF Sent, Request, Guarded, SubmissionsTypeOK
  <2>2. CASE requests[s].key # k
    BY <2>1, <2>2, <1>3, <1>4 DEF Guarded
  <2>3. CASE requests[s].key = k /\ age = "late"
    BY <2>1, <2>3, <1>3, <1>4
  <2>4. CASE requests[s].key = k /\ age = "old"
    BY <2>1, <2>4, <1>3, <1>4 DEF SubmissionsTypeOK
  <2> QED BY <2>2, <2>3, <2>4
<1>8. Stored'
  BY <1>1, <1>3, <1>5 DEF Stored
<1>9. Sent' /\ OneJobPerKey' /\ AnswersAreTrue'
  BY <1>5 DEF Sent, OneJobPerKey, AnswersAreTrue
<1> QED BY <1>6, <1>7, <1>8, <1>9

LEMMA SubmissionsStep == SubmissionsInv /\ [SubmissionsNext]_submissionVars => SubmissionsInv'
<1> SUFFICES ASSUME SubmissionsInv, [SubmissionsNext]_submissionVars PROVE SubmissionsInv'
  OBVIOUS
<1>1. ASSUME NEW r \in Requests, NEW k \in Keys, NEW o \in Orders, Arrive(r, k, o)
      PROVE  SubmissionsInv'
  BY <1>1, ArriveKeeps
<1>2. ASSUME NEW r \in Requests, LookUp(r) PROVE SubmissionsInv'
  BY <1>2, LookUpKeeps
<1>3. ASSUME NEW r \in Requests, Refuse(r) PROVE SubmissionsInv'
  BY <1>3, RefuseKeeps
<1>4. ASSUME NEW r \in Requests, Transact(r) PROVE SubmissionsInv'
  BY <1>4, TransactKeeps
<1>5. CASE Housekeep
  BY <1>5, HousekeepKeeps
<1>6. ASSUME NEW k \in Keys, Later(k) PROVE SubmissionsInv'
  BY <1>6, LaterKeeps
<1>7. CASE UNCHANGED submissionVars
  BY <1>7 DEF submissionVars, SubmissionsInv, SubmissionsTypeOK, Sent, Guarded,
              OneJobPerKey, Stored, AnswersAreTrue
<1> QED BY <1>1, <1>2, <1>3, <1>4, <1>5, <1>6, <1>7 DEF SubmissionsNext

-----------------------------------------------------------------------------
LEMMA SubmissionsInvariant == SubmissionsSpec => []SubmissionsInv
<1> QED BY SubmissionsStart, SubmissionsStep, PTL DEF SubmissionsSpec

\* However requests of a key overlap, fail and are repeated, and whenever its
\* record is compacted, two jobs of one key are a tombstone horizon apart.
THEOREM OneJob == SubmissionsSpec => []OneJobPerKey
<1>1. SubmissionsInv => OneJobPerKey
  BY DEF SubmissionsInv
<1> QED BY <1>1, SubmissionsInvariant, PTL

\* A client is only ever told of a job made under its own key, for its order.
THEOREM TrueAnswers == SubmissionsSpec => []AnswersAreTrue
<1>1. SubmissionsInv => AnswersAreTrue
  BY DEF SubmissionsInv
<1> QED BY <1>1, SubmissionsInvariant, PTL

\* Type correctness, with a response for every record inside its window.
THEOREM SubmissionsTypes == SubmissionsSpec => []SubmissionsTypeOK
<1>1. SubmissionsInv => SubmissionsTypeOK
  BY DEF SubmissionsInv
<1> QED BY <1>1, SubmissionsInvariant, PTL

-----------------------------------------------------------------------------
(***************************************************************************)
(* What the tabs of Review correct, approve and export, for any number of  *)
(* tabs, versions and attempts.                                            *)
(***************************************************************************)

\* No tab knows a version newer than the job's, and one that shows the job's
\* has had it on the screen.
Shown(t) ==
    Exists =>
        /\ tab[t].shows # NoRevision => tab[t].shows.version <= job.version
        /\ tab[t].shows # NoRevision /\ tab[t].shows.version = job.version => t \in seen
        /\ tab[t].answer # NoRevision => tab[t].answer.version <= job.version

\* A row or a running export that says "approved" is of an approved version.
Approved(r) == r.status = "approved" \/ r.approved_at = TRUE => r.version \in approvals

ReviewInv ==
    /\ ReviewTypeOK
    /\ \A t \in Tabs : Shown(t)
    /\ Approved(job) /\ Approved(export)
    /\ NoEditIsLost /\ ApprovalsAreGenuine

TabRecord == [shows: Revision \cup {NoRevision}, answer: Revision \cup {NoRevision}]

\* The range of the versions, which "+ 1" may leave.
LEMMA VersionNumbers ==
    /\ ResultVersions \subseteq Int /\ 1 \in ResultVersions /\ 1 \in 1 .. LastAttempt
    /\ \A v \in ResultVersions : v < LastVersion => v + 1 \in ResultVersions
    /\ \A a \in 1 .. LastAttempt : a < LastAttempt => a + 1 \in 1 .. LastAttempt
  BY ReviewAssumption DEF ResultVersions

LEMMA RevisionNumbers ==
    ASSUME NEW r \in Revision \cup {NoRevision}
    PROVE  r.version \in ResultVersions /\ r.version \in Int
<1>1. CASE r \in Revision
  BY <1>1, VersionNumbers DEF Revision
<1>2. CASE r = NoRevision
  BY <1>2, VersionNumbers DEF NoRevision
<1> QED BY <1>1, <1>2

LEMMA ReviewStart == ReviewInit => ReviewInv
<1> SUFFICES ASSUME ReviewInit PROVE ReviewInv
  OBVIOUS
<1>1. FirstResult \in Revision /\ EmptyTab \in TabRecord
  BY VersionNumbers DEF FirstResult, Revision, EmptyTab, TabRecord
<1>2. ReviewTypeOK
  BY <1>1 DEF ReviewInit, ReviewTypeOK, TabRecord
<1>3. \A t \in Tabs : Shown(t)
  BY DEF ReviewInit, Shown, EmptyTab
<1>4. Approved(job) /\ Approved(export)
  BY DEF ReviewInit, Approved, FirstResult, NoRevision
<1> QED BY <1>2, <1>3, <1>4 DEF ReviewInit, ReviewInv, NoEditIsLost, ApprovalsAreGenuine

\* What a tab, the job and an export are.
LEMMA ReviewTypes ==
    ASSUME ReviewInv, NEW t \in Tabs
    PROVE  /\ job \in Revision \cup {NoRevision} /\ export \in Revision \cup {NoRevision}
           /\ tab \in [Tabs -> TabRecord] /\ tab[t] \in TabRecord
           /\ tab[t].shows \in Revision \cup {NoRevision}
           /\ tab[t].answer \in Revision \cup {NoRevision}
           /\ job.version \in Int /\ tab[t].shows.version \in Int
           /\ tab[t].answer.version \in Int
<1>1. /\ job \in Revision \cup {NoRevision} /\ export \in Revision \cup {NoRevision}
      /\ tab \in [Tabs -> TabRecord] /\ tab[t] \in TabRecord
  BY DEF ReviewInv, ReviewTypeOK, TabRecord
<1>2. /\ tab[t].shows \in Revision \cup {NoRevision}
      /\ tab[t].answer \in Revision \cup {NoRevision}
  BY <1>1 DEF TabRecord
<1> QED BY <1>1, <1>2, RevisionNumbers

\* A tab that may change the job has had its version on the screen.
LEMMA ExpectedIsSeen ==
    ASSUME ReviewInv, NEW t \in Tabs, Expected(t)
    PROVE  Exists /\ job \in Revision /\ t \in seen /\ tab[t].shows = job
  BY ReviewTypes DEF ReviewInv, Expected, Exists, Shown

\* A tab whose record becomes r.
LEMMA TabStep ==
    ASSUME ReviewInv, NEW t \in Tabs, NEW r \in TabRecord,
           tab' = [tab EXCEPT ![t] = r]
    PROVE  /\ tab' \in [Tabs -> TabRecord] /\ tab'[t] = r
           /\ \A u \in Tabs \ {t} : tab'[u] = tab[u]
  BY ReviewTypes

\* A tab shows r and waits for nothing; the job does not change.
LEMMA ShowStep ==
    ASSUME ReviewInv, NEW t \in Tabs, NEW r \in Revision \cup {NoRevision},
           tab' = [tab EXCEPT ![t].shows = r, ![t].answer = NoRevision],
           UNCHANGED <<job, export, audit, blind, approvals, exported>>,
           Exists /\ r # NoRevision => r.version <= job.version,
           seen' = IF Exists /\ r.version = job.version THEN seen \cup {t} ELSE seen
    PROVE  ReviewInv'
<1> DEFINE record == [tab[t] EXCEPT !.shows = r, !.answer = NoRevision]
<1>1. /\ tab \in [Tabs -> TabRecord] /\ tab[t] \in TabRecord
  BY ReviewTypes
<1>2. /\ record \in TabRecord /\ record.shows = r /\ record.answer = NoRevision
  BY <1>1 DEF TabRecord
<1>3. tab' = [tab EXCEPT ![t] = record]
  BY <1>1
<1>4. /\ tab' \in [Tabs -> TabRecord] /\ tab'[t] = record
      /\ \A u \in Tabs \ {t} : tab'[u] = tab[u]
  BY <1>2, <1>3, TabStep
<1>5. ReviewTypeOK'
  BY <1>4 DEF ReviewInv, ReviewTypeOK, TabRecord
<1>6. ASSUME NEW u \in Tabs PROVE Shown(u)'
  <2>1. CASE u = t
    BY <1>2, <1>4, <2>1 DEF Shown, Exists
  <2>2. CASE u # t
    BY <1>4, <2>2 DEF ReviewInv, Shown, Exists
  <2> QED BY <2>1, <2>2
<1> QED BY <1>5, <1>6 DEF ReviewInv, Approved, NoEditIsLost, ApprovalsAreGenuine

LEMMA TabShowStep ==
    ASSUME ReviewInv, NEW t \in Tabs, ShowJob(t) \/ Answered(t) \/ AnswerLost(t)
    PROVE  ReviewInv'
<1>1. /\ job \in Revision \cup {NoRevision} /\ job.version \in Int
      /\ tab \in [Tabs -> TabRecord] /\ tab[t] \in TabRecord
      /\ tab[t].shows \in Revision \cup {NoRevision}
      /\ tab[t].answer \in Revision \cup {NoRevision}
  BY ReviewTypes
<1>2. CASE ShowJob(t)
  <2>1. [tab[t] EXCEPT !.shows = job]
          = [tab[t] EXCEPT !.shows = job, !.answer = NoRevision]
    BY <1>1, <1>2 DEF ShowJob, IdleTab, TabRecord
  <2>2. tab' = [tab EXCEPT ![t].shows = job, ![t].answer = NoRevision]
    BY <1>1, <1>2, <2>1 DEF ShowJob
  <2>3. /\ UNCHANGED <<job, export, audit, blind, approvals, exported>>
        /\ seen' = IF Exists /\ job.version = job.version THEN seen \cup {t} ELSE seen
        /\ job.version <= job.version
    BY <1>1, <1>2 DEF ShowJob, Sees
  <2> QED BY <1>1, <2>2, <2>3, ShowStep
<1>3. CASE Answered(t)
  <2>1. tab' = [tab EXCEPT ![t].shows = tab[t].answer, ![t].answer = NoRevision]
    BY <1>3 DEF Answered
  <2>2. Exists /\ tab[t].answer # NoRevision => tab[t].answer.version <= job.version
    BY DEF ReviewInv, Shown
  <2> QED BY <1>1, <1>3, <2>1, <2>2, ShowStep DEF Answered, Sees
<1>4. CASE AnswerLost(t)
  <2> DEFINE record == [tab[t] EXCEPT !.answer = NoRevision]
  <2>1. record \in TabRecord /\ record.shows = tab[t].shows /\ record.answer = NoRevision
    BY <1>1 DEF TabRecord
  <2>2. tab' = [tab EXCEPT ![t] = record]
    BY <1>1, <1>4 DEF AnswerLost
  <2>3. /\ tab' \in [Tabs -> TabRecord] /\ tab'[t] = record
        /\ \A u \in Tabs \ {t} : tab'[u] = tab[u]
    BY <2>1, <2>2, TabStep
  <2>4. ReviewTypeOK'
    BY <1>4, <2>3 DEF AnswerLost, ReviewInv, ReviewTypeOK, TabRecord
  <2>5. ASSUME NEW u \in Tabs PROVE Shown(u)'
    <3>1. CASE u = t
      BY <1>4, <2>1, <2>3, <3>1 DEF AnswerLost, ReviewInv, Shown, Exists
    <3>2. CASE u # t
      BY <1>4, <2>3, <3>2 DEF AnswerLost, ReviewInv, Shown, Exists
    <3> QED BY <3>1, <3>2
  <2> QED BY <1>4, <2>4, <2>5
          DEF AnswerLost, ReviewInv, Approved, NoEditIsLost, ApprovalsAreGenuine
<1> QED BY <1>2, <1>3, <1>4

LEMMA StoreCorrectionStep ==
    ASSUME ReviewInv, NEW t \in Tabs, StoreCorrection(t) PROVE ReviewInv'
<1> DEFINE c == [job EXCEPT !.version = @ + 1, !.status = "review", !.approved_at = FALSE]
           record == [tab[t] EXCEPT !.answer = c]
<1>1. /\ Exists /\ job \in Revision /\ t \in seen /\ job.version < LastVersion
      /\ IdleTab(t) /\ seen' = {} /\ blind' = blind
      /\ job' = c /\ tab' = [tab EXCEPT ![t].answer = c]
      /\ UNCHANGED <<export, audit, approvals, exported>>
  BY ExpectedIsSeen DEF StoreCorrection, Blindly
<1>2. /\ c \in Revision /\ c.version = job.version + 1
      /\ c.status = "review" /\ c.approved_at = FALSE
  BY <1>1, VersionNumbers DEF Revision
<1>3. /\ tab \in [Tabs -> TabRecord] /\ tab[t] \in TabRecord
  BY ReviewTypes
<1>4. record \in TabRecord /\ record.shows = tab[t].shows /\ record.answer = c
  BY <1>2, <1>3 DEF TabRecord
<1>5. tab' = [tab EXCEPT ![t] = record]
  BY <1>1, <1>3
<1>6. /\ tab' \in [Tabs -> TabRecord] /\ tab'[t] = record
      /\ \A u \in Tabs \ {t} : tab'[u] = tab[u]
  BY <1>4, <1>5, TabStep
<1>7. ReviewTypeOK'
  BY <1>1, <1>2, <1>6 DEF ReviewInv, ReviewTypeOK, TabRecord
<1>8. ASSUME NEW u \in Tabs PROVE Shown(u)'
  <2>1. /\ job.version \in Int /\ tab[u].shows.version \in Int /\ tab[u].answer.version \in Int
        /\ tab[u].shows # NoRevision => tab[u].shows.version <= job.version
        /\ tab[u].answer # NoRevision => tab[u].answer.version <= job.version
    BY <1>1, ReviewTypes DEF ReviewInv, Shown
  <2>2. CASE u = t
    BY <1>1, <1>2, <1>4, <1>6, <2>1, <2>2 DEF Shown
  <2>3. CASE u # t
    BY <1>1, <1>2, <1>6, <2>1, <2>3 DEF Shown
  <2> QED BY <2>2, <2>3
<1>9. Approved(job)' /\ Approved(export)'
  BY <1>1, <1>2 DEF ReviewInv, Approved
<1> QED BY <1>1, <1>7, <1>8, <1>9 DEF ReviewInv, NoEditIsLost, ApprovalsAreGenuine

LEMMA ApproveStep ==
    ASSUME ReviewInv, NEW t \in Tabs, Approve(t) PROVE ReviewInv'
<1> DEFINE a == [job EXCEPT !.status = "approved", !.approved_at = TRUE]
           record == [tab[t] EXCEPT !.shows = a]
<1>1. /\ Exists /\ job \in Revision /\ t \in seen /\ IdleTab(t)
      /\ blind' = blind /\ approvals' = approvals \cup {job.version}
      /\ job' = a /\ tab' = [tab EXCEPT ![t].shows = a]
      /\ UNCHANGED <<export, audit, seen, exported>>
  BY ExpectedIsSeen DEF Approve, Blindly
<1>2. a \in Revision /\ a.version = job.version /\ job.version \in ResultVersions
  BY <1>1 DEF Revision
<1>3. /\ tab \in [Tabs -> TabRecord] /\ tab[t] \in TabRecord /\ job.version \in Int
  BY ReviewTypes
<1>4. record \in TabRecord /\ record.shows = a /\ record.answer = NoRevision
  BY <1>1, <1>2, <1>3 DEF TabRecord, IdleTab
<1>5. tab' = [tab EXCEPT ![t] = record]
  BY <1>1, <1>3
<1>6. /\ tab' \in [Tabs -> TabRecord] /\ tab'[t] = record
      /\ \A u \in Tabs \ {t} : tab'[u] = tab[u]
  BY <1>4, <1>5, TabStep
<1>7. ReviewTypeOK'
  BY <1>1, <1>2, <1>6 DEF ReviewInv, ReviewTypeOK, TabRecord
<1>8. ASSUME NEW u \in Tabs PROVE Shown(u)'
  <2>1. CASE u = t
    BY <1>1, <1>2, <1>3, <1>4, <1>6, <2>1 DEF Shown
  <2>2. CASE u # t
    BY <1>1, <1>2, <1>6, <2>2 DEF ReviewInv, Shown
  <2> QED BY <2>1, <2>2
<1>9. Approved(job)' /\ Approved(export)'
  BY <1>1, <1>2 DEF ReviewInv, Approved
<1> QED BY <1>1, <1>7, <1>8, <1>9 DEF ReviewInv, NoEditIsLost, ApprovalsAreGenuine

LEMMA StartExportStep ==
    ASSUME ReviewInv, NEW t \in Tabs, StartExport(t) PROVE ReviewInv'
<1>1. /\ job \in Revision /\ export' = job
      /\ UNCHANGED <<job, tab, audit, seen, blind, approvals, exported>>
  BY ExpectedIsSeen DEF StartExport
<1>2. ReviewTypeOK'
  BY <1>1 DEF ReviewInv, ReviewTypeOK
<1>3. Approved(job)' /\ Approved(export)'
  BY <1>1 DEF ReviewInv, Approved
<1> QED BY <1>1, <1>2, <1>3
        DEF ReviewInv, Shown, Exists, NoEditIsLost, ApprovalsAreGenuine

LEMMA FinishExportStep ==
    ASSUME ReviewInv, FinishExport PROVE ReviewInv'
<1>1. /\ export \in Revision /\ export' = NoRevision
      /\ UNCHANGED <<job, tab, seen, blind, approvals>>
      /\ \/ /\ audit' = audit \cup {ClaimOf(export)}
            /\ exported' = exported \cup {ClaimOf(export)}
         \/ UNCHANGED <<audit, exported>>
  BY DEF FinishExport, ReviewInv, ReviewTypeOK
<1>2. /\ ClaimOf(export) \in Claim
      /\ ClaimOf(export).approved => ClaimOf(export).version \in approvals
  BY <1>1 DEF ReviewInv, Approved, ClaimOf, Claim, Revision
<1>3. ReviewTypeOK'
  BY <1>1, <1>2 DEF ReviewInv, ReviewTypeOK
<1>4. ApprovalsAreGenuine'
  BY <1>1, <1>2 DEF ReviewInv, ApprovalsAreGenuine
<1>5. Approved(job)' /\ Approved(export)'
  BY <1>1 DEF ReviewInv, Approved, NoRevision
<1> QED BY <1>1, <1>3, <1>4, <1>5 DEF ReviewInv, Shown, Exists, NoEditIsLost

\* The row changes under the tabs: what they show stays a version of the past,
\* or of now if the version is still the same.
LEMMA JobStep ==
    ASSUME ReviewInv, Exists, NEW r \in Revision \cup {NoRevision}, JobBecomes(r),
           r # NoRevision => r.version = job.version \/ r.version = job.version + 1,
           r.status = "approved" \/ r.approved_at = TRUE =>
               r.version = job.version /\ job.approved_at = TRUE
    PROVE  ReviewInv'
<1>1. /\ job' = r /\ UNCHANGED <<tab, export, audit, blind, approvals, exported>>
      /\ seen' = IF r.version = job.version THEN seen ELSE {}
  BY DEF JobBecomes
<1>2. ReviewTypeOK'
  BY <1>1 DEF ReviewInv, ReviewTypeOK
<1>3. ASSUME NEW u \in Tabs PROVE Shown(u)'
  <2>1. /\ job.version \in Int /\ tab[u].shows.version \in Int /\ tab[u].answer.version \in Int
        /\ tab[u].shows # NoRevision => tab[u].shows.version <= job.version
        /\ tab[u].shows # NoRevision /\ tab[u].shows.version = job.version => u \in seen
        /\ tab[u].answer # NoRevision => tab[u].answer.version <= job.version
    BY ReviewTypes DEF ReviewInv, Shown
  <2>2. CASE r = NoRevision
    BY <1>1, <2>2 DEF Shown, Exists
  <2>3. CASE r # NoRevision /\ r.version = job.version
    BY <1>1, <2>1, <2>3 DEF Shown
  <2>4. CASE r # NoRevision /\ r.version = job.version + 1
    BY <1>1, <2>1, <2>4 DEF Shown
  <2> QED BY <2>2, <2>3, <2>4
<1>4. Approved(job)' /\ Approved(export)'
  BY <1>1 DEF ReviewInv, Approved
<1> QED BY <1>1, <1>2, <1>3, <1>4 DEF ReviewInv, NoEditIsLost, ApprovalsAreGenuine

LEMMA RowStep ==
    ASSUME ReviewInv, Reprocess \/ PublishResult \/ AttemptEnds \/ DeleteReviewed
    PROVE  ReviewInv'
<1>1. Exists /\ job \in Revision
  BY DEF ReviewInv, ReviewTypeOK, Exists, NoRevision,
         Reprocess, PublishResult, AttemptEnds, DeleteReviewed
<1>2. /\ Approved(job) /\ job.version \in Int /\ job.attempt \in 1 .. LastAttempt
      /\ job.version \in ResultVersions /\ job.approved_at \in BOOLEAN
  BY <1>1, VersionNumbers DEF ReviewInv, Revision
<1>3. CASE Reprocess
  <2> DEFINE r == [job EXCEPT !.status = "busy", !.attempt = @ + 1]
  <2>1. JobBecomes(r) /\ job.attempt < LastAttempt
    BY <1>3 DEF Reprocess
  <2>2. /\ r \in Revision /\ r.version = job.version /\ r.status = "busy"
        /\ r.approved_at = job.approved_at
    BY <1>1, <1>2, <2>1, VersionNumbers DEF Revision
  <2> HIDE DEF r
  <2> QED BY <1>1, <2>1, <2>2, JobStep
<1>4. CASE PublishResult
  <2> DEFINE r == [job EXCEPT !.status = "review", !.version = @ + 1, !.approved_at = FALSE]
  <2>1. JobBecomes(r) /\ job.version < LastVersion
    BY <1>4 DEF PublishResult
  <2>2. /\ r \in Revision /\ r.version = job.version + 1 /\ r.status = "review"
        /\ r.approved_at = FALSE
    BY <1>1, <1>2, <2>1, VersionNumbers DEF Revision
  <2> HIDE DEF r
  <2> QED BY <1>1, <2>1, <2>2, JobStep
<1>5. CASE AttemptEnds
  <2> DEFINE r == [job EXCEPT !.status = IF job.approved_at THEN "approved" ELSE "review"]
  <2>1. JobBecomes(r)
    BY <1>5 DEF AttemptEnds
  <2>2. /\ r \in Revision /\ r.version = job.version
        /\ r.approved_at = job.approved_at
        /\ r.status = "approved" => job.approved_at = TRUE
    BY <1>1, <1>2 DEF Revision
  <2> HIDE DEF r
  <2> QED BY <1>1, <2>1, <2>2, JobStep
<1>6. CASE DeleteReviewed
  BY <1>1, <1>6, JobStep DEF DeleteReviewed, NoRevision
<1> QED BY <1>3, <1>4, <1>5, <1>6

LEMMA ReviewStep == ReviewInv /\ [ReviewNext]_reviewVars => ReviewInv'
<1> SUFFICES ASSUME ReviewInv, [ReviewNext]_reviewVars PROVE ReviewInv'
  OBVIOUS
<1>1. CASE ReviewNext
  BY <1>1, TabShowStep, StoreCorrectionStep, ApproveStep, StartExportStep,
     FinishExportStep, RowStep DEF ReviewNext
<1>2. CASE UNCHANGED reviewVars
  <2>1. UNCHANGED <<job, tab, export, audit, seen, blind, approvals, exported>>
    BY <1>2 DEF reviewVars
  <2>2. ReviewTypeOK'
    BY <2>1 DEF ReviewInv, ReviewTypeOK
  <2> QED BY <2>1, <2>2
          DEF ReviewInv, Shown, Exists, Approved, NoEditIsLost, ApprovalsAreGenuine
<1> QED BY <1>1, <1>2

-----------------------------------------------------------------------------
(* The theorems                                                            *)

\* In every state the types hold, no tab shows a version it has not had on the
\* screen, and what says "approved" was approved.
THEOREM ReviewInvariant == ReviewSpec => []ReviewInv
  BY ReviewStart, ReviewStep, PTL DEF ReviewSpec

\* _assert_review_revision: whatever the tabs, the worker and lost answers do,
\* no correction replaces a version that its author has not seen.
THEOREM CorrectionsAreOfWhatWasSeen == ReviewSpec => []NoEditIsLost
<1>1. ReviewInv => NoEditIsLost
  BY DEF ReviewInv
<1> QED BY <1>1, ReviewInvariant, PTL

\* approve and export: nothing is approved unseen, and an export that says
\* "approved" is of a version that was, and is in the log.
THEOREM ExportsTellTheTruth == ReviewSpec => []ApprovalsAreGenuine
<1>1. ReviewInv => ApprovalsAreGenuine
  BY DEF ReviewInv
<1> QED BY <1>1, ReviewInvariant, PTL

-----------------------------------------------------------------------------
(***************************************************************************)
(* The slots and the windows of Admission, for any number of clients and   *)
(* slots, any limit and any clock.                                         *)
(***************************************************************************)

\* What a request of a client can be.
Slotted == [group: Groups, waits: BOOLEAN, work: Work]

\* Request r holds a slot of group g.
Holding(r, g) ==
    \/ r.group = g /\ r.work \in {"running", "credentials"}
    \/ g = "auth" /\ r.work = "credentials"

\* A window that the clock may still show has kept its count.
Counted ==
    /\ window >= latest - KeptWindows
    /\ \A w \in Windows :
          w >= latest - KeptWindows => passed[w] <= rate[w]

\* Only a registration asks for a second slot.
SecondSlots == \A c \in Clients : ClientAt(c, "credentials") => client[c].group = "email"

AdmissionInv ==
    /\ AdmissionTypeOK
    /\ SlotsMatchWork
    /\ SecondSlots
    /\ Counted
    /\ WindowHolds

LEMMA GroupNames == {"auth", "email"} \subseteq Groups
  BY DEF Groups

LEMMA ZeroWindow == 0 \in Windows /\ Windows \subseteq Nat
  BY AdmissionAssumption DEF Windows

LEMMA HoldersFinite ==
    ASSUME NEW g
    PROVE  IsFiniteSet(Holders(g)) /\ Cardinality(Holders(g)) \in Nat
  BY AdmissionAssumption, FS_Subset, FS_CardinalityType DEF Holders

LEMMA AdmissionStart == AdmissionInit => AdmissionInv
<1> SUFFICES ASSUME AdmissionInit PROVE AdmissionInv
  OBVIOUS
<1>1. NoRequest \in [group: Groups, waits: BOOLEAN, work: Work]
  BY GroupNames DEF NoRequest, Work
<1>2. Slots \in [Groups -> Nat]
  BY AdmissionAssumption
<1>3. AdmissionTypeOK
  BY <1>1, <1>2, ZeroWindow DEF AdmissionInit, AdmissionTypeOK
<1>4. \A g \in Groups : Holders(g) = {}
  BY DEF AdmissionInit, Holders, ClientAt, NoRequest
<1>5. SlotsMatchWork
  BY <1>2, <1>4, FS_EmptySet DEF AdmissionInit, SlotsMatchWork
<1>6. Counted /\ WindowHolds /\ SecondSlots
  BY AdmissionAssumption
  DEF AdmissionInit, Counted, WindowHolds, SecondSlots, ClientAt, NoRequest
<1> QED BY <1>3, <1>5, <1>6 DEF AdmissionInv

\* One client changes: how many hold a slot of group g.
LEMMA HoldersStep ==
    ASSUME NEW c \in Clients, NEW g,
           \A e \in Clients \ {c} : client'[e] = client[e]
    PROVE  /\ Holding(client'[c], g) /\ ~Holding(client[c], g) =>
                  Cardinality(Holders(g)') = Cardinality(Holders(g)) + 1
           /\ ~Holding(client'[c], g) /\ Holding(client[c], g) =>
                  Cardinality(Holders(g)') = Cardinality(Holders(g)) - 1
           /\ (Holding(client'[c], g) <=> Holding(client[c], g)) =>
                  Holders(g)' = Holders(g)
<1>1. IsFiniteSet(Holders(g)) /\ Cardinality(Holders(g)) \in Nat
  BY HoldersFinite
<1>2. /\ Holders(g) = {e \in Clients : Holding(client[e], g)}
      /\ Holders(g)' = {e \in Clients : Holding(client'[e], g)}
  BY DEF Holders, Holding, ClientAt
<1>3. CASE Holding(client'[c], g) /\ ~Holding(client[c], g)
  <2>1. Holders(g)' = Holders(g) \cup {c} /\ c \notin Holders(g)
    BY <1>2, <1>3
  <2> QED BY <1>1, <1>3, <2>1, FS_AddElement
<1>4. CASE ~Holding(client'[c], g) /\ Holding(client[c], g)
  <2>1. Holders(g)' = Holders(g) \ {c} /\ c \in Holders(g)
    BY <1>2, <1>4
  <2> QED BY <1>1, <1>4, <2>1, FS_RemoveElement
<1>5. CASE Holding(client'[c], g) <=> Holding(client[c], g)
  BY <1>2, <1>5
<1> QED BY <1>3, <1>4, <1>5

LEMMA WorkStep ==
    ASSUME AdmissionTypeOK, NEW c \in Clients, NEW work \in Work, WorkTo(c, work)
    PROVE  /\ client' \in [Clients -> Slotted]
           /\ \A e \in Clients \ {c} : client'[e] = client[e]
           /\ client'[c].group = client[c].group
           /\ client'[c].work = work
           /\ client[c].group \in Groups
<1> DEFINE r == [client[c] EXCEPT !.work = work]
<1>1. client \in [Clients -> Slotted] /\ client[c] \in Slotted
  BY DEF AdmissionTypeOK, Slotted
<1>2. /\ r \in Slotted /\ r.group = client[c].group /\ r.work = work
      /\ client[c].group \in Groups
  BY <1>1 DEF Slotted
<1>3. client' = [client EXCEPT ![c] = r]
  BY <1>1 DEF WorkTo
<1> QED BY <1>1, <1>2, <1>3

\* A slot is taken by a client that now holds one more.
LEMMA TakeStep ==
    ASSUME AdmissionInv, NEW c \in Clients, NEW g \in Groups, Take(g),
           \A e \in Clients \ {c} : client'[e] = client[e],
           Holding(client'[c], g) /\ ~Holding(client[c], g),
           \A h \in Groups \ {g} : Holding(client'[c], h) <=> Holding(client[c], h)
    PROVE  SlotsMatchWork' /\ semaphore' \in [Groups -> Nat]
<1>1. /\ semaphore \in [Groups -> Nat] /\ semaphore[g] > 0
      /\ semaphore' = [semaphore EXCEPT ![g] = @ - 1]
  BY DEF AdmissionInv, AdmissionTypeOK, Take
<1>2. /\ semaphore' \in [Groups -> Nat] /\ semaphore'[g] = semaphore[g] - 1
      /\ \A h \in Groups \ {g} : semaphore'[h] = semaphore[h]
  BY <1>1
<1>3. Cardinality(Holders(g)') = Cardinality(Holders(g)) + 1
  BY HoldersStep
<1>4. \A h \in Groups \ {g} : Holders(h)' = Holders(h)
  BY HoldersStep
<1>5. semaphore'[g] + Cardinality(Holders(g)') = Slots[g]
  BY <1>1, <1>2, <1>3, HoldersFinite DEF AdmissionInv, SlotsMatchWork
<1>6. ASSUME NEW h \in Groups \ {g}
      PROVE  semaphore'[h] + Cardinality(Holders(h)') = Slots[h]
  BY <1>2, <1>4 DEF AdmissionInv, SlotsMatchWork
<1> QED BY <1>2, <1>5, <1>6 DEF SlotsMatchWork

\* A slot is given back by a client that held it.
LEMMA GiveBackStep ==
    ASSUME AdmissionInv, NEW c \in Clients, NEW g \in Groups, GiveBack(g),
           \A e \in Clients \ {c} : client'[e] = client[e],
           ~Holding(client'[c], g) /\ Holding(client[c], g),
           \A h \in Groups \ {g} : Holding(client'[c], h) <=> Holding(client[c], h)
    PROVE  SlotsMatchWork' /\ semaphore' \in [Groups -> Nat]
<1>1. /\ semaphore \in [Groups -> Nat]
      /\ semaphore' = [semaphore EXCEPT ![g] = @ + 1]
  BY DEF AdmissionInv, AdmissionTypeOK, GiveBack
<1>2. /\ semaphore' \in [Groups -> Nat] /\ semaphore'[g] = semaphore[g] + 1
      /\ \A h \in Groups \ {g} : semaphore'[h] = semaphore[h]
  BY <1>1
<1>3. Cardinality(Holders(g)') = Cardinality(Holders(g)) - 1
  BY HoldersStep
<1>4. \A h \in Groups \ {g} : Holders(h)' = Holders(h)
  BY HoldersStep
<1>5. semaphore'[g] + Cardinality(Holders(g)') = Slots[g]
  BY <1>1, <1>2, <1>3, HoldersFinite DEF AdmissionInv, SlotsMatchWork
<1>6. ASSUME NEW h \in Groups \ {g}
      PROVE  semaphore'[h] + Cardinality(Holders(h)') = Slots[h]
  BY <1>2, <1>4 DEF AdmissionInv, SlotsMatchWork
<1> QED BY <1>2, <1>5, <1>6 DEF SlotsMatchWork

\* No slot changes hands.
LEMMA KeepSlots ==
    ASSUME AdmissionInv, NEW c \in Clients, UNCHANGED semaphore,
           \A e \in Clients \ {c} : client'[e] = client[e],
           \A g \in Groups : Holding(client'[c], g) <=> Holding(client[c], g)
    PROVE  SlotsMatchWork'
<1>1. \A g \in Groups : Holders(g)' = Holders(g)
  BY HoldersStep
<1> QED BY <1>1 DEF AdmissionInv, SlotsMatchWork

\* A step that counts nothing.
LEMMA KeepCounts ==
    ASSUME AdmissionInv, UNCHANGED <<window, latest, rate, passed>>,
           client' \in [Clients -> Slotted], semaphore' \in [Groups -> Nat],
           SlotsMatchWork', SecondSlots'
    PROVE  AdmissionInv'
<1>1. AdmissionTypeOK'
  BY DEF AdmissionInv, AdmissionTypeOK, Slotted
<1>2. Counted' /\ WindowHolds'
  BY DEF AdmissionInv, Counted, WindowHolds
<1> QED BY <1>1, <1>2 DEF AdmissionInv

LEMMA GuardRequestStep ==
    ASSUME AdmissionInv, NEW c \in Clients, GuardRequest(c) PROVE AdmissionInv'
<1>1. /\ AdmissionTypeOK /\ ClientAt(c, "none")
      /\ UNCHANGED <<window, latest, semaphore>>
  BY DEF AdmissionInv, GuardRequest
<1>2. PICK g \in Groups :
          \/ /\ rate' = [rate EXCEPT ![window] = @ + 1]
             /\ IF rate[window] + 1 <= RateLimit
                THEN /\ client' = [client EXCEPT ![c] =
                                     [group |-> g, waits |-> TRUE, work |-> "counted"]]
                     /\ passed' = [passed EXCEPT ![window] = @ + 1]
                ELSE WorkTo(c, "over") /\ UNCHANGED passed
          \/ /\ rate[window] = 0
             /\ WorkTo(c, "over")
             /\ UNCHANGED <<rate, passed>>
  BY DEF GuardRequest
<1>3. /\ window \in Windows /\ rate \in [Windows -> Nat] /\ passed \in [Windows -> Nat]
      /\ latest \in Windows /\ semaphore \in [Groups -> Nat]
      /\ Windows \subseteq Nat /\ RateLimit \in Nat /\ KeptWindows \in Nat
  BY <1>1, ZeroWindow, AdmissionAssumption DEF AdmissionTypeOK
<1>4. passed[window] <= rate[window]
  BY <1>3 DEF AdmissionInv, Counted
<1>5. /\ client' \in [Clients -> Slotted] /\ client'[c].work \in {"counted", "over"}
      /\ \A e \in Clients \ {c} : client'[e] = client[e]
  <2>1. CASE WorkTo(c, "over")
    <3>1. "over" \in Work
      BY DEF Work
    <3> QED BY <1>1, <2>1, <3>1, WorkStep
  <2>2. CASE client' = [client EXCEPT ![c] =
                            [group |-> g, waits |-> TRUE, work |-> "counted"]]
    <3>1. [group |-> g, waits |-> TRUE, work |-> "counted"] \in Slotted
      BY DEF Slotted, Work
    <3>2. client \in [Clients -> Slotted]
      BY <1>1 DEF AdmissionTypeOK, Slotted
    <3> QED BY <2>2, <3>1, <3>2
  <2> QED BY <1>2, <2>1, <2>2
<1>6. SlotsMatchWork'
  BY <1>1, <1>5, KeepSlots DEF Holding, ClientAt
<1>a. SecondSlots'
  BY <1>5 DEF AdmissionInv, SecondSlots, ClientAt
<1>7. /\ rate' \in [Windows -> Nat] /\ passed' \in [Windows -> Nat]
      /\ \A w \in Windows \ {window} : rate'[w] = rate[w] /\ passed'[w] = passed[w]
      /\ passed'[window] <= rate'[window] /\ passed'[window] <= RateLimit
  <2>1. CASE /\ rate' = [rate EXCEPT ![window] = @ + 1]
             /\ rate[window] + 1 <= RateLimit
             /\ passed' = [passed EXCEPT ![window] = @ + 1]
    BY <1>3, <1>4, <2>1
  <2>2. CASE rate' = [rate EXCEPT ![window] = @ + 1] /\ UNCHANGED passed
    BY <1>3, <1>4, <2>2 DEF AdmissionInv, WindowHolds
  <2>3. CASE UNCHANGED <<rate, passed>>
    BY <1>3, <1>4, <2>3 DEF AdmissionInv, WindowHolds
  <2> QED BY <1>2, <2>1, <2>2, <2>3
<1>8. AdmissionTypeOK'
  BY <1>1, <1>5, <1>7 DEF AdmissionTypeOK, Slotted
<1>9. Counted' /\ WindowHolds'
  BY <1>1, <1>3, <1>7 DEF AdmissionInv, Counted, WindowHolds
<1> QED BY <1>6, <1>8, <1>9, <1>a DEF AdmissionInv

LEMMA SlotStep ==
    ASSUME AdmissionInv, NEW c \in Clients,
           \/ Acquire(c) \/ TurnedAway(c) \/ HashCredentials(c) \/ SendMail(c)
           \/ WorkEnds(c) \/ Disconnect(c)
    PROVE  AdmissionInv'
<1>1. /\ AdmissionTypeOK /\ semaphore \in [Groups -> Nat]
      /\ client \in [Clients -> Slotted] /\ client[c].group \in Groups
      /\ UNCHANGED <<window, latest, rate, passed>>
  BY DEF AdmissionInv, AdmissionTypeOK, Slotted,
         Acquire, TurnedAway, HashCredentials, SendMail, WorkEnds, Disconnect
<1>2. {"running", "over", "credentials"} \subseteq Work
  BY DEF Work
<1>3. SUFFICES /\ client' \in [Clients -> Slotted] /\ semaphore' \in [Groups -> Nat]
               /\ SlotsMatchWork' /\ SecondSlots'
  BY <1>1, KeepCounts
<1>4. CASE Acquire(c)
  <2>1. /\ ClientAt(c, "counted") /\ Take(client[c].group) /\ WorkTo(c, "running")
    BY <1>4 DEF Acquire
  <2>2. /\ client' \in [Clients -> Slotted] /\ client'[c].group = client[c].group
        /\ client'[c].work = "running"
        /\ \A e \in Clients \ {c} : client'[e] = client[e]
    BY <1>1, <1>2, <2>1, WorkStep
  <2> QED BY <1>1, <2>1, <2>2, TakeStep
         DEF AdmissionInv, SecondSlots, Holding, ClientAt
<1>5. CASE TurnedAway(c)
  <2>1. ClientAt(c, "counted") /\ WorkTo(c, "over") /\ UNCHANGED semaphore
    BY <1>5 DEF TurnedAway
  <2>2. /\ client' \in [Clients -> Slotted] /\ client'[c].work = "over"
        /\ \A e \in Clients \ {c} : client'[e] = client[e]
    BY <1>1, <1>2, <2>1, WorkStep
  <2> QED BY <1>1, <2>1, <2>2, KeepSlots
         DEF AdmissionInv, SecondSlots, Holding, ClientAt
<1>6. CASE HashCredentials(c)
  <2>1. /\ ClientAt(c, "running") /\ client[c].group = "email"
        /\ Take("auth") /\ WorkTo(c, "credentials")
    BY <1>6 DEF HashCredentials
  <2>2. /\ client' \in [Clients -> Slotted] /\ client'[c].group = "email"
        /\ client'[c].work = "credentials"
        /\ \A e \in Clients \ {c} : client'[e] = client[e]
    BY <1>1, <1>2, <2>1, WorkStep
  <2>3. /\ Holding(client'[c], "auth") /\ ~Holding(client[c], "auth")
        /\ \A h \in Groups \ {"auth"} : Holding(client'[c], h) <=> Holding(client[c], h)
    BY <2>1, <2>2 DEF Holding, ClientAt
  <2> QED BY <2>1, <2>2, <2>3, GroupNames, TakeStep
         DEF AdmissionInv, SecondSlots, ClientAt
<1>7. CASE SendMail(c)
  <2>1. ClientAt(c, "credentials") /\ GiveBack("auth") /\ WorkTo(c, "running")
    BY <1>7 DEF SendMail
  <2>2. /\ client' \in [Clients -> Slotted] /\ client'[c].group = client[c].group
        /\ client'[c].work = "running"
        /\ \A e \in Clients \ {c} : client'[e] = client[e]
    BY <1>1, <1>2, <2>1, WorkStep
  <2>3. /\ ~Holding(client'[c], "auth") /\ Holding(client[c], "auth")
        /\ \A h \in Groups \ {"auth"} : Holding(client'[c], h) <=> Holding(client[c], h)
    BY <2>1, <2>2 DEF AdmissionInv, SecondSlots, Holding, ClientAt
  <2> QED BY <2>1, <2>2, <2>3, GroupNames, GiveBackStep
         DEF AdmissionInv, SecondSlots, ClientAt
<1>8. CASE WorkEnds(c)
  <2>1. ClientAt(c, "running") /\ GiveBack(client[c].group) /\ WorkTo(c, "over")
    BY <1>8 DEF WorkEnds
  <2>2. /\ client' \in [Clients -> Slotted] /\ client'[c].work = "over"
        /\ \A e \in Clients \ {c} : client'[e] = client[e]
    BY <1>1, <1>2, <2>1, WorkStep
  <2> QED BY <1>1, <2>1, <2>2, GiveBackStep
         DEF AdmissionInv, SecondSlots, Holding, ClientAt
<1>9. CASE Disconnect(c)
  <2> DEFINE r == [client[c] EXCEPT !.waits = FALSE]
  <2>1. r \in Slotted /\ r.group = client[c].group /\ r.work = client[c].work
    BY <1>1 DEF Slotted
  <2>2. client' = [client EXCEPT ![c] = r] /\ UNCHANGED semaphore
    BY <1>1, <1>9 DEF Disconnect
  <2>3. /\ client' \in [Clients -> Slotted] /\ client'[c] = r
        /\ \A e \in Clients \ {c} : client'[e] = client[e]
    BY <1>1, <2>1, <2>2
  <2> QED BY <1>1, <2>1, <2>2, <2>3, KeepSlots
         DEF AdmissionInv, SecondSlots, Holding, ClientAt
<1> QED BY <1>4, <1>5, <1>6, <1>7, <1>8, <1>9

LEMMA SameClients ==
    ASSUME SlotsMatchWork, UNCHANGED <<client, semaphore>> PROVE SlotsMatchWork'
  BY DEF SlotsMatchWork, Holders, ClientAt

\* The count of a window that the clock cannot show again may go.
LEMMA WindowsStep ==
    ASSUME AdmissionInv, ForgetWindows \/ WindowChanges PROVE AdmissionInv'
<1>1. /\ window \in Windows /\ latest \in Windows /\ window <= latest
      /\ rate \in [Windows -> Nat] /\ passed \in [Windows -> Nat]
      /\ Windows \subseteq Nat /\ KeptWindows \in Nat /\ RateLimit \in Nat
      /\ UNCHANGED <<semaphore, client, passed>>
  BY ZeroWindow, AdmissionAssumption
  DEF AdmissionInv, AdmissionTypeOK, ForgetWindows, WindowChanges
<1>2. SlotsMatchWork' /\ WindowHolds' /\ SecondSlots'
  BY <1>1, SameClients DEF AdmissionInv, WindowHolds, SecondSlots, ClientAt
<1>3. CASE ForgetWindows
  <2>1. /\ rate' = [w \in Windows |-> IF w < window - KeptWindows THEN 0 ELSE rate[w]]
        /\ UNCHANGED <<window, latest>>
    BY <1>3 DEF ForgetWindows
  <2>2. AdmissionTypeOK'
    BY <1>1, <2>1 DEF AdmissionInv, AdmissionTypeOK
  <2>3. Counted'
    BY <1>1, <2>1 DEF AdmissionInv, Counted
  <2> QED BY <1>2, <2>2, <2>3 DEF AdmissionInv
<1>4. CASE WindowChanges
  <2>1. PICK w \in Windows :
            /\ w = window + 1 \/ (w < window /\ w >= latest - KeptWindows)
            /\ window' = w
            /\ latest' = IF w > latest THEN w ELSE latest
    BY <1>4 DEF WindowChanges
  <2>2. UNCHANGED rate
    BY <1>4 DEF WindowChanges
  <2>3. AdmissionTypeOK'
    BY <1>1, <2>1, <2>2 DEF AdmissionInv, AdmissionTypeOK
  <2>4. Counted'
    BY <1>1, <2>1, <2>2 DEF AdmissionInv, Counted
  <2> QED BY <1>2, <2>3, <2>4 DEF AdmissionInv
<1> QED BY <1>3, <1>4

LEMMA AdmissionStep == AdmissionInv /\ [AdmissionNext]_admissionVars => AdmissionInv'
<1> SUFFICES ASSUME AdmissionInv, [AdmissionNext]_admissionVars PROVE AdmissionInv'
  OBVIOUS
<1>1. CASE AdmissionNext
  BY <1>1, GuardRequestStep, SlotStep, WindowsStep DEF AdmissionNext
<1>2. CASE UNCHANGED admissionVars
  <2>1. UNCHANGED <<window, latest, rate, semaphore, client, passed>>
    BY <1>2 DEF admissionVars
  <2> QED BY <2>1, SameClients
          DEF AdmissionInv, AdmissionTypeOK, Counted, WindowHolds, SecondSlots, ClientAt
<1> QED BY <1>1, <1>2

-----------------------------------------------------------------------------
(* The theorems                                                            *)

\* In every state of a process the types hold, its slots and its work agree,
\* and the windows the clock may show have kept their counts.
THEOREM AdmissionInvariant == AdmissionSpec => []AdmissionInv
  BY AdmissionStart, AdmissionStep, PTL DEF AdmissionSpec

\* ConcurrencyLimitMiddleware and _run_admitted neither lose a slot nor return
\* one twice, whatever clients disconnect.
THEOREM SlotsAreNeitherLostNorDoubled == AdmissionSpec => []SlotsMatchWork
<1>1. AdmissionInv => SlotsMatchWork
  BY DEF AdmissionInv
<1> QED BY <1>1, AdmissionInvariant, PTL

\* rate_limit admits at most its limit in a window, although cleanup_expired
\* forgets counts and the wall clock is set back by what it keeps.
THEOREM LimitsHold == AdmissionSpec => []WindowHolds
<1>1. AdmissionInv => WindowHolds
  BY DEF AdmissionInv
<1> QED BY <1>1, AdmissionInvariant, PTL

-----------------------------------------------------------------------------
(***************************************************************************)
(* What BrowserSubmission can recover, for any number of pages, accounts   *)
(* and selections, as long as a page that starts reaches the server.       *)
(***************************************************************************)

\* Request s can be repeated from stored record sub, or is in done.
Recoverable(s, sub, done) == s # NoSubmission => s.request \in done \/ sub.request = s.request

\* What a page remembers, and has sent, it could find in the record too; only
\* while it hashes it has a request that nobody knows of.
Remembers(r, sub, done) ==
    /\ Recoverable(r.kept, sub, done)
    /\ r.at # "hashing" => Recoverable(r.held, sub, done)
    /\ r.at \in {"hashing", "posting", "showing"} => r.held # NoSubmission

BrowserInv ==
    /\ BrowserTypeOK
    /\ \A p \in Pages : Remembers(page[p], submission, settled)
    /\ MadeIsRecovered

LEMMA TruthValue ==
    ASSUME NEW x, NEW S
    PROVE  (x \in S) \in BOOLEAN
  OBVIOUS

LEMMA NoBrowserRequest == NoSubmission \in Submission
  BY DEF Submission

LEMMA FirstPage ==
    /\ NewPage \in Page
    /\ \A sub, done : Remembers(NewPage, sub, done)
<1>1. NewPage.kept = NoSubmission /\ NewPage.held = NoSubmission /\ NewPage.at = "idle"
  BY DEF NewPage
<1>2. NewPage \in Page
  BY NoBrowserRequest DEF NewPage, Page
<1>3. QED  BY <1>1, <1>2 DEF Remembers, Recoverable

LEMMA BrowserStart == BrowserInit => BrowserInv
  BY FirstPage, NoBrowserRequest DEF BrowserInit, BrowserInv, BrowserTypeOK, MadeIsRecovered

\* The pages that the helpers make have the shape of a page and remember no
\* more than the page they are made from.
LEMMA WipedPage ==
    ASSUME NEW r \in Page, NEW keeps \in BOOLEAN
    PROVE  /\ Wiped(r, keeps) \in Page
           /\ \A sub, done : Remembers(r, sub, done) => Remembers(Wiped(r, keeps), sub, done)
<1> DEFINE w == Wiped(r, keeps)
<1> DEFINE at == IF r.at = "hashing" THEN "hashing" ELSE "idle"
           held == IF r.at = "hashing" THEN r.held ELSE NoSubmission
           kept == IF keeps THEN r.kept ELSE NoSubmission
           epoch == r.at # "hashing"
           woken == r.woken
<1>1. w = [NewPage EXCEPT !.at = at, !.held = held, !.kept = kept, !.epoch = epoch, !.woken = woken]
  BY DEF Wiped
<1>2. /\ at \in {"idle", "hashing"} /\ held \in Submission /\ kept \in Submission
      /\ epoch \in BOOLEAN /\ woken \in BOOLEAN
  BY NoBrowserRequest DEF Page
<1>3. w \in Page /\ w.at = at /\ w.held = held /\ w.kept = kept
  <2> HIDE DEF at, held, kept, epoch, woken, w
  <2>1. QED  BY <1>1, <1>2, FirstPage DEF Page
<1>4. /\ w.kept \in {r.kept, NoSubmission} /\ w.held \in {r.held, NoSubmission}
      /\ w.at \in {"hashing", "idle"}
      /\ w.at = "hashing" => r.at = "hashing" /\ w.held = r.held
      /\ w.at # "hashing" => w.held = NoSubmission
  BY <1>3
<1>5. QED  BY <1>3, <1>4 DEF Remembers, Recoverable

LEMMA RestingPage ==
    ASSUME NEW r \in Page
    PROVE  /\ AtRest(r) \in Page
           /\ \A sub, done : Remembers(r, sub, done) => Remembers(AtRest(r), sub, done)
  BY DEF AtRest, Page, Submission, Remembers, Recoverable

LEMMA SendingPage ==
    ASSUME NEW r \in Page, NEW s \in Submission, s # NoSubmission
    PROVE  /\ Taken(r, s) \in Page
           /\ \A sub, done : Recoverable(s, sub, done) => Remembers(Taken(r, s), sub, done)
  BY DEF Taken, Page, Submission, Remembers, Recoverable

\* A request stays recoverable when the record changes as Discard,
\* ClearExpected and Persist change it.
LEMMA RecordStep ==
    ASSUME BrowserTypeOK,
           \/ UNCHANGED <<submission, settled>>
           \/ Discard
           \/ \E s \in Selections : ClearExpected(s) /\ settled' = settled \cup {s}
           \/ \E s \in Selections, mark \in {"prepared", "accepted"} : Persist(s, mark)
    PROVE  /\ submission' \in Submission /\ settled' \in SUBSET Selections
           /\ settled \subseteq settled'
           /\ \A x \in Selections : x \in settled \/ submission.request = x
                                      => x \in settled' \/ submission'.request = x
<1>1. submission \in Submission /\ settled \in SUBSET Selections
  BY DEF BrowserTypeOK
<1>2. CASE UNCHANGED <<submission, settled>>
  BY <1>1, <1>2
<1>3. CASE Discard
  BY <1>1, <1>3, NoBrowserRequest DEF Discard
<1>4. CASE \E s \in Selections : ClearExpected(s) /\ settled' = settled \cup {s}
  BY <1>1, <1>4, NoBrowserRequest DEF ClearExpected
<1>5. ASSUME NEW s \in Selections, NEW mark \in {"prepared", "accepted"}, Persist(s, mark)
      PROVE  /\ submission' \in Submission /\ settled' \in SUBSET Selections
             /\ settled \subseteq settled'
             /\ \A x \in Selections : x \in settled \/ submission.request = x
                                        => x \in settled' \/ submission'.request = x
  BY <1>1, <1>5 DEF Persist, Submission
<1>6. QED  BY <1>2, <1>3, <1>4, <1>5

\* It is enough to look at the page that takes the step.
LEMMA PageStep ==
    ASSUME BrowserInv, NEW p \in Pages, NEW r,
           \/ page' = [page EXCEPT ![p] = r]
           \/ page' = Announced(p, r),
           r \in Page,
           \/ UNCHANGED <<submission, settled>>
           \/ Discard
           \/ \E s \in Selections : ClearExpected(s) /\ settled' = settled \cup {s}
           \/ \E s \in Selections, mark \in {"prepared", "accepted"} : Persist(s, mark),
           Remembers(r, submission, settled) \/ Remembers(r, submission', settled'),
           auth_record' \in Principals \cup {"pending", "signed out"},
           cookie' \in Principals \cup {Nobody},
           job_made' \in SUBSET Selections,
           \A s \in job_made' \ job_made : s \in settled \/ submission.request = s
    PROVE  BrowserInv'
<1> USE DEF BrowserInv
<1>1. /\ submission' \in Submission /\ settled' \in SUBSET Selections
      /\ settled \subseteq settled'
      /\ \A x \in Selections : x \in settled \/ submission.request = x
                                 => x \in settled' \/ submission'.request = x
  BY RecordStep
<1>2. \A q \in Pages : page[q] \in Page
  BY DEF BrowserTypeOK
<1>3. ASSUME NEW x \in Page, Remembers(x, submission, settled)
      PROVE  Remembers(x, submission', settled')
  BY <1>1, <1>3 DEF Remembers, Recoverable, Page, Submission, BrowserTypeOK
<1>4. r \in Page /\ Remembers(r, submission', settled')
  BY <1>3
<1>5. ASSUME NEW q \in Pages
      PROVE  page'[q] \in Page /\ Remembers(page'[q], submission', settled')
  <2>1. Remembers(page[q], submission', settled')
    BY <1>2, <1>3
  <2>2. CASE page' = [page EXCEPT ![p] = r]
    BY <1>2, <1>4, <2>1, <2>2 DEF BrowserTypeOK
  <2>3. CASE page' = Announced(p, r)
    <3>1. CASE q = p
      <4>1. page'[q] = [r EXCEPT !.woken = TRUE]
        BY <2>3, <3>1 DEF Announced
      <4>2. /\ page'[q] \in Page /\ page'[q].at = r.at
            /\ page'[q].kept = r.kept /\ page'[q].held = r.held
        BY <1>4, <4>1 DEF Page
      <4>3. QED  BY <1>4, <4>2 DEF Remembers
    <3>2. CASE q # p
      <4>1. page'[q] = [page[q] EXCEPT !.current = page[q].at \in {"idle", "hashing"},
                                       !.woken = FALSE]
        BY <2>3, <3>2 DEF Announced
      <4> DEFINE current == page[q].at \in {"idle", "hashing"}
      <4>2. /\ page'[q] \in Page /\ page'[q].at = page[q].at
            /\ page'[q].kept = page[q].kept /\ page'[q].held = page[q].held
        <5>1. current \in BOOLEAN
          BY TruthValue
        <5>2. page'[q] = [page[q] EXCEPT !.current = current, !.woken = FALSE]
          BY <4>1
        <5> HIDE DEF current
        <5>3. QED  BY <1>2, <5>1, <5>2 DEF Page
      <4>3. QED  BY <2>1, <4>2 DEF Remembers
    <3>3. QED  BY <3>1, <3>2
  <2>4. QED  BY <2>2, <2>3
<1>6. page' \in [Pages -> Page]
  <2>1. page' = [q \in Pages |-> page'[q]]
    BY DEF BrowserTypeOK, Announced
  <2>2. QED  BY <1>5, <2>1
<1>7. MadeIsRecovered'
  BY <1>1 DEF MadeIsRecovered, BrowserTypeOK
<1>8. BrowserTypeOK'
  BY <1>1, <1>6 DEF BrowserTypeOK
<1>9. QED  BY <1>5, <1>7, <1>8

LEMMA SessionEndedStep ==
    ASSUME BrowserInv, NEW p \in Pages, SessionEnded(p), UNCHANGED <<cookie, job_made>>
    PROVE  BrowserInv'
<1>1. page[p] \in Page /\ Remembers(page[p], submission, settled)
  BY DEF BrowserInv, BrowserTypeOK
<1>2. Wiped(page[p], FALSE) \in Page /\ Remembers(Wiped(page[p], FALSE), submission, settled)
  BY <1>1, WipedPage
<1>3. QED  BY <1>2, PageStep DEF SessionEnded, BrowserInv, BrowserTypeOK

\* The steps of a page among accounts.
LEMMA AccountStep ==
    ASSUME BrowserInv, BootMayFail = FALSE, NEW p \in Pages,
           \/ \E q \in Principals : SignIn(p, q)
           \/ AnnounceAccount(p) \/ SignOut(p) \/ SignOutEnds(p)
           \/ Wake(p) \/ TakeUpAccount(p) \/ OpenPage(p) \/ Boot(p)
    PROVE  BrowserInv'
<1> USE DEF BrowserInv
<1>1. /\ page[p] \in Page /\ Remembers(page[p], submission, settled)
      /\ auth_record \in Principals \cup {"pending", "signed out"}
      /\ cookie \in Principals \cup {Nobody} /\ job_made \in SUBSET Selections
  BY DEF BrowserTypeOK
<1> DEFINE r == page[p]
<1>2. \A keeps \in BOOLEAN : /\ Wiped(r, keeps) \in Page
                             /\ Remembers(Wiped(r, keeps), submission, settled)
  BY <1>1, WipedPage
<1>3. AtRest(r) \in Page /\ Remembers(AtRest(r), submission, settled)
  BY <1>1, RestingPage
\* A page that takes up an account, with nothing under way.
<1>4. ASSUME r.at \notin {"hashing", "posting", "showing"}, cookie # Nobody
      PROVE  LET n == [r EXCEPT !.at = "loading", !.principal = cookie]
             IN n \in Page /\ Remembers(n, submission, settled)
  <2> DEFINE n == [r EXCEPT !.at = "loading", !.principal = cookie]
  <2>1. n \in Page /\ n.at = "loading" /\ n.kept = r.kept /\ n.held = r.held
    BY <1>1 DEF Page
  <2>2. QED  BY <1>1, <1>4, <2>1 DEF Remembers
<1>5. ASSUME NEW q \in Principals, SignIn(p, q) PROVE BrowserInv'
  <2> DEFINE w == Wiped(r, FALSE)
             n == [w EXCEPT !.at = "signing in"]
  <2>1. n \in Page /\ n.at = "signing in" /\ n.kept = w.kept /\ n.held = w.held
    BY <1>2 DEF Page
  <2>2. w.at = "idle"
    BY <1>5 DEF Wiped, NewPage, SignIn
  <2>3. Remembers(n, submission, settled)
    BY <1>2, <2>1, <2>2 DEF Remembers
  <2>4. page' = [page EXCEPT ![p] = n] /\ Discard /\ UNCHANGED <<auth_record, job_made>> /\ cookie' = q
    BY <1>5 DEF SignIn
  <2> HIDE DEF n
  <2>5. QED  BY <1>1, <2>1, <2>3, <2>4, PageStep
<1>6. CASE AnnounceAccount(p)
  <2>1. CASE r.current /\ cookie # Nobody
    BY <1>1, <1>4, <1>6, <2>1, PageStep DEF AnnounceAccount, PageAt
  <2>2. CASE ~(r.current /\ cookie # Nobody)
    BY <1>1, <1>3, <1>6, <2>2, PageStep DEF AnnounceAccount
  <2>3. QED  BY <2>1, <2>2
<1>7. CASE SignOut(p)
  BY <1>1, <1>2, <1>7, PageStep DEF SignOut
<1>8. CASE SignOutEnds(p)
  BY <1>1, <1>2, <1>8, PageStep DEF SignOutEnds
<1>9. CASE Wake(p)
  <2> DEFINE same == /\ auth_record \in Principals /\ ~PageAt(p, "starting")
                     /\ \/ submission = NoSubmission
                        \/ Selector[submission.request] = auth_record
             w == Wiped(r, same)
             n == [w EXCEPT !.woken = TRUE]
  <2>1. same \in BOOLEAN
    OBVIOUS
  <2>2. page' = [page EXCEPT ![p] = n] /\ (UNCHANGED <<submission, settled>> \/ Discard)
        /\ UNCHANGED <<auth_record, cookie, job_made>>
    BY <1>9 DEF Wake
  <2> HIDE DEF same
  <2>3. w \in Page /\ Remembers(w, submission, settled)
    BY <1>2, <2>1
  <2>4. n \in Page /\ n.at = w.at /\ n.kept = w.kept /\ n.held = w.held
    BY <2>3 DEF Page
  <2>5. Remembers(n, submission, settled)
    BY <2>3, <2>4 DEF Remembers
  <2> HIDE DEF n
  <2>6. QED  BY <1>1, <2>2, <2>4, <2>5, PageStep
<1>10. CASE TakeUpAccount(p)
  <2>1. CASE cookie = Nobody
    BY <1>10, <2>1, SessionEndedStep DEF TakeUpAccount
  <2>2. CASE cookie # Nobody
    BY <1>1, <1>4, <1>10, <2>2, PageStep DEF TakeUpAccount, PageAt
  <2>3. QED  BY <2>1, <2>2
<1>11. CASE OpenPage(p)
  <2> DEFINE n == [NewPage EXCEPT !.at = "starting"]
  <2>1. n \in Page /\ n.at = "starting" /\ n.kept = NewPage.kept /\ n.held = NewPage.held
    BY FirstPage DEF Page
  <2>2. Remembers(n, submission, settled)
    BY <2>1, FirstPage DEF Remembers, NewPage
  <2>3. page' = [page EXCEPT ![p] = n] /\ UNCHANGED <<auth_record, cookie, submission, job_made, settled>>
    BY <1>11 DEF OpenPage
  <2> HIDE DEF n
  <2>4. QED  BY <1>1, <2>1, <2>2, <2>3, PageStep
<1>12. CASE Boot(p)
  <2>1. CASE /\ cookie = auth_record /\ auth_record \in Principals
             /\ page' = [page EXCEPT ![p] = [@ EXCEPT !.at = "loading", !.principal = cookie]]
             /\ UNCHANGED <<submission, settled>>
    <3>1. cookie # Nobody /\ r.at \notin {"hashing", "posting", "showing"}
      BY <1>12, <2>1, BrowserAssumption DEF Boot, PageAt
    <3>2. QED  BY <1>1, <1>4, <1>12, <2>1, <3>1, PageStep DEF Boot
  <2>2. CASE page' = [page EXCEPT ![p] = Wiped(@, FALSE)] /\ Discard
    BY <1>1, <1>2, <1>12, <2>2, PageStep DEF Boot
  <2>3. QED  BY <1>12, <2>1, <2>2 DEF Boot
<1>13. QED  BY <1>5, <1>6, <1>7, <1>8, <1>9, <1>10, <1>11, <1>12

\* The steps of a page that sends a request.
LEMMA RequestStep ==
    ASSUME BrowserInv, NEW p \in Pages,
           \/ Recover(p) \/ \E s \in Selections : Submit(p, s)
           \/ SendAfterStore(p) \/ Serve(p) \/ AnswerArrives(p) \/ Show(p) \/ Fail(p)
    PROVE  BrowserInv'
<1> USE DEF BrowserInv
<1>1. /\ page[p] \in Page /\ Remembers(page[p], submission, settled)
      /\ auth_record \in Principals \cup {"pending", "signed out"}
      /\ cookie \in Principals \cup {Nobody} /\ job_made \in SUBSET Selections
      /\ submission \in Submission
  BY DEF BrowserTypeOK
<1> DEFINE r == page[p]
<1>2. AtRest(r) \in Page /\ Remembers(AtRest(r), submission, settled)
  BY <1>1, RestingPage
\* A page at rest that keeps what can be found after the step.
<1>3. ASSUME NEW s \in Submission
      PROVE  LET n == [AtRest(r) EXCEPT !.kept = s]
             IN /\ n \in Page
                /\ Recoverable(s, submission', settled') => Remembers(n, submission', settled')
  <2> DEFINE n == [AtRest(r) EXCEPT !.kept = s]
  <2>1. n \in Page /\ n.at = AtRest(r).at /\ n.kept = s /\ n.held = AtRest(r).held
    BY <1>2 DEF Page
  <2>2. AtRest(r).at = "idle" /\ AtRest(r).held = NoSubmission
    BY <1>1 DEF AtRest, Page
  <2>3. QED  BY <2>1, <2>2 DEF Remembers, Recoverable
<1>4. CASE Recover(p)
  <2>1. CASE ~r.current \/ submission = NoSubmission
    BY <1>1, <1>2, <1>4, <2>1, PageStep DEF Recover
  <2>2. CASE r.current /\ submission # NoSubmission /\ Selector[submission.request] = r.principal
    <3>1. Taken(r, submission) \in Page /\ Remembers(Taken(r, submission), submission, settled)
      BY <1>1, <2>2, SendingPage DEF Recoverable
    <3>2. QED  BY <1>1, <1>4, <2>2, <3>1, PageStep DEF Recover
  <2>3. CASE r.current /\ submission # NoSubmission /\ Selector[submission.request] # r.principal
    <3> DEFINE n == [AtRest(r) EXCEPT !.kept = NoSubmission]
    <3>1. n \in Page /\ Remembers(n, submission', settled')
      BY <1>3, NoBrowserRequest DEF Recoverable
    <3>2. page' = [page EXCEPT ![p] = n] /\ Discard /\ UNCHANGED <<auth_record, cookie, job_made>>
      BY <1>4, <2>3 DEF Recover
    <3> HIDE DEF n
    <3>3. QED  BY <1>1, <3>1, <3>2, PageStep
  <2>4. QED  BY <2>1, <2>2, <2>3
<1>5. ASSUME NEW s \in Selections, Submit(p, s) PROVE BrowserInv'
  <2> DEFINE found == IF r.kept # NoSubmission THEN r.kept ELSE submission
             new == [request |-> s, phase |-> "prepared"]
  <2>1. found \in Submission /\ Recoverable(found, submission, settled)
    BY <1>1 DEF Page, Remembers, Recoverable
  <2>2. CASE found = NoSubmission
    <3> DEFINE n == [r EXCEPT !.at = "hashing", !.held = new]
    <3>1. new \in Submission /\ new # NoSubmission
      BY <1>5 DEF Submission, NoSubmission
    <3>2. n \in Page /\ n.at = "hashing" /\ n.kept = r.kept /\ n.held = new
      BY <1>1, <3>1 DEF Page
    <3>3. Remembers(n, submission, settled)
      BY <1>1, <3>1, <3>2 DEF Remembers
    <3>4. page' = [page EXCEPT ![p] = n]
          /\ UNCHANGED <<auth_record, cookie, submission, job_made, settled>>
      BY <1>5, <2>2 DEF Submit
    <3> HIDE DEF n
    <3>5. QED  BY <1>1, <3>2, <3>3, <3>4, PageStep
  <2>3. CASE found # NoSubmission
    <3>1. Taken(r, found) \in Page /\ Remembers(Taken(r, found), submission, settled)
      BY <1>1, <2>1, <2>3, SendingPage
    <3>2. page' = [page EXCEPT ![p] = Taken(r, found)]
          /\ UNCHANGED <<auth_record, cookie, submission, job_made, settled>>
      BY <1>5, <2>3 DEF Submit
    <3> HIDE DEF found
    <3>3. QED  BY <1>1, <3>1, <3>2, PageStep
  <2>4. QED  BY <2>2, <2>3
<1>6. CASE SendAfterStore(p)
  <2> DEFINE s == r.held
  <2>1. s \in Submission /\ s # NoSubmission /\ s.request \in Selections
    BY <1>1, <1>6 DEF SendAfterStore, PageAt, Remembers, Page, Submission
  <2>2. Persist(s.request, "prepared") /\ page' = [page EXCEPT ![p] = Taken(r, s)]
        /\ UNCHANGED <<auth_record, cookie, job_made>>
    BY <1>6 DEF SendAfterStore
  <2>3. Recoverable(s, submission', settled')
    BY <2>2 DEF Persist, Recoverable
  <2>4. Taken(r, s) \in Page /\ Remembers(Taken(r, s), submission', settled')
    BY <1>1, <2>1, <2>3, SendingPage
  <2> HIDE DEF s
  <2>5. QED  BY <1>1, <2>1, <2>2, <2>4, PageStep
<1>7. CASE Serve(p)
  <2> DEFINE s == r.held
  <2>1. /\ r.at = "posting" /\ s.request \in Selections
        /\ s.request \in settled \/ submission.request = s.request
    BY <1>1, <1>7 DEF Serve, PageAt, Remembers, Recoverable, Page, Submission
  <2>2. /\ job_made' \in {job_made, job_made \cup {s.request}}
        /\ \E a \in {"made", "refused", "unauthorized"} : page' = [page EXCEPT ![p].answer = a]
        /\ UNCHANGED <<auth_record, cookie, submission, settled>>
    BY <1>7 DEF Serve
  <2>3. PICK a \in {"made", "refused", "unauthorized"} : page' = [page EXCEPT ![p].answer = a]
    BY <2>2
  <2> DEFINE n == [r EXCEPT !.answer = a]
  <2>4. n \in Page /\ n.at = r.at /\ n.kept = r.kept /\ n.held = r.held
    BY <1>1 DEF Page
  <2>5. Remembers(n, submission, settled)
    BY <1>1, <2>4 DEF Remembers
  <2>6. page' = [page EXCEPT ![p] = n]
    BY <2>3
  <2> HIDE DEF n, s
  <2>7. job_made' \in SUBSET Selections /\ \A x \in job_made' \ job_made : x \in settled \/ submission.request = x
    BY <1>1, <2>1, <2>2
  <2>8. QED  BY <1>1, <2>2, <2>4, <2>5, <2>6, <2>7, PageStep
<1>8. CASE AnswerArrives(p)
  <2>1. CASE ~r.current \/ r.answer = "refused"
    BY <1>1, <1>2, <1>8, <2>1, PageStep DEF AnswerArrives
  <2>2. CASE r.current /\ r.answer = "unauthorized"
    BY <1>8, <2>2, SessionEndedStep DEF AnswerArrives
  <2>3. CASE r.current /\ r.answer = "made"
    <3> DEFINE done == [r.held EXCEPT !.phase = "accepted"]
               n == IF r.epoch /\ r.principal = Selector[done.request] THEN Taken(r, done)
                    ELSE [AtRest(r) EXCEPT !.kept = done]
    <3>1. r.held \in Submission /\ r.held # NoSubmission
      BY <1>1, <1>8 DEF AnswerArrives, PageAt, Remembers, Page
    <3>2. done \in Submission /\ done # NoSubmission /\ done.request \in Selections
      BY <3>1 DEF Submission, NoSubmission
    <3>3. /\ Persist(done.request, "accepted") /\ page' = [page EXCEPT ![p] = n]
          /\ UNCHANGED <<auth_record, cookie, job_made>>
      BY <1>8, <2>3 DEF AnswerArrives
    <3> HIDE DEF done
    <3>4. Recoverable(done, submission', settled')
      BY <3>3 DEF Persist, Recoverable
    <3>5. n \in Page /\ Remembers(n, submission', settled')
      BY <1>1, <1>3, <3>2, <3>4, SendingPage
    <3> HIDE DEF n
    <3>6. QED  BY <1>1, <3>2, <3>3, <3>5, PageStep
  <2>4. QED  BY <1>1, <1>8, <2>1, <2>2, <2>3 DEF AnswerArrives, Page
<1>9. CASE Show(p)
  <2> DEFINE s == r.held.request
  <2>1. r.held \in Submission /\ r.held # NoSubmission /\ s \in Selections
    BY <1>1, <1>9 DEF Show, PageAt, Remembers, Page, Submission
  <2>2. Selector[s] # Nobody
    BY <2>1, BrowserAssumption
  <2>3. CASE ~r.current
    BY <1>1, <1>2, <1>9, <2>3, PageStep DEF Show
  <2>4. CASE r.current /\ cookie = Nobody
    BY <1>9, <2>2, <2>4, SessionEndedStep DEF Show
  <2>5. CASE r.current /\ cookie \notin {Nobody, Selector[s]}
    <3>1. Wiped(r, FALSE) \in Page /\ Remembers(Wiped(r, FALSE), submission, settled)
      BY <1>1, WipedPage
    <3>2. QED  BY <1>1, <1>9, <2>5, <3>1, PageStep DEF Show
  <2>6. CASE r.current /\ cookie = Selector[s] /\ cookie # Nobody
    <3> DEFINE k == IF submission.request = s THEN NoSubmission ELSE r.kept
               n == [AtRest(r) EXCEPT !.kept = k]
    <3>1. AtRest(r).kept = r.kept
      BY <1>1 DEF AtRest, Page
    <3>2. /\ ClearExpected(s) /\ settled' = settled \cup {s}
          /\ page' = [page EXCEPT ![p] = n] /\ UNCHANGED <<auth_record, cookie, job_made>>
      BY <1>9, <2>2, <2>6, <3>1 DEF Show
    <3>3. k \in Submission /\ Recoverable(k, submission', settled')
      BY <1>1, <3>2, NoBrowserRequest DEF Page, Remembers, Recoverable, ClearExpected
    <3> HIDE DEF k
    <3>4. n \in Page /\ Remembers(n, submission', settled')
      BY <1>3, <3>3
    <3> HIDE DEF n, s
    <3>5. QED  BY <1>1, <2>1, <3>2, <3>4, PageStep
  <2>7. QED  BY <1>9, <2>3, <2>4, <2>5, <2>6
<1>10. CASE Fail(p)
  BY <1>1, <1>2, <1>10, PageStep DEF Fail
<1>11. QED  BY <1>4, <1>5, <1>6, <1>7, <1>8, <1>9, <1>10

LEMMA BrowserSteps == BootMayFail = FALSE /\ BrowserInv /\ [BrowserNext]_browserVars => BrowserInv'
<1> SUFFICES ASSUME BootMayFail = FALSE, BrowserInv, [BrowserNext]_browserVars PROVE BrowserInv'
  OBVIOUS
<1>1. CASE Expire
  BY <1>1 DEF Expire, BrowserInv, BrowserTypeOK, MadeIsRecovered
<1>2. CASE UNCHANGED browserVars
  BY <1>2 DEF browserVars, BrowserInv, BrowserTypeOK, MadeIsRecovered
<1>3. QED  BY <1>1, <1>2, AccountStep, RequestStep DEF BrowserNext

\* The invariant holds of every behaviour in which a page that starts gets the
\* answer of GET /api/me.
THEOREM BrowserInvariant ==
    ASSUME BootMayFail = FALSE
    PROVE  BrowserSpec => []BrowserInv
<1>1. BrowserInv /\ [BrowserNext]_browserVars => BrowserInv'
  BY BrowserSteps
<1>2. QED  BY <1>1, BrowserStart, PTL DEF BrowserSpec

\* The browser knows how to repeat every request whose job was made until its
\* chart has been on the screen: the record, or a page's own memory of it, is
\* written before the request is sent, and removed by nobody else.  A page
\* that starts while the server cannot be reached breaks this, see
\* MCBrowserSubmission.
THEOREM RequestsAreRecovered ==
    ASSUME BootMayFail = FALSE
    PROVE  BrowserSpec => []MadeIsRecovered
<1>1. BrowserInv => MadeIsRecovered
  BY DEF BrowserInv
<1>2. QED  BY <1>1, BrowserInvariant, PTL

-----------------------------------------------------------------------------
(***************************************************************************)
(* The types of BrowserSubmission, also when a page starts while the       *)
(* server cannot be reached: who hashes, waits or shows a chart has a      *)
(* request.                                                                *)
(***************************************************************************)

Purposeful(r) == r.at \in {"hashing", "posting", "showing"} => r.held # NoSubmission

BrowserTyped == BrowserTypeOK /\ \A p \in Pages : Purposeful(page[p])

\* What is recoverable from everything only has to be purposeful.
LEMMA AllIsRecoverable ==
    ASSUME NEW r \in Page
    PROVE  Purposeful(r) <=> Remembers(r, NoSubmission, Selections)
  BY DEF Purposeful, Remembers, Recoverable, Page, Submission

LEMMA MadePages ==
    ASSUME NEW r \in Page, Purposeful(r)
    PROVE  /\ AtRest(r) \in Page /\ Purposeful(AtRest(r))
           /\ \A keeps \in BOOLEAN : Wiped(r, keeps) \in Page /\ Purposeful(Wiped(r, keeps))
           /\ \A s \in Submission \ {NoSubmission} : Taken(r, s) \in Page /\ Purposeful(Taken(r, s))
<1>1. AtRest(r) \in Page /\ Purposeful(AtRest(r))
  BY AllIsRecoverable, RestingPage
<1>2. ASSUME NEW keeps \in BOOLEAN PROVE Wiped(r, keeps) \in Page /\ Purposeful(Wiped(r, keeps))
  BY AllIsRecoverable, WipedPage
<1>3. ASSUME NEW s \in Submission \ {NoSubmission}
      PROVE  Taken(r, s) \in Page /\ Purposeful(Taken(r, s))
  <2>1. Recoverable(s, NoSubmission, Selections)
    BY DEF Recoverable, Submission
  <2>2. QED  BY <2>1, AllIsRecoverable, SendingPage
<1>4. QED  BY <1>1, <1>2, <1>3

LEMMA TypedPageStep ==
    ASSUME BrowserTyped, NEW p \in Pages, NEW r \in Page, Purposeful(r),
           \/ page' = [page EXCEPT ![p] = r]
           \/ page' = Announced(p, r),
           \/ UNCHANGED <<submission, settled>>
           \/ submission' = NoSubmission /\ UNCHANGED settled
           \/ Discard
           \/ \E s \in Selections : ClearExpected(s) /\ settled' = settled \cup {s}
           \/ \E s \in Selections, mark \in {"prepared", "accepted"} : Persist(s, mark),
           auth_record' \in Principals \cup {"pending", "signed out"},
           cookie' \in Principals \cup {Nobody},
           job_made' \in SUBSET Selections
    PROVE  BrowserTyped'
<1>1. submission' \in Submission /\ settled' \in SUBSET Selections
  <2>1. CASE submission' = NoSubmission /\ UNCHANGED settled
    BY <2>1, NoBrowserRequest DEF BrowserTyped, BrowserTypeOK
  <2>2. QED  BY <2>1, RecordStep DEF BrowserTyped
<1>2. \A q \in Pages : page[q] \in Page /\ Purposeful(page[q])
  BY DEF BrowserTyped, BrowserTypeOK
<1>3. ASSUME NEW x \in Page, Purposeful(x), NEW current \in BOOLEAN, NEW woken \in BOOLEAN
      PROVE  LET n == [x EXCEPT !.current = current, !.woken = woken]
             IN  n \in Page /\ Purposeful(n)
  <2> DEFINE n == [x EXCEPT !.current = current, !.woken = woken]
  <2>1. n \in Page /\ n.at = x.at /\ n.held = x.held
    BY DEF Page
  <2>2. QED  BY <1>3, <2>1 DEF Purposeful
<1>4. ASSUME NEW q \in Pages
      PROVE  page'[q] \in Page /\ Purposeful(page'[q])
  <2>1. CASE page' = [page EXCEPT ![p] = r]
    BY <1>2, <2>1 DEF BrowserTyped, BrowserTypeOK
  <2>2. CASE page' = Announced(p, r)
    <3>1. CASE q = p
      <4>1. page'[q] = [r EXCEPT !.woken = TRUE]
        BY <2>2, <3>1 DEF Announced
      <4>2. [r EXCEPT !.woken = TRUE] = [r EXCEPT !.current = r.current, !.woken = TRUE]
            /\ r.current \in BOOLEAN
        BY DEF Page
      <4>3. QED  BY <1>3, <4>1, <4>2
    <3>2. CASE q # p
      <4> DEFINE current == page[q].at \in {"idle", "hashing"}
      <4>1. page'[q] = [page[q] EXCEPT !.current = current, !.woken = FALSE]
        BY <2>2, <3>2 DEF Announced
      <4>2. current \in BOOLEAN
        BY TruthValue
      <4>3. page[q] \in Page /\ Purposeful(page[q]) /\ FALSE \in BOOLEAN
        BY <1>2
      <4> DEFINE x == page[q]
                 no == FALSE
                 n == [x EXCEPT !.current = current, !.woken = no]
      <4> HIDE DEF current, x, no
      <4>4. n \in Page /\ Purposeful(n)
        BY <1>3, <4>2, <4>3 DEF x, no
      <4>5. page'[q] = n
        BY <4>1 DEF x, no
      <4>6. QED  BY <4>4, <4>5
    <3>3. QED  BY <3>1, <3>2
  <2>3. QED  BY <2>1, <2>2
<1>5. page' \in [Pages -> Page]
  <2>1. page' = [q \in Pages |-> page'[q]]
    BY DEF BrowserTyped, BrowserTypeOK, Announced
  <2>2. QED  BY <1>4, <2>1
<1>6. QED  BY <1>1, <1>4, <1>5 DEF BrowserTyped, BrowserTypeOK

LEMMA SessionEndedIsTyped ==
    ASSUME BrowserTyped, NEW p \in Pages, SessionEnded(p), UNCHANGED <<cookie, job_made>>
    PROVE  BrowserTyped'
<1>1. page[p] \in Page /\ Purposeful(page[p])
  BY DEF BrowserTyped, BrowserTypeOK
<1>2. Wiped(page[p], FALSE) \in Page /\ Purposeful(Wiped(page[p], FALSE))
  BY <1>1, MadePages
<1>3. QED  BY <1>2, TypedPageStep DEF SessionEnded, BrowserTyped, BrowserTypeOK

LEMMA AccountIsTyped ==
    ASSUME BrowserTyped, NEW p \in Pages,
           \/ \E q \in Principals : SignIn(p, q)
           \/ AnnounceAccount(p) \/ SignOut(p) \/ SignOutEnds(p)
           \/ Wake(p) \/ TakeUpAccount(p) \/ OpenPage(p) \/ Boot(p)
    PROVE  BrowserTyped'
<1> DEFINE r == page[p]
<1>1. /\ r \in Page /\ Purposeful(r)
      /\ auth_record \in Principals \cup {"pending", "signed out"}
      /\ cookie \in Principals \cup {Nobody} /\ job_made \in SUBSET Selections
  BY DEF BrowserTyped, BrowserTypeOK
<1>2. /\ AtRest(r) \in Page /\ Purposeful(AtRest(r))
      /\ \A keeps \in BOOLEAN : Wiped(r, keeps) \in Page /\ Purposeful(Wiped(r, keeps))
  BY <1>1, MadePages
\* A page that takes up an account.
<1>3. ASSUME cookie # Nobody
      PROVE  LET n == [r EXCEPT !.at = "loading", !.principal = cookie]
             IN  n \in Page /\ Purposeful(n)
  BY <1>1, <1>3 DEF Page, Purposeful
<1>4. ASSUME NEW q \in Principals, SignIn(p, q) PROVE BrowserTyped'
  <2> DEFINE n == [Wiped(r, FALSE) EXCEPT !.at = "signing in"]
  <2>1. n \in Page /\ Purposeful(n)
    BY <1>2 DEF Page, Purposeful
  <2>2. page' = [page EXCEPT ![p] = n] /\ Discard /\ UNCHANGED <<auth_record, job_made>> /\ cookie' = q
    BY <1>4 DEF SignIn
  <2> HIDE DEF n
  <2>3. QED  BY <1>1, <2>1, <2>2, TypedPageStep
<1>5. CASE AnnounceAccount(p)
  <2>1. CASE r.current /\ cookie # Nobody
    BY <1>1, <1>3, <1>5, <2>1, TypedPageStep DEF AnnounceAccount
  <2>2. CASE ~(r.current /\ cookie # Nobody)
    BY <1>1, <1>2, <1>5, <2>2, TypedPageStep DEF AnnounceAccount
  <2>3. QED  BY <2>1, <2>2
<1>6. CASE SignOut(p)
  BY <1>1, <1>2, <1>6, TypedPageStep DEF SignOut
<1>7. CASE SignOutEnds(p)
  BY <1>1, <1>2, <1>7, TypedPageStep DEF SignOutEnds
<1>8. CASE Wake(p)
  <2> DEFINE same == /\ auth_record \in Principals /\ ~PageAt(p, "starting")
                     /\ \/ submission = NoSubmission
                        \/ Selector[submission.request] = auth_record
             w == Wiped(r, same)
             n == [w EXCEPT !.woken = TRUE]
  <2>1. same \in BOOLEAN
    OBVIOUS
  <2>2. page' = [page EXCEPT ![p] = n] /\ (UNCHANGED <<submission, settled>> \/ Discard)
        /\ UNCHANGED <<auth_record, cookie, job_made>>
    BY <1>8 DEF Wake
  <2> HIDE DEF same
  <2>3. w \in Page /\ Purposeful(w)
    BY <1>2, <2>1
  <2> HIDE DEF w
  <2>4. n \in Page /\ Purposeful(n)
    BY <2>3 DEF Page, Purposeful
  <2> HIDE DEF n
  <2>5. QED  BY <1>1, <2>2, <2>4, TypedPageStep
<1>9. CASE TakeUpAccount(p)
  <2>1. CASE cookie = Nobody
    BY <1>9, <2>1, SessionEndedIsTyped DEF TakeUpAccount
  <2>2. CASE cookie # Nobody
    BY <1>1, <1>3, <1>9, <2>2, TypedPageStep DEF TakeUpAccount
  <2>3. QED  BY <2>1, <2>2
<1>10. CASE OpenPage(p)
  <2> DEFINE n == [NewPage EXCEPT !.at = "starting"]
  <2>1. n \in Page /\ n.at = "starting"
    BY FirstPage DEF Page
  <2>2. page' = [page EXCEPT ![p] = n] /\ UNCHANGED <<auth_record, cookie, submission, job_made, settled>>
    BY <1>10 DEF OpenPage
  <2> HIDE DEF n
  <2>3. QED  BY <1>1, <2>1, <2>2, TypedPageStep DEF Purposeful
<1>11. CASE Boot(p)
  <2>1. UNCHANGED <<auth_record, cookie, job_made>>
    BY <1>11 DEF Boot
  <2>2. CASE /\ cookie = auth_record /\ auth_record \in Principals
             /\ page' = [page EXCEPT ![p] = [@ EXCEPT !.at = "loading", !.principal = cookie]]
             /\ UNCHANGED <<submission, settled>>
    BY <1>1, <1>3, <2>1, <2>2, TypedPageStep, BrowserAssumption
  <2>3. CASE /\ page' = [page EXCEPT ![p] = Wiped(@, FALSE)]
             /\ Discard \/ (submission' = NoSubmission /\ UNCHANGED settled)
    BY <1>1, <1>2, <2>1, <2>3, TypedPageStep
  <2>4. QED  BY <1>11, <2>2, <2>3 DEF Boot
<1>12. QED  BY <1>4, <1>5, <1>6, <1>7, <1>8, <1>9, <1>10, <1>11

LEMMA RequestIsTyped ==
    ASSUME BrowserTyped, NEW p \in Pages,
           \/ Recover(p) \/ \E s \in Selections : Submit(p, s)
           \/ SendAfterStore(p) \/ Serve(p) \/ AnswerArrives(p) \/ Show(p) \/ Fail(p)
    PROVE  BrowserTyped'
<1> DEFINE r == page[p]
<1>1. /\ r \in Page /\ Purposeful(r) /\ submission \in Submission
      /\ auth_record \in Principals \cup {"pending", "signed out"}
      /\ cookie \in Principals \cup {Nobody} /\ job_made \in SUBSET Selections
  BY DEF BrowserTyped, BrowserTypeOK
<1>2. /\ AtRest(r) \in Page /\ Purposeful(AtRest(r))
      /\ \A keeps \in BOOLEAN : Wiped(r, keeps) \in Page /\ Purposeful(Wiped(r, keeps))
      /\ \A s \in Submission \ {NoSubmission} : Taken(r, s) \in Page /\ Purposeful(Taken(r, s))
  BY <1>1, MadePages
\* A page at rest may keep any request.
<1>3. ASSUME NEW s \in Submission
      PROVE  LET n == [AtRest(r) EXCEPT !.kept = s] IN n \in Page /\ Purposeful(n)
  BY <1>1, <1>2, <1>3 DEF Page, Purposeful
<1>4. CASE Recover(p)
  <2>1. CASE ~r.current \/ submission = NoSubmission
    BY <1>1, <1>2, <1>4, <2>1, TypedPageStep DEF Recover
  <2>2. CASE r.current /\ submission # NoSubmission /\ Selector[submission.request] = r.principal
    BY <1>1, <1>2, <1>4, <2>2, TypedPageStep DEF Recover
  <2>3. CASE r.current /\ submission # NoSubmission /\ Selector[submission.request] # r.principal
    BY <1>1, <1>3, <1>4, <2>3, NoBrowserRequest, TypedPageStep DEF Recover
  <2>4. QED  BY <2>1, <2>2, <2>3
<1>5. ASSUME NEW s \in Selections, Submit(p, s) PROVE BrowserTyped'
  <2> DEFINE found == IF r.kept # NoSubmission THEN r.kept ELSE submission
             new == [request |-> s, phase |-> "prepared"]
             n == [r EXCEPT !.at = "hashing", !.held = new]
  <2>1. found \in Submission
    BY <1>1 DEF Page
  <2>2. new \in Submission /\ new # NoSubmission
    BY <1>5 DEF Submission, NoSubmission
  <2>3. \/ page' = [page EXCEPT ![p] = n] /\ found = NoSubmission
        \/ page' = [page EXCEPT ![p] = Taken(r, found)] /\ found # NoSubmission
    BY <1>5 DEF Submit
  <2>4. UNCHANGED <<auth_record, cookie, submission, job_made, settled>>
    BY <1>5 DEF Submit
  <2> HIDE DEF found, new
  <2>5. n \in Page /\ Purposeful(n)
    BY <1>1, <2>2 DEF Page, Purposeful
  <2> HIDE DEF n
  <2>6. QED  BY <1>1, <1>2, <2>1, <2>3, <2>4, <2>5, TypedPageStep
<1>6. CASE SendAfterStore(p)
  <2>1. r.held \in Submission /\ r.held # NoSubmission /\ r.held.request \in Selections
    BY <1>1, <1>6 DEF SendAfterStore, PageAt, Purposeful, Page, Submission
  <2>2. Persist(r.held.request, "prepared") /\ page' = [page EXCEPT ![p] = Taken(r, r.held)]
        /\ UNCHANGED <<auth_record, cookie, job_made>>
    BY <1>6 DEF SendAfterStore
  <2>3. QED  BY <1>1, <1>2, <2>1, <2>2, TypedPageStep
<1>7. CASE Serve(p)
  <2>1. r.held.request \in Selections
    BY <1>1, <1>7 DEF Serve, PageAt, Purposeful, Page, Submission
  <2>2. /\ job_made' \in {job_made, job_made \cup {r.held.request}}
        /\ \E a \in {"made", "refused", "unauthorized"} : page' = [page EXCEPT ![p].answer = a]
        /\ UNCHANGED <<auth_record, cookie, submission, settled>>
    BY <1>7 DEF Serve
  <2>3. PICK a \in {"made", "refused", "unauthorized"} : page' = [page EXCEPT ![p].answer = a]
    BY <2>2
  <2> DEFINE n == [r EXCEPT !.answer = a]
  <2>4. n \in Page /\ Purposeful(n)
    BY <1>1 DEF Page, Purposeful
  <2>5. page' = [page EXCEPT ![p] = n]
    BY <2>3
  <2> HIDE DEF n
  <2>6. job_made' \in SUBSET Selections
    BY <1>1, <2>1, <2>2
  <2>7. QED  BY <1>1, <2>2, <2>4, <2>5, <2>6, TypedPageStep
<1>8. CASE AnswerArrives(p)
  <2>1. CASE ~r.current \/ r.answer = "refused"
    BY <1>1, <1>2, <1>8, <2>1, TypedPageStep DEF AnswerArrives
  <2>2. CASE r.current /\ r.answer = "unauthorized"
    BY <1>8, <2>2, SessionEndedIsTyped DEF AnswerArrives
  <2>3. CASE r.current /\ r.answer = "made"
    <3> DEFINE done == [r.held EXCEPT !.phase = "accepted"]
               n == IF r.epoch /\ r.principal = Selector[done.request] THEN Taken(r, done)
                    ELSE [AtRest(r) EXCEPT !.kept = done]
    <3>1. r.held \in Submission /\ r.held # NoSubmission
      BY <1>1, <1>8 DEF AnswerArrives, PageAt, Purposeful, Page
    <3>2. done \in Submission /\ done # NoSubmission /\ done.request \in Selections
      BY <3>1 DEF Submission, NoSubmission
    <3>3. /\ Persist(done.request, "accepted") /\ page' = [page EXCEPT ![p] = n]
          /\ UNCHANGED <<auth_record, cookie, job_made>>
      BY <1>8, <2>3 DEF AnswerArrives
    <3> HIDE DEF done
    <3>4. n \in Page /\ Purposeful(n)
      BY <1>2, <1>3, <3>2
    <3> HIDE DEF n
    <3>5. QED  BY <1>1, <3>2, <3>3, <3>4, TypedPageStep
  <2>4. QED  BY <1>1, <1>8, <2>1, <2>2, <2>3 DEF AnswerArrives, Page
<1>9. CASE Show(p)
  <2> DEFINE s == r.held.request
  <2>1. r.held \in Submission /\ s \in Selections
    BY <1>1, <1>9 DEF Show, PageAt, Purposeful, Page, Submission
  <2>2. Selector[s] # Nobody
    BY <2>1, BrowserAssumption
  <2>3. CASE ~r.current
    BY <1>1, <1>2, <1>9, <2>3, TypedPageStep DEF Show
  <2>4. CASE r.current /\ cookie = Nobody
    BY <1>9, <2>2, <2>4, SessionEndedIsTyped DEF Show
  <2>5. CASE r.current /\ cookie \notin {Nobody, Selector[s]}
    BY <1>1, <1>2, <1>9, <2>5, TypedPageStep DEF Show
  <2>6. CASE r.current /\ cookie = Selector[s] /\ cookie # Nobody
    <3> DEFINE k == IF submission.request = s THEN NoSubmission ELSE r.kept
               n == [AtRest(r) EXCEPT !.kept = k]
    <3>1. /\ ClearExpected(s) /\ settled' = settled \cup {s}
          /\ page' = [page EXCEPT ![p] = n] /\ UNCHANGED <<auth_record, cookie, job_made>>
      BY <1>9, <2>2, <2>6 DEF Show
    <3>2. k \in Submission
      BY <1>1, NoBrowserRequest DEF Page
    <3> HIDE DEF k
    <3>3. n \in Page /\ Purposeful(n)
      BY <1>3, <3>2
    <3> HIDE DEF n, s
    <3>4. QED  BY <1>1, <2>1, <3>1, <3>3, TypedPageStep
  <2>7. QED  BY <1>9, <2>3, <2>4, <2>5, <2>6
<1>10. CASE Fail(p)
  BY <1>1, <1>2, <1>10, TypedPageStep DEF Fail
<1>11. QED  BY <1>4, <1>5, <1>6, <1>7, <1>8, <1>9, <1>10

\* The records and the pages keep their shape whatever accounts come and go
\* and whatever answers are lost.
THEOREM BrowserTypes == BrowserSpec => []BrowserTypeOK
<1>1. BrowserInit => BrowserTyped
  <2>1. BrowserInit => \A p \in Pages : page[p] = NewPage
    BY DEF BrowserInit
  <2>2. Purposeful(NewPage)
    BY DEF Purposeful, NewPage
  <2>3. QED  BY <2>1, <2>2, BrowserStart DEF BrowserInv, BrowserTyped
<1>2. BrowserTyped /\ [BrowserNext]_browserVars => BrowserTyped'
  <2> SUFFICES ASSUME BrowserTyped, [BrowserNext]_browserVars PROVE BrowserTyped'
    OBVIOUS
  <2>1. CASE Expire
    BY <2>1 DEF Expire, BrowserTyped, BrowserTypeOK
  <2>2. CASE UNCHANGED browserVars
    BY <2>2 DEF browserVars, BrowserTyped, BrowserTypeOK
  <2>3. QED  BY <2>1, <2>2, AccountIsTyped, RequestIsTyped DEF BrowserNext
<1>3. BrowserTyped => BrowserTypeOK
  BY DEF BrowserTyped
<1>4. QED  BY <1>1, <1>2, <1>3, PTL DEF BrowserSpec

-----------------------------------------------------------------------------
(***************************************************************************)
(* The gate before the provider: the daily allowance of DispatchGate, for  *)
(* any number of jobs and days and any setting of the clock.               *)
(***************************************************************************)

\* The budget row, the clock and the history have the shape the argument needs.
GateShape ==
    /\ now \in Ticks
    /\ budget \in [day: Days \cup {-1}, used: Nat, paused: BOOLEAN]
    /\ admitted \in [Days -> Nat]

\* The inductive invariant: what a day was charged is on the row while the row
\* shows that day, is within the limit for good, and is nothing before the day
\* begins.  The row itself never exceeds the limit.
AllowanceInv ==
    /\ GateShape
    /\ budget.used <= DailyLimit
    /\ AllowanceHolds

LEMMA DaysAreNumbers == \A t \in Ticks : Day(t) \in Nat /\ Day(t) \in Days
  BY GateAssumption DEF Ticks, Day, Days

LEMMA AllowanceInit == Init => AllowanceInv
<1> SUFFICES ASSUME Init PROVE AllowanceInv
  OBVIOUS
<1>1. 0 \in Ticks /\ DailyLimit \in Nat
  BY GateAssumption DEF Ticks
<1> QED BY <1>1 DEF Init, AllowanceInv, GateShape, AllowanceHolds

\* Starting a new day, or not, keeps the row in step with the history.
LEMMA RolledRow ==
    ASSUME AllowanceInv
    PROVE  /\ Rolled \in [day: Days, used: Nat, paused: BOOLEAN]
           /\ Rolled.day \in Nat
           /\ Rolled.day >= budget.day
           /\ Rolled.used <= DailyLimit
           /\ Rolled.paused = budget.paused
           /\ admitted[Rolled.day] <= Rolled.used
           /\ \A d \in Days : d > Rolled.day => admitted[d] = 0
           /\ Rolled.day = budget.day => Rolled.used = budget.used
<1>1. Day(now) \in Nat /\ Day(now) \in Days /\ DailyLimit \in Nat /\ Days \subseteq Nat
  BY DaysAreNumbers, GateAssumption DEF AllowanceInv, GateShape, Days
<1>2. CASE budget.day < Day(now)
  <2>1. Rolled = [budget EXCEPT !.day = Day(now), !.used = 0]
    BY <1>2 DEF Rolled
  <2>2. admitted[Day(now)] = 0
    BY <1>1, <1>2 DEF AllowanceInv, GateShape, AllowanceHolds
  <2>3. budget \in [day: Days \cup {-1}, used: Nat, paused: BOOLEAN]
    BY DEF AllowanceInv, GateShape
  <2>4. Rolled \in [day: Days, used: Nat, paused: BOOLEAN]
    BY <1>1, <2>1, <2>3
  <2>5. Rolled.day = Day(now) /\ Rolled.used = 0 /\ Rolled.paused = budget.paused
    BY <2>1, <2>3
  <2>a. budget.day \in Int
    <3>1. budget.day \in Days \cup {-1}
      BY <2>3
    <3>2. CASE budget.day \in Days
      <4>1. budget.day \in Nat
        BY <1>1, <3>2, Zenon
      <4> QED BY <4>1
    <3>3. CASE budget.day = -1
      BY <3>3
    <3> QED BY <3>1, <3>2, <3>3
  <2>b. Rolled.day \in Nat /\ Rolled.used <= DailyLimit /\ admitted[Rolled.day] <= Rolled.used
    BY <1>1, <2>2, <2>5
  <2>6. Rolled.day > budget.day
    BY <1>1, <1>2, <2>a, <2>5
  <2>7. ASSUME NEW d \in Days, d > Rolled.day PROVE admitted[d] = 0
    <3>1. d > budget.day
      BY <1>1, <2>a, <2>b, <2>6, <2>7
    <3> QED BY <3>1 DEF AllowanceInv, AllowanceHolds
  <2> HIDE DEF Rolled
  <2>8. Rolled.day >= budget.day /\ Rolled.day # budget.day
    BY <2>a, <2>b, <2>6
  <2> QED BY <2>b, <2>4, <2>5, <2>7, <2>8
<1>3. CASE ~(budget.day < Day(now))
  <2>1. Rolled = budget
    BY <1>3 DEF Rolled
  <2>2. budget.day \in Days
    BY <1>1, <1>3 DEF AllowanceInv, GateShape
  <2>3. budget \in [day: Days \cup {-1}, used: Nat, paused: BOOLEAN]
    BY DEF AllowanceInv, GateShape
  <2>4. budget \in [day: Days, used: Nat, paused: BOOLEAN]
    BY <2>2, <2>3
  <2>5. budget.day \in Nat /\ budget.used <= DailyLimit
    BY <1>1, <2>2 DEF AllowanceInv
  <2>6. /\ admitted[budget.day] <= budget.used
        /\ \A d \in Days : d > budget.day => admitted[d] = 0
    BY <2>5 DEF AllowanceInv, AllowanceHolds
  <2>7. budget.day >= budget.day
    BY <2>5
  <2> QED BY <2>1, <2>4, <2>5, <2>6, <2>7
<1> QED BY <1>2, <1>3

LEMMA AllowanceStep == AllowanceInv /\ [Next]_gateVars => AllowanceInv'
<1> SUFFICES ASSUME AllowanceInv, [Next]_gateVars PROVE AllowanceInv'
  OBVIOUS
<1> USE DEF AllowanceInv, GateShape
<1>0. Day(now) \in Nat /\ Day(now) \in Days /\ DailyLimit \in Nat /\ Days \subseteq Nat
  BY DaysAreNumbers, GateAssumption DEF Days
\* Steps that leave the row and the history alone, whatever the clock does.
<1>1. ASSUME UNCHANGED <<budget, admitted>>, now' \in Ticks PROVE AllowanceInv'
  BY <1>1 DEF AllowanceHolds
<1>2. ASSUME NEW j \in Jobs, \/ Ask(j) \/ TurnAway(j) \/ Delete(j)
                             \/ \E o \in Outcome \ {"dispatched"} : Finish(j, o)
      PROVE  AllowanceInv'
  BY <1>1, <1>2 DEF Ask, TurnAway, Delete, Finish, clockVars, history
<1>3. ASSUME NEW j \in Jobs, Deny(j) PROVE AllowanceInv'
  BY <1>0, <1>3, RolledRow DEF Deny, clockVars, history, AllowanceHolds
<1>4. ASSUME NEW j \in Jobs, Dispatch(j) PROVE AllowanceInv'
  <2>1. /\ budget' = Charged /\ now' = now
        /\ admitted' = [admitted EXCEPT ![Rolled.day] = @ + 1]
        /\ Rolled.used < DailyLimit
    BY <1>4 DEF Dispatch, Allowed, clockVars
  <2>2. /\ budget' \in [day: Days, used: Nat, paused: BOOLEAN]
        /\ budget'.day = Rolled.day /\ budget'.used = Rolled.used + 1
        /\ budget'.used <= DailyLimit
    BY <1>0, <2>1, RolledRow DEF Charged
  <2>3. admitted' \in [Days -> Nat]
    BY <2>1, RolledRow
  <2>4. \A d \in Days : admitted'[d] = IF d = Rolled.day THEN admitted[d] + 1 ELSE admitted[d]
    BY <2>1, RolledRow
  <2>5. AllowanceHolds'
    BY <1>0, <2>1, <2>2, <2>4, RolledRow DEF AllowanceHolds
  <2> QED BY <2>1, <2>2, <2>3, <2>5
<1>5. ASSUME NEW j \in Jobs, LoseLease(j) PROVE AllowanceInv'
  <2>1. /\ budget' = Charged /\ UNCHANGED <<now, admitted>>
        /\ Rolled.used < DailyLimit
    BY <1>5 DEF LoseLease, Allowed, clockVars, history
  <2>2. /\ budget' \in [day: Days, used: Nat, paused: BOOLEAN]
        /\ budget'.day = Rolled.day /\ budget'.used = Rolled.used + 1
        /\ budget'.used <= DailyLimit
    BY <1>0, <2>1, RolledRow DEF Charged
  <2>3. AllowanceHolds'
    BY <1>0, <2>1, <2>2, RolledRow DEF AllowanceHolds
  <2> QED BY <2>1, <2>2, <2>3
<1>6. ASSUME NEW p \in BOOLEAN, SetPaused(p) PROVE AllowanceInv'
  <2>1. /\ UNCHANGED <<now, admitted>>
        /\ budget' \in [day: Days, used: Nat, paused: BOOLEAN]
        /\ budget'.used = budget.used
        /\ budget'.day = IF budget.day = -1 THEN Day(now) ELSE budget.day
    BY <1>0, <1>6 DEF SetPaused, clockVars, history
  <2>2. AllowanceHolds'
    BY <1>0, <2>1 DEF AllowanceHolds
  <2> QED BY <2>1, <2>2
<1>7. CASE TimePasses \/ ClockSetBack
  BY <1>1, <1>7, GateAssumption DEF TimePasses, ClockSetBack, history, Ticks
<1>8. CASE UNCHANGED gateVars
  BY <1>1, <1>8 DEF gateVars
<1> QED BY <1>2, <1>3, <1>4, <1>5, <1>6, <1>7, <1>8 DEF Next

LEMMA AllowanceInvariant == Spec => []AllowanceInv
  BY AllowanceInit, AllowanceStep, PTL DEF Spec

\* However jobs are deleted, leases lost and clocks set back, no UTC day is
\* charged more dispatches than the shared daily allowance.
THEOREM AllowanceKept == Spec => []AllowanceHolds
<1>1. AllowanceInv => AllowanceHolds
  BY DEF AllowanceInv
<1> QED BY <1>1, AllowanceInvariant, PTL

\* A dispatch, even an uncertain one, is never given back to its day.
THEOREM AllowanceOnlyShrinks == Spec => AllowanceNeverReturns
<1>1. AllowanceInv /\ [Next]_gateVars =>
        [/\ budget'.day >= budget.day
         /\ budget'.day = budget.day => budget'.used >= budget.used]_gateVars
  <2> SUFFICES ASSUME AllowanceInv, Next
               PROVE  /\ budget'.day >= budget.day
                      /\ budget'.day = budget.day => budget'.used >= budget.used
    OBVIOUS
  <2>0. /\ budget.day \in Int /\ budget.used \in Nat /\ Day(now) \in Nat
        /\ Rolled.day \in Int /\ Rolled.used \in Nat
    BY DaysAreNumbers, RolledRow, GateAssumption DEF AllowanceInv, GateShape, Days
  <2>1. ASSUME UNCHANGED budget
        PROVE  /\ budget'.day >= budget.day
               /\ budget'.day = budget.day => budget'.used >= budget.used
    BY <2>0, <2>1
  <2>2. ASSUME NEW j \in Jobs, Deny(j) \/ Dispatch(j) \/ LoseLease(j)
        PROVE  /\ budget'.day >= budget.day
               /\ budget'.day = budget.day => budget'.used >= budget.used
    <3>1. \/ budget' = Rolled
          \/ budget' = Charged
      BY <2>2 DEF Deny, Dispatch, LoseLease
    <3>2. /\ Charged.day = Rolled.day /\ Charged.used = Rolled.used + 1
      BY RolledRow DEF Charged
    <3> QED BY <2>0, <3>1, <3>2, RolledRow
  <2>3. ASSUME NEW p \in BOOLEAN, SetPaused(p)
        PROVE  /\ budget'.day >= budget.day
               /\ budget'.day = budget.day => budget'.used >= budget.used
    BY <2>0, <2>3 DEF SetPaused
  <2>4. ASSUME NEW j \in Jobs, \/ Ask(j) \/ TurnAway(j) \/ Delete(j)
                               \/ \E o \in Outcome \ {"dispatched"} : Finish(j, o)
        PROVE  UNCHANGED budget
    BY <2>4 DEF Ask, TurnAway, Delete, Finish
  <2>5. TimePasses \/ ClockSetBack => UNCHANGED budget
    BY DEF TimePasses, ClockSetBack
  <2> QED BY <2>1, <2>2, <2>3, <2>4, <2>5 DEF Next
<1> QED BY <1>1, AllowanceInvariant, PTL DEF Spec, AllowanceNeverReturns

\* While the operator's pause stands no day is charged anything, and only the
\* operator lifts it: not midnight, a clock set back or a worker at the gate.
THEOREM PauseStands == Spec => PauseHolds
<1>1. AllowanceInv /\ [Next]_gateVars =>
        [budget.paused => /\ admitted' = admitted
                          /\ budget'.paused \/ SetPaused(FALSE)]_gateVars
  <2> SUFFICES ASSUME AllowanceInv, Next, budget.paused
               PROVE  admitted' = admitted /\ (budget'.paused \/ SetPaused(FALSE))
    OBVIOUS
  <2>1. ASSUME NEW j \in Jobs, Deny(j)
        PROVE  admitted' = admitted /\ budget'.paused
    BY <2>1, RolledRow DEF Deny, history
  <2>2. ASSUME NEW j \in Jobs, Dispatch(j) \/ LoseLease(j) PROVE FALSE
    BY <2>2, RolledRow DEF Dispatch, LoseLease, Allowed
  <2>3. ASSUME NEW p \in BOOLEAN, SetPaused(p)
        PROVE  admitted' = admitted /\ (budget'.paused \/ SetPaused(FALSE))
    <3>1. CASE p = TRUE
      BY <2>3, <3>1 DEF SetPaused, history
    <3>2. CASE p = FALSE
      BY <2>3, <3>2 DEF SetPaused, history
    <3> QED BY <3>1, <3>2
  <2>4. ASSUME NEW j \in Jobs, \/ Ask(j) \/ TurnAway(j) \/ Delete(j)
                               \/ \E o \in Outcome \ {"dispatched"} : Finish(j, o)
        PROVE  UNCHANGED <<admitted, budget>>
    BY <2>4 DEF Ask, TurnAway, Delete, Finish, history
  <2>5. TimePasses \/ ClockSetBack => UNCHANGED <<admitted, budget>>
    BY DEF TimePasses, ClockSetBack, history
  <2> QED BY <2>1, <2>2, <2>3, <2>4, <2>5 DEF Next
<1> QED BY <1>1, AllowanceInvariant, PTL DEF Spec, PauseHolds

-----------------------------------------------------------------------------
(***************************************************************************)
(* The preview cache, for any charts, sizes and limits.  What it counts is *)
(* the sum of the sizes over the set of cached charts, and no chart has    *)
(* two entries; the lemmas say what the operations on the sequence of      *)
(* entries make of that set.                                               *)
(***************************************************************************)

\* s is a sequence of distinct charts.
Distinct(s) == s \in Seq(Charts) /\ IsInjective(s)

PreviewInv == PreviewTypeOK /\ CountsWhatItHolds

LEMMA DistinctIs ==
    ASSUME NEW s, Distinct(s)
    PROVE  /\ Len(s) \in Nat /\ DOMAIN s = 1 .. Len(s)
           /\ Range(s) = Oldest(s, Len(s)) /\ Range(s) \in SUBSET Charts /\ IsFiniteSet(Range(s))
           /\ \A i, j \in 1 .. Len(s) : s[i] = s[j] => i = j
           /\ \A i \in 1 .. Len(s) : s[i] \in Charts
           /\ Cardinality(Range(s)) = Len(s)
<1>1. Len(s) \in Nat /\ s \in [1 .. Len(s) -> Charts] /\ DOMAIN s = 1 .. Len(s)
  BY LenProperties DEF Distinct
<1>2. Range(s) = Oldest(s, Len(s)) /\ Range(s) \in SUBSET Charts
  BY <1>1 DEF Range, Oldest
<1>3. s \in Surjection(1 .. Len(s), Range(s))
  BY <1>1 DEF Surjection, Range
<1>4. IsFiniteSet(1 .. Len(s)) /\ Cardinality(1 .. Len(s)) = Len(s)
  BY <1>1, FS_Interval
<1>5. IsFiniteSet(Range(s)) /\ Cardinality(Range(s)) = Len(s)
  <2>1. s \in Injection(1 .. Len(s), Range(s))
    BY <1>1, <1>3 DEF Injection, Surjection, Distinct
  <2>2. QED  BY <1>3, <1>4, <2>1, FS_Surjection
<1>6. \A i, j \in 1 .. Len(s) : s[i] = s[j] => i = j
  BY <1>1 DEF Distinct, IsInjective
<1>7. QED  BY <1>1, <1>2, <1>5, <1>6

LEMMA EmptyIs == Distinct(<<>>) /\ Range(<<>>) = {} /\ Len(<<>>) = 0
<1>1. <<>> \in Seq(Charts) /\ Len(<<>>) = 0 /\ DOMAIN <<>> = {}
  BY EmptySeq, LenProperties
<1>2. QED  BY <1>1 DEF Distinct, IsInjective, Range

LEMMA AppendNew ==
    ASSUME NEW s, Distinct(s), NEW k \in Charts, k \notin Range(s)
    PROVE  /\ Distinct(Append(s, k)) /\ Range(Append(s, k)) = Range(s) \cup {k}
           /\ Len(Append(s, k)) = Len(s) + 1
<1> DEFINE t == Append(s, k)
<1>1. /\ Len(s) \in Nat /\ DOMAIN s = 1 .. Len(s)
      /\ \A i, j \in 1 .. Len(s) : s[i] = s[j] => i = j
  BY DistinctIs
<1>2. /\ t \in Seq(Charts) /\ Len(t) = Len(s) + 1 /\ t[Len(s) + 1] = k
      /\ \A i \in 1 .. Len(s) : t[i] = s[i]
  BY AppendProperties DEF Distinct
<1>3. DOMAIN t = 1 .. (Len(s) + 1)
  BY <1>2, LenProperties
<1> HIDE DEF t
<1>4. \A i \in 1 .. (Len(s) + 1) : i \in 1 .. Len(s) \/ i = Len(s) + 1
  BY <1>1
<1>5. \A i \in 1 .. Len(s) : s[i] # k
  BY <1>1 DEF Range
<1>6. Distinct(t)
  <2>1. ASSUME NEW i \in DOMAIN t, NEW j \in DOMAIN t, t[i] = t[j]
        PROVE  i = j
    BY <1>1, <1>2, <1>3, <1>4, <1>5, <2>1
  <2>2. QED  BY <1>2, <2>1 DEF Distinct, IsInjective
<1>7. Range(t) = Range(s) \cup {k}
  <2>1. Range(t) \subseteq Range(s) \cup {k}
    BY <1>1, <1>2, <1>3, <1>4 DEF Range
  <2>2. Range(s) \cup {k} \subseteq Range(t)
    BY <1>1, <1>2, <1>3 DEF Range
  <2>3. QED  BY <2>1, <2>2
<1>8. QED  BY <1>2, <1>6, <1>7 DEF t

LEMMA NewerIs ==
    ASSUME NEW s, Distinct(s), NEW i \in 0 .. Len(s)
    PROVE  /\ Distinct(SubSeq(s, i + 1, Len(s)))
           /\ Range(SubSeq(s, i + 1, Len(s))) = Range(s) \ Oldest(s, i)
           /\ Len(SubSeq(s, i + 1, Len(s))) = Len(s) - i
           /\ Oldest(s, i) \in SUBSET Range(s)
<1> DEFINE n == Len(s)
           t == SubSeq(s, i + 1, n)
<1>1. /\ n \in Nat /\ DOMAIN s = 1 .. n /\ i \in Nat /\ i <= n
      /\ \A a, b \in 1 .. n : s[a] = s[b] => a = b
      /\ \A a \in 1 .. n : s[a] \in Charts
  BY DistinctIs
<1>2. /\ t \in Seq(Charts) /\ Len(t) = n - i
      /\ \A a \in 1 .. n - i : t[a] = s[i + a]
  <2> HIDE DEF n
  <2>1. i + 1 \in Int /\ n \in Int /\ \A a \in i + 1 .. n : s[a] \in Charts
    BY <1>1
  <2>2. /\ t \in Seq(Charts)
        /\ Len(t) = IF i + 1 <= n THEN n - (i + 1) + 1 ELSE 0
        /\ \A a \in 1 .. n - (i + 1) + 1 : t[a] = s[i + 1 + a - 1]
    BY <2>1, SubSeqProperties
  <2>3. Len(t) = n - i
    BY <1>1, <2>2
  <2>4. ASSUME NEW a \in 1 .. n - i PROVE t[a] = s[i + a]
    <3>1. a \in 1 .. n - (i + 1) + 1 /\ i + 1 + a - 1 = i + a
      BY <1>1
    <3>2. QED  BY <2>2, <3>1
  <2>5. QED  BY <2>2, <2>3, <2>4
<1>3. DOMAIN t = 1 .. n - i
  BY <1>2, LenProperties
<1> HIDE DEF n, t
<1>4. \A a \in 1 .. n - i : i + a \in 1 .. n /\ i + a \notin 1 .. i
  BY <1>1
<1>5. Distinct(t)
  <2>1. ASSUME NEW a \in 1 .. n - i, NEW b \in 1 .. n - i, t[a] = t[b]
        PROVE  a = b
    <3>1. i + a = i + b
      BY <1>1, <1>2, <1>4, <2>1
    <3>2. QED  BY <1>1, <3>1
  <2>2. QED  BY <1>2, <1>3, <2>1 DEF Distinct, IsInjective
<1>6. Range(t) = Range(s) \ Oldest(s, i)
  <2>1. ASSUME NEW a \in 1 .. n - i
        PROVE  t[a] \in Range(s) /\ t[a] \notin Oldest(s, i)
    <3>1. \A b \in 1 .. i : b \in 1 .. n /\ b # i + a
      BY <1>1
    <3>2. QED  BY <1>1, <1>2, <1>4, <3>1 DEF Range, Oldest
  <2>2. ASSUME NEW b \in 1 .. n, s[b] \notin Oldest(s, i)
        PROVE  s[b] \in Range(t)
    <3>1. b \notin 1 .. i
      BY <2>2 DEF Oldest
    <3>2. b - i \in 1 .. n - i /\ i + (b - i) = b
      BY <1>1, <3>1
    <3>3. QED  BY <1>2, <1>3, <3>2 DEF Range
  <2>3. Range(t) \subseteq Range(s) \ Oldest(s, i)
    BY <1>3, <2>1 DEF Range
  <2>4. Range(s) \ Oldest(s, i) \subseteq Range(t)
    BY <1>1, <2>2 DEF Range
  <2>5. QED  BY <2>3, <2>4
<1>7. Oldest(s, i) \in SUBSET Range(s)
  <2>1. \A a \in 1 .. i : a \in 1 .. n
    BY <1>1
  <2>2. QED  BY <1>1, <2>1 DEF Oldest, Range
<1>8. QED  BY <1>2, <1>5, <1>6, <1>7 DEF n, t

\* kept[i] is what is left of the first i entries of s.
KeptStep(s, keys, kept, i) ==
    IF i = 0 THEN <<>>
    ELSE IF s[i] \in keys THEN kept[i - 1] ELSE Append(kept[i - 1], s[i])

LEMMA KeptExists ==
    ASSUME NEW s, Len(s) \in Nat, NEW keys
    PROVE  \E kept : kept = [i \in 0 .. Len(s) |-> KeptStep(s, keys, kept, i)]
<1> DEFINE Kept(f, n) == f = [i \in 0 .. n |-> KeptStep(s, keys, f, i)]
           N == {n \in Nat : ~ \E f : Kept(f, n)}
<1>1. SUFFICES N = {}
  BY <1>1
<1>2. SUFFICES ASSUME N # {} PROVE FALSE
  OBVIOUS
<1>3. PICK n \in N : \A m \in N : n <= m
  <2>1. N \in SUBSET Nat
    OBVIOUS
  <2> HIDE DEF N
  <2>2. QED  BY <1>2, <2>1, LeastNumber
<1>4. n \in Nat /\ ~ \E f : Kept(f, n)
  OBVIOUS
<1>5. CASE n = 0
  <2> DEFINE f == [i \in 0 .. 0 |-> <<>>]
  <2>1. \A i \in 0 .. 0 : KeptStep(s, keys, f, i) = <<>>
    BY DEF KeptStep
  <2>2. Kept(f, 0)
    BY <2>1
  <2>3. QED  BY <1>4, <1>5, <2>2
<1>6. CASE n # 0
  <2>1. n - 1 \in Nat /\ n - 1 \notin N
    BY <1>3, <1>4, <1>6
  <2>2. PICK g : Kept(g, n - 1)
    BY <2>1
  <2> DEFINE f == [i \in 0 .. n |-> KeptStep(s, keys, g, i)]
  <2>3. ASSUME NEW i \in 0 .. n
        PROVE  f[i] = KeptStep(s, keys, f, i)
    <3>1. CASE i = 0
      BY <3>1 DEF KeptStep
    <3>2. CASE i # 0
      <4>1. i - 1 \in 0 .. n - 1 /\ i - 1 \in 0 .. n
        BY <1>4, <3>2
      <4>2. g[i - 1] = KeptStep(s, keys, g, i - 1) /\ f[i - 1] = KeptStep(s, keys, g, i - 1)
        BY <2>2, <4>1
      <4>3. f[i] = KeptStep(s, keys, g, i)
        OBVIOUS
      <4> HIDE DEF f
      <4>4. QED  BY <3>2, <4>2, <4>3 DEF KeptStep
    <3>3. QED  BY <3>1, <3>2
  <2>4. Kept(f, n)
    <3>1. f = [i \in 0 .. n |-> f[i]]
      OBVIOUS
    <3>2. [i \in 0 .. n |-> f[i]] = [i \in 0 .. n |-> KeptStep(s, keys, f, i)]
      <4> HIDE DEF f
      <4>1. QED  BY <2>3
    <3> HIDE DEF f
    <3>3. QED  BY <3>1, <3>2
  <2>5. QED  BY <1>4, <2>4
<1>7. QED  BY <1>5, <1>6

LEMMA WithoutIs ==
    ASSUME NEW s, Distinct(s), NEW keys
    PROVE  /\ Distinct(Without(s, keys))
           /\ Range(Without(s, keys)) = Range(s) \ keys
           /\ Len(Without(s, keys)) <= Len(s)
<1> DEFINE Kept(f) == f = [i \in 0 .. Len(s) |-> KeptStep(s, keys, f, i)]
           kept == CHOOSE f : Kept(f)
<1>1. Len(s) \in Nat /\ \A i, j \in 1 .. Len(s) : s[i] = s[j] => i = j
  BY DistinctIs
<1>2. Without(s, keys) = kept[Len(s)]
  BY DEF Without, KeptStep
<1>3. \A i \in 0 .. Len(s) : kept[i] = KeptStep(s, keys, kept, i)
  <2>1. \E f : Kept(f)
    BY <1>1, KeptExists
  <2>2. Kept(kept)
    BY <2>1
  <2> HIDE DEF kept
  <2>3. QED  BY <2>2
<1> HIDE DEF kept
<1> DEFINE Good(i) == /\ Distinct(kept[i]) /\ Range(kept[i]) = Oldest(s, i) \ keys
                      /\ Len(kept[i]) <= i
           N == {i \in 0 .. Len(s) : ~ Good(i)}
<1>4. N = {}
  <2> SUFFICES ASSUME N # {} PROVE FALSE
    OBVIOUS
  <2>1. PICK n \in N : \A m \in N : n <= m
    <3>1. N \in SUBSET Nat
      BY <1>1
    <3> HIDE DEF N
    <3>2. QED  BY <3>1, LeastNumber
  <2>2. n \in 0 .. Len(s) /\ n \in Nat /\ ~ Good(n)
    BY <1>1
  <2>3. CASE n = 0
    <3>1. kept[n] = <<>>
      BY <1>3, <2>2, <2>3 DEF KeptStep
    <3>2. Oldest(s, n) = {}
      BY <2>3 DEF Oldest
    <3>3. Good(n)
      BY <2>3, <3>1, <3>2, EmptyIs
    <3>4. QED  BY <2>2, <3>3
  <2>4. CASE n # 0
    <3> DEFINE p == n - 1
    <3>1. p \in 0 .. Len(s) /\ p \in Nat /\ n = p + 1 /\ n \in 1 .. Len(s) /\ ~(n <= p)
      BY <2>2, <2>4
    <3>2. Good(p)
      BY <2>1, <3>1
    <3>3. kept[n] = IF s[n] \in keys THEN kept[p] ELSE Append(kept[p], s[n])
      BY <1>3, <2>2, <2>4 DEF KeptStep
    <3> HIDE DEF p
    <3>4. Oldest(s, n) = Oldest(s, p) \cup {s[n]} /\ s[n] \notin Oldest(s, p) /\ s[n] \in Charts
      <4>1. (1 .. n) = (1 .. p) \cup {n} /\ \A i \in 1 .. p : i # n /\ i \in 1 .. Len(s)
        BY <1>1, <3>1
      <4>2. s[n] \in Charts
        BY <3>1, DistinctIs
      <4>3. QED  BY <1>1, <3>1, <4>1, <4>2 DEF Oldest
    <3>5. Len(kept[p]) \in Nat
      BY <3>2, DistinctIs
    <3>6. CASE s[n] \in keys
      BY <2>2, <3>1, <3>2, <3>3, <3>4, <3>5, <3>6
    <3>7. CASE s[n] \notin keys
      <4>1. s[n] \notin Range(kept[p])
        BY <3>2, <3>4
      <4>2. /\ Distinct(kept[n]) /\ Range(kept[n]) = Range(kept[p]) \cup {s[n]}
            /\ Len(kept[n]) = Len(kept[p]) + 1
        BY <3>2, <3>3, <3>4, <3>7, <4>1, AppendNew
      <4>3. Range(kept[n]) = Oldest(s, n) \ keys
        BY <3>2, <3>4, <3>7, <4>2
      <4>4. Len(kept[n]) <= n
        BY <3>1, <3>2, <3>5, <4>2
      <4>5. QED  BY <2>2, <4>2, <4>3, <4>4
    <3>8. QED  BY <3>6, <3>7
  <2>5. QED  BY <2>3, <2>4
<1>5. Good(Len(s))
  BY <1>1, <1>4
<1>6. QED  BY <1>2, <1>5, DistinctIs

\* The bytes of sets of charts.
LEMMA SizeIs ==
    ASSUME NEW C \in SUBSET Charts, IsFiniteSet(C), NEW D \in SUBSET C
    PROVE  /\ Size(C) \in Nat /\ Size(D) \in Nat /\ Size(C \ D) \in Nat
           /\ Size(C \ D) = Size(C) - Size(D)
           /\ \A k \in Charts \ C : Size(C \cup {k}) = Size(C) + ImageSize[k]
<1>1. IsFiniteSet(D) /\ IsFiniteSet(C \ D) /\ D \cap (C \ D) = {} /\ D \cup (C \ D) = C
  BY FS_Subset
<1>2. (\A x \in C : ImageSize[x] \in Nat) /\ \A x \in C : ImageSize[x] \in Int
  BY PreviewAssumption
<1>3. Size(C) \in Nat /\ Size(D) \in Nat /\ Size(C \ D) \in Nat
  BY <1>1, <1>2, SumNatural DEF Size
<1>4. SumFunctionOnSet(ImageSize, D \cup (C \ D)) = Size(D) + Size(C \ D)
  BY <1>1, <1>2, SumUnion DEF Size
<1>5. Size(C) = Size(D) + Size(C \ D)
  BY <1>1, <1>4 DEF Size
<1>6. ASSUME NEW k \in Charts \ C PROVE Size(C \cup {k}) = Size(C) + ImageSize[k]
  <2>1. ImageSize[k] \in Int
    BY PreviewAssumption
  <2>2. QED  BY <1>2, <2>1, SumInsert DEF Size
<1>7. Size(C \ D) = Size(C) - Size(D)
  BY <1>3, <1>5
<1>8. QED  BY <1>3, <1>6, <1>7

\* Entries s of n bytes make room for chart k, which has none.
LEMMA StoreAfterKeeps ==
    ASSUME NEW s, Distinct(s), Len(s) <= MaxEntries, NEW n \in Int, n = Size(Range(s)),
           NEW k \in Charts, k \notin Range(s), ImageSize[k] <= MaxBytes,
           StoreAfter(s, n, k)
    PROVE  /\ entries' \in Seq(Charts) /\ bytes' \in Int /\ CountsWhatItHolds'
<1> DEFINE N == {i \in 0 .. Len(s) : FitsAfter(i, s, n, k)}
           e == Min(N)
           t == SubSeq(s, e + 1, Len(s))
<1>1. Len(s) \in Nat /\ Range(s) \in SUBSET Charts /\ IsFiniteSet(Range(s))
  BY DistinctIs
<1>2. e \in 0 .. Len(s) /\ FitsAfter(e, s, n, k)
  <2>1. Len(s) \in N
    BY <1>1 DEF FitsAfter
  <2>2. N \in SUBSET Nat /\ N # {}
    BY <1>1, <2>1
  <2>3. e \in N
    <3> HIDE DEF N
    <3>1. QED  BY <2>2, LeastIsMin
  <2>4. QED  BY <2>3
<1>3. entries' = Append(t, k) /\ bytes' = n - Size(Oldest(s, e)) + ImageSize[k]
  BY DEF StoreAfter
<1> HIDE DEF e
<1>4. /\ Distinct(t) /\ Range(t) = Range(s) \ Oldest(s, e) /\ Len(t) = Len(s) - e
      /\ Oldest(s, e) \in SUBSET Range(s)
  BY <1>2, NewerIs
<1> HIDE DEF t
<1>5. k \notin Range(t) /\ Range(t) \in SUBSET Charts /\ IsFiniteSet(Range(t))
  BY <1>4, DistinctIs
<1>6. /\ Distinct(entries') /\ Range(entries') = Range(t) \cup {k}
      /\ Len(entries') = Len(s) - e + 1
  BY <1>3, <1>4, <1>5, AppendNew
<1>7. /\ Size(Range(t)) = n - Size(Oldest(s, e)) /\ Size(Range(t)) \in Nat
      /\ Size(Oldest(s, e)) \in Nat
  BY <1>1, <1>4, SizeIs
<1>8. Size(Range(entries')) = Size(Range(t)) + ImageSize[k]
  <2>1. {} \in SUBSET Range(t) /\ k \in Charts \ Range(t)
    BY <1>5
  <2>2. QED  BY <1>5, <1>6, <2>1, SizeIs
<1>9. /\ ImageSize[k] \in Nat /\ MaxBytes \in Nat /\ MaxEntries \in Nat \ {0}
  BY PreviewAssumption
<1>10. bytes' \in Int /\ bytes' = Size(Range(entries'))
  BY <1>3, <1>7, <1>8, <1>9
<1>11. bytes' <= MaxBytes /\ Len(entries') <= MaxEntries
  <2>1. CASE e = Len(s)
    <3>1. Oldest(s, e) = Range(s)
      BY <2>1, DistinctIs
    <3>2. bytes' = ImageSize[k]
      BY <1>3, <1>7, <1>9, <3>1
    <3>3. QED  BY <1>1, <1>6, <1>9, <2>1, <3>2
  <2>2. CASE e # Len(s)
    <3>1. n - Size(Oldest(s, e)) + ImageSize[k] <= MaxBytes /\ Len(s) - e < MaxEntries
      BY <1>2, <2>2 DEF FitsAfter
    <3>2. QED  BY <1>1, <1>2, <1>3, <1>6, <1>9, <3>1
  <2>3. QED  BY <2>1, <2>2
<1>12. QED  BY <1>6, <1>10, <1>11 DEF CountsWhatItHolds, Cached, Distinct

LEMMA PreviewNow ==
    PreviewInv => /\ Distinct(entries) /\ Cached \in SUBSET Charts /\ IsFiniteSet(Cached)
                  /\ bytes = Size(Cached) /\ bytes \in Int /\ bytes <= MaxBytes
                  /\ Len(entries) <= MaxEntries /\ Len(entries) \in Nat
                  /\ rendering \in [Threads -> Charts \cup {NoChart}]
<1> SUFFICES ASSUME PreviewInv
             PROVE  /\ Distinct(entries) /\ Cached \in SUBSET Charts /\ IsFiniteSet(Cached)
                    /\ bytes = Size(Cached) /\ bytes \in Int /\ bytes <= MaxBytes
                    /\ Len(entries) <= MaxEntries /\ Len(entries) \in Nat
                    /\ rendering \in [Threads -> Charts \cup {NoChart}]
  OBVIOUS
<1>1. Distinct(entries)
  BY DEF PreviewInv, PreviewTypeOK, CountsWhatItHolds, Distinct
<1>2. QED  BY <1>1, DistinctIs DEF PreviewInv, PreviewTypeOK, CountsWhatItHolds, Cached

\* What a lookup finds expired goes, and what it hits becomes the newest.
LEMMA GetKeeps ==
    ASSUME PreviewInv, NEW t \in Threads, NEW k \in Charts, Get(t, k)
    PROVE  PreviewInv'
<1>1. PICK expired \in SUBSET Cached :
        /\ bytes' = bytes - Size(expired)
        /\ IF k \in Cached \ expired
           THEN /\ entries' = Append(Without(Without(entries, expired), {k}), k)
                /\ UNCHANGED rendering
           ELSE /\ entries' = Without(entries, expired)
                /\ rendering' = [rendering EXCEPT ![t] = k]
  BY DEF Get
<1> DEFINE kept == Without(entries, expired)
           others == Without(kept, {k})
<1>2. /\ Distinct(kept) /\ Range(kept) = Cached \ expired /\ Len(kept) <= Len(entries)
  BY PreviewNow, WithoutIs DEF Cached
<1>3. /\ Distinct(others) /\ Range(others) = (Cached \ expired) \ {k} /\ Len(others) <= Len(kept)
  <2> HIDE DEF kept
  <2>1. QED  BY <1>2, WithoutIs
<1>4. /\ Size(Cached \ expired) = bytes - Size(expired) /\ Size(expired) \in Nat
      /\ bytes \in Int /\ bytes <= MaxBytes /\ MaxBytes \in Int
  BY PreviewNow, SizeIs, PreviewAssumption
<1>5. bytes' \in Int /\ bytes' <= MaxBytes /\ bytes' = Size(Cached \ expired)
  BY <1>1, <1>4
<1>6. rendering' \in [Threads -> Charts \cup {NoChart}]
  BY <1>1, PreviewNow
<1>7. Distinct(entries') /\ Range(entries') = Cached \ expired
  <2>1. CASE k \notin Cached \ expired
    BY <1>1, <1>2, <2>1
  <2>2. CASE k \in Cached \ expired
    <3>1. entries' = Append(others, k) /\ k \notin Range(others)
      BY <1>1, <1>3, <2>2
    <3> HIDE DEF others
    <3>2. QED  BY <1>3, <2>2, <3>1, AppendNew
  <2>3. QED  BY <2>1, <2>2
<1>8. Len(entries') <= Len(entries)
  <2>1. Cardinality(Cached \ expired) <= Cardinality(Cached)
    BY PreviewNow, FS_Subset
  <2>2. Cardinality(Cached) = Len(entries) /\ Cardinality(Cached \ expired) = Len(entries')
    BY <1>7, PreviewNow, DistinctIs DEF Cached
  <2>3. QED  BY <2>1, <2>2
<1>9. MaxEntries \in Nat /\ Len(entries) \in Nat /\ Len(entries') \in Nat /\ Len(entries) <= MaxEntries
  BY <1>7, PreviewNow, DistinctIs, PreviewAssumption
<1>10. QED
  BY <1>5, <1>6, <1>7, <1>8, <1>9
  DEF PreviewInv, PreviewTypeOK, CountsWhatItHolds, Distinct, Cached

\* An image that was stored meanwhile is replaced and counted once; an image that
\* is too large is not stored.
LEMMA StoreKeeps ==
    ASSUME PreviewInv, NEW t \in Threads, Store(t)
    PROVE  PreviewInv'
<1> DEFINE k == rendering[t]
           s == Without(entries, {k})
           n == bytes - (IF k \in Cached THEN ImageSize[k] ELSE 0)
<1>1. /\ k \in Charts /\ rendering' \in [Threads -> Charts \cup {NoChart}]
      /\ IF ImageSize[k] > MaxBytes
         THEN UNCHANGED <<entries, bytes>>
         ELSE StoreAfter(s, n, k)
  BY PreviewNow DEF Store
<1>2. CASE ImageSize[k] > MaxBytes
  BY <1>1, <1>2 DEF PreviewInv, PreviewTypeOK, CountsWhatItHolds, Cached
<1>3. CASE ~(ImageSize[k] > MaxBytes)
  <2>1. Distinct(s) /\ Range(s) = Cached \ {k} /\ Len(s) <= Len(entries)
    <3> HIDE DEF k
    <3>1. QED  BY PreviewNow, WithoutIs DEF Cached
  <2>2. ImageSize[k] \in Nat /\ MaxBytes \in Nat /\ MaxEntries \in Nat
    BY <1>1, PreviewAssumption
  <2>3. n \in Int /\ n = Size(Range(s))
    <3>1. CASE k \in Cached
      <4>1. /\ {k} \in SUBSET Cached /\ Cached \ {k} \in SUBSET Charts
            /\ IsFiniteSet(Cached \ {k}) /\ k \in Charts \ (Cached \ {k})
            /\ (Cached \ {k}) \cup {k} = Cached
            /\ {} \in SUBSET (Cached \ {k})
        BY <1>1, <3>1, PreviewNow, FS_Subset
      <4>2. Size((Cached \ {k}) \cup {k}) = Size(Cached \ {k}) + ImageSize[k]
        <5> HIDE DEF k
        <5>1. QED  BY <4>1, SizeIs
      <4>3. Size(Cached \ {k}) \in Nat
        <5> HIDE DEF k
        <5>1. QED  BY <4>1, SizeIs
      <4>4. bytes = Size(Cached \ {k}) + ImageSize[k]
        BY <4>1, <4>2, PreviewNow
      <4>5. n = bytes - ImageSize[k]
        BY <3>1
      <4> HIDE DEF k, s, n
      <4>6. QED  BY <2>1, <2>2, <4>3, <4>4, <4>5
    <3>2. CASE k \notin Cached
      <4>1. Cached \ {k} = Cached
        BY <3>2
      <4>2. n = bytes - 0
        BY <3>2
      <4> HIDE DEF k, s, n
      <4>3. bytes \in Int /\ bytes = Size(Cached)
        BY PreviewNow
      <4>4. n \in Int /\ n = bytes
        BY <4>2, <4>3
      <4>5. QED  BY <2>1, <4>1, <4>3, <4>4
    <3>3. QED  BY <3>1, <3>2
  <2>4. Len(s) <= MaxEntries
    <3>1. Len(s) \in Nat /\ Len(entries) \in Nat /\ Len(entries) <= MaxEntries
      BY <2>1, PreviewNow, DistinctIs
    <3>2. QED  BY <2>1, <2>2, <3>1
  <2>5. k \notin Range(s) /\ ImageSize[k] <= MaxBytes /\ StoreAfter(s, n, k)
    <3>1. StoreAfter(s, n, k)
      BY <1>1, <1>3
    <3> HIDE DEF k, s, n
    <3>2. QED  BY <1>3, <2>1, <2>2, <3>1
  <2>6. entries' \in Seq(Charts) /\ bytes' \in Int /\ CountsWhatItHolds'
    <3> HIDE DEF k, s, n
    <3>1. QED  BY <1>1, <2>1, <2>3, <2>4, <2>5, StoreAfterKeeps
  <2>7. QED  BY <1>1, <2>6 DEF PreviewInv, PreviewTypeOK
<1>4. QED  BY <1>2, <1>3

LEMMA PreviewStarts == PreviewInit => PreviewInv
<1> SUFFICES ASSUME PreviewInit PROVE PreviewInv
  OBVIOUS
<1>1. entries = <<>> /\ bytes = 0 /\ rendering = [t \in Threads |-> NoChart]
  BY DEF PreviewInit
<1>2. entries \in Seq(Charts) /\ IsInjective(entries) /\ Cached = {} /\ Len(entries) = 0
  BY <1>1, EmptyIs DEF Distinct, Cached
<1>3. Size(Cached) = 0
  BY <1>2, SumEmpty DEF Size
<1>4. QED
  BY <1>1, <1>2, <1>3, PreviewAssumption DEF PreviewInv, PreviewTypeOK, CountsWhatItHolds

LEMMA PreviewStep == PreviewInv /\ [PreviewNext]_previewVars => PreviewInv'
<1> SUFFICES ASSUME PreviewInv, [PreviewNext]_previewVars PROVE PreviewInv'
  OBVIOUS
<1>1. ASSUME NEW t \in Threads, NEW k \in Charts, Get(t, k) PROVE PreviewInv'
  BY <1>1, GetKeeps
<1>2. ASSUME NEW t \in Threads, Store(t) PROVE PreviewInv'
  BY <1>2, StoreKeeps
<1>3. ASSUME NEW t \in Threads, RenderFails(t) PROVE PreviewInv'
  BY <1>3 DEF RenderFails, PreviewInv, PreviewTypeOK, CountsWhatItHolds, Cached
<1>4. CASE UNCHANGED previewVars
  BY <1>4 DEF previewVars, PreviewInv, PreviewTypeOK, CountsWhatItHolds, Cached
<1>5. QED  BY <1>1, <1>2, <1>3, <1>4 DEF PreviewNext

\* However many threads render, store and expire previews of however many charts,
\* PreviewCache counts the bytes of the entries it holds, each once, and stays
\* within its limits.
THEOREM PreviewsAreCounted == PreviewSpec => []CountsWhatItHolds
<1>1. PreviewSpec => []PreviewInv
  BY PreviewStarts, PreviewStep, PTL DEF PreviewSpec
<1>2. PreviewInv => CountsWhatItHolds
  BY DEF PreviewInv
<1>3. QED  BY <1>1, <1>2, PTL
=============================================================================
