--------------------------------- MODULE Review ---------------------------------
(***************************************************************************)
(* The review of one extraction in several browser tabs: get_job,          *)
(* save_correction, restore_version, approve and export of                 *)
(* unrender/product/service.py with the tabs of static/app.js that call    *)
(* them.  Every change names the revision its tab has on the screen; the   *)
(* job is reprocessed, cancelled and deleted meanwhile, answers are lost,  *)
(* and an export reads the job in one transaction and records itself in    *)
(* another.                                                                *)
(*                                                                         *)
(* Abstractions.  A chart is the version that introduced it: what a        *)
(* version holds is immutable, and a restored version holds an older chart *)
(* again.  The worker that runs the job is in ExtractionJobs; here its     *)
(* steps happen.  Quotas on versions are there and in AccountBook.         *)
(***************************************************************************)
EXTENDS Integers

CONSTANTS
    Tabs,          \* tabs that have the job open
    LastVersion,   \* bound of the model: versions of the result
    LastAttempt    \* bound of the model: attempts

ASSUME ReviewAssumption == LastVersion \in Nat \ {0} /\ LastAttempt \in Nat \ {0}

ResultVersions == 1 .. LastVersion

VARIABLES
    job,        \* the row, and the chart of each version
    tab,        \* what each tab shows, and the answer it waits for
    export,     \* a running export
    audit,      \* the "result_exported" events: what each of them names
    seen,       \* history: the tabs that have had the job's version on the screen
    blind,      \* history: what a tab did to a version it had not had on the screen
    approvals,  \* history: the versions that were approved
    exported    \* history: what each export that was answered claims

reviewVars == <<job, tab, export, audit, seen, blind, approvals, exported>>

\* review_revision: version, receipt, attempt, status and approval.  A version
\* is approved once at most, so whether it is says what approved_at says.
Revision == [version: ResultVersions, attempt: 1 .. LastAttempt,
             status: {"review", "approved", "busy"}, approved_at: BOOLEAN]

NoRevision == [version |-> 1, attempt |-> 1, status |-> "deleted", approved_at |-> FALSE]

Claim == [version: ResultVersions, approved: BOOLEAN]

ReviewTypeOK ==
    /\ job \in Revision \cup {NoRevision}
    /\ tab \in [Tabs -> [shows: Revision \cup {NoRevision}, answer: Revision \cup {NoRevision}]]
    /\ export \in Revision \cup {NoRevision}
    /\ audit \subseteq Claim
    /\ seen \subseteq Tabs
    /\ blind \subseteq {"corrected", "approved"}
    /\ approvals \subseteq ResultVersions
    /\ exported \subseteq Claim

FirstResult == [version |-> 1, attempt |-> 1, status |-> "review", approved_at |-> FALSE]
EmptyTab == [shows |-> NoRevision, answer |-> NoRevision]

ReviewInit ==
    /\ job = FirstResult
    /\ tab = [t \in Tabs |-> EmptyTab]
    /\ export = NoRevision
    /\ audit = {} /\ seen = {} /\ blind = {} /\ approvals = {} /\ exported = {}

Exists == job # NoRevision
Sees(t, v) == seen' = IF Exists /\ v = job.version THEN seen \cup {t} ELSE seen
Blindly(t, what) == blind' = IF t \in seen THEN blind ELSE blind \cup {what}
IdleTab(t) == tab[t].answer = NoRevision

-----------------------------------------------------------------------------
(* A tab                                                                   *)

\* get_job and renderJob; a tab that waits for an answer is inert.
ShowJob(t) ==
    /\ Exists /\ IdleTab(t)
    /\ tab' = [tab EXCEPT ![t].shows = job]
    /\ Sees(t, job.version)
    /\ UNCHANGED <<job, export, audit, blind, approvals, exported>>

\* Mutant: the revision is not compared.
Unchecked(t) == Exists /\ tab[t].shows # NoRevision

\* _assert_review_revision
Expected(t) == Exists /\ tab[t].shows = job

\* save_correction, and restore_version of any version: a version of its own,
\* which ends an approval.  The answer is of this transaction.
StoreCorrection(t) ==
    LET corrected == [job EXCEPT !.version = @ + 1, !.status = "review", !.approved_at = FALSE]
    IN  /\ IdleTab(t) /\ Expected(t)
        /\ job.status # "busy" /\ job.version < LastVersion
        /\ job' = corrected
        /\ tab' = [tab EXCEPT ![t].answer = corrected]
        /\ Blindly(t, "corrected") /\ seen' = {}
        /\ UNCHANGED <<export, audit, approvals, exported>>

\* Mutant: the answer is read again after the commit.
ReadAgain(t) ==
    /\ ~IdleTab(t) /\ Exists
    /\ tab' = [tab EXCEPT ![t].shows = job, ![t].answer = NoRevision]
    /\ Sees(t, tab[t].answer.version)
    /\ UNCHANGED <<job, export, audit, blind, approvals, exported>>

\* The tab shows what it has saved; saveCorrections may then approve it.
Answered(t) ==
    /\ ~IdleTab(t)
    /\ tab' = [tab EXCEPT ![t].shows = tab[t].answer, ![t].answer = NoRevision]
    /\ Sees(t, tab[t].answer.version)
    /\ UNCHANGED <<job, export, audit, blind, approvals, exported>>

\* The tab still shows what it had, and says that the outcome is not known.
AnswerLost(t) ==
    /\ ~IdleTab(t)
    /\ tab' = [tab EXCEPT ![t].answer = NoRevision]
    /\ UNCHANGED <<job, export, audit, seen, blind, approvals, exported>>

\* By the button, or as the second half of "Save and approve".
Approve(t) ==
    /\ IdleTab(t) /\ Expected(t)
    /\ job.status = "review"
    /\ job' = [job EXCEPT !.status = "approved", !.approved_at = TRUE]
    /\ approvals' = approvals \cup {job.version} /\ Blindly(t, "approved")
    /\ tab' = [tab EXCEPT ![t].shows = job']
    /\ UNCHANGED <<export, audit, seen, exported>>

-----------------------------------------------------------------------------
(* An export                                                               *)

StartExport(t) ==
    /\ export = NoRevision /\ IdleTab(t) /\ Expected(t)
    /\ job.status # "busy"
    /\ export' = job
    /\ UNCHANGED <<job, tab, audit, seen, blind, approvals, exported>>

ClaimOf(r) == [version |-> r.version, approved |-> r.status = "approved"]

\* Mutant: the job is read when the export is recorded.
FinishFromRow ==
    /\ export # NoRevision
    /\ IF Exists
       THEN /\ audit' = audit \cup {ClaimOf(job)}
            /\ exported' = exported \cup {[version |-> export.version,
                                           approved |-> job.status = "approved"]}
       ELSE UNCHANGED <<audit, exported>>
    /\ export' = NoRevision
    /\ UNCHANGED <<job, tab, seen, blind, approvals>>

\* The event refers to the job: without it the export fails, and is not sent.
FinishExport ==
    /\ export # NoRevision
    /\ IF Exists
       THEN /\ audit' = audit \cup {ClaimOf(export)}
            /\ exported' = exported \cup {ClaimOf(export)}
       ELSE UNCHANGED <<audit, exported>>
    /\ export' = NoRevision
    /\ UNCHANGED <<job, tab, seen, blind, approvals>>

-----------------------------------------------------------------------------
(* What else happens to the job                                            *)

JobBecomes(r) ==
    /\ job' = r
    /\ seen' = IF r.version = job.version THEN seen ELSE {}
    /\ UNCHANGED <<tab, export, audit, blind, approvals, exported>>

Reprocess ==
    /\ Exists /\ job.status # "busy" /\ job.attempt < LastAttempt
    /\ JobBecomes([job EXCEPT !.status = "busy", !.attempt = @ + 1])

\* A new extraction ends an approval.
PublishResult ==
    /\ job.status = "busy" /\ job.version < LastVersion
    /\ JobBecomes([job EXCEPT !.status = "review", !.version = @ + 1, !.approved_at = FALSE])

\* _preserved_result_status: the result of before, with its approval.
AttemptEnds ==
    /\ job.status = "busy"
    /\ JobBecomes([job EXCEPT !.status = IF job.approved_at THEN "approved" ELSE "review"])

DeleteReviewed ==
    /\ Exists /\ job.status # "busy"
    /\ JobBecomes(NoRevision)

ReviewNext ==
    \/ \E t \in Tabs :
          \/ ShowJob(t) \/ StoreCorrection(t) \/ Answered(t) \/ AnswerLost(t)
          \/ Approve(t) \/ StartExport(t)
    \/ FinishExport
    \/ Reprocess \/ PublishResult \/ AttemptEnds \/ DeleteReviewed

ReviewSpec == ReviewInit /\ [][ReviewNext]_reviewVars

-----------------------------------------------------------------------------
(* Properties                                                              *)

\* A correction never replaces a version that its author has not had on the
\* screen, whatever the other tabs save, approve and reprocess.
NoEditIsLost == "corrected" \notin blind

\* What is approved was on the screen of the tab that approved it; and what an
\* export claims to be approved was approved, and is what the log says of it.
ApprovalsAreGenuine ==
    /\ "approved" \notin blind
    /\ \A e \in exported : e \in audit /\ (e.approved => e.version \in approvals)
=============================================================================
