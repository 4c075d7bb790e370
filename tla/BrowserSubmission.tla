--------------------------- MODULE BrowserSubmission ---------------------------
(***************************************************************************)
(* What the pages of one browser do to buy an extraction:                  *)
(* queueCurrentUpload and recoverDurableJobSubmission of                   *)
(* unrender/product/static/app.js, with the sign-in, the sign-out and the  *)
(* wake-ups that change accounts under them.  The pages share the cookie   *)
(* and two records of localStorage: who is signed in, and the request that *)
(* is under way.  The second one is written before the request is sent and *)
(* removed when its chart is on the screen, so that a page that is         *)
(* reloaded, or whose answer is lost, repeats the same request.            *)
(*                                                                         *)
(* Abstractions.  A request is its upload, page and crop, of one           *)
(* principal: its key is derived from them.  A request still under way     *)
(* when its page gives up was served before or is lost; one that is        *)
(* repeated has the key of the first (Submissions).  A page hashes one     *)
(* fingerprint at a time and begins nothing else meanwhile.                *)
(***************************************************************************)
CONSTANTS
    Pages,        \* pages of the app in one browser
    Principals,   \* account generations
    Nobody,       \* no principal
    Selections,   \* upload, page and crop
    Selector,     \* the principal each selection belongs to
    BootMayFail   \* GET /api/me may fail while a page starts

ASSUME BrowserAssumption ==
    /\ Nobody \notin Principals /\ Selector \in [Selections -> Principals]
    /\ BootMayFail \in BOOLEAN

VARIABLES
    page,         \* each page: its state, and the flow that runs in it
    auth_record,  \* unrender.auth-state.v2: a principal, or how far a sign-out is
    cookie,       \* the principal of the session, as the server takes it
    submission,   \* unrender.job-submission.v1
    job_made,     \* the requests whose job the server has made
    settled       \* history: requests that nobody has to recover any more

browserVars == <<page, auth_record, cookie, submission, job_made, settled>>

NoSubmission == [request |-> "none", phase |-> "none"]
Submission == [request: Selections, phase: {"prepared", "accepted"}] \cup {NoSubmission}

\* What a page is doing: it starts, is idle, signs in, reads the library after it
\* has taken up an account, hashes a fingerprint, waits for POST /api/jobs, or reads
\* the chart.  "kept" is state.jobSubmission, "held" the variable of the flow;
\* "current" is whether the auth record is the one the flow has read, "epoch"
\* whether the page is of the same authEpoch, "woken" whether it has applied the
\* record there is.
Page == [at: {"starting", "idle", "signing in", "loading", "hashing", "posting", "showing"},
         principal: Principals \cup {Nobody}, kept: Submission, held: Submission,
         answer: {"none", "made", "refused", "unauthorized"},
         current: BOOLEAN, epoch: BOOLEAN, woken: BOOLEAN]

NewPage == [at |-> "idle", principal |-> Nobody, kept |-> NoSubmission,
            held |-> NoSubmission, answer |-> "none",
            current |-> TRUE, epoch |-> TRUE, woken |-> TRUE]

BrowserTypeOK ==
    /\ page \in [Pages -> Page]
    /\ auth_record \in Principals \cup {"pending", "signed out"}
    /\ cookie \in Principals \cup {Nobody}
    /\ submission \in Submission
    /\ job_made \in SUBSET Selections
    /\ settled \in SUBSET Selections

BrowserInit ==
    /\ page = [p \in Pages |-> NewPage]
    /\ auth_record = "signed out" /\ cookie = Nobody
    /\ submission = NoSubmission
    /\ job_made = {} /\ settled = {}

-----------------------------------------------------------------------------
(* Records                                                                 *)

PageAt(p, at) == page[p].at = at

\* resetPrivateState: flows that wait for the server are aborted; one that
\* hashes goes on.
Wiped(r, keeps) ==
    [NewPage EXCEPT !.at = IF r.at = "hashing" THEN "hashing" ELSE "idle",
                    !.held = IF r.at = "hashing" THEN r.held ELSE NoSubmission,
                    !.kept = IF keeps THEN r.kept ELSE NoSubmission,
                    !.epoch = r.at # "hashing", !.woken = r.woken]

\* The end of a flow.
AtRest(r) == [r EXCEPT !.at = "idle", !.held = NoSubmission, !.answer = "none",
                       !.current = TRUE, !.epoch = TRUE]

\* writeAuthRecord by page p, which becomes r: whatever the others have under
\* way was begun under another record, and they will be woken.
Announced(p, r) ==
    [x \in Pages |-> IF x = p THEN [r EXCEPT !.woken = TRUE]
                     ELSE [page[x] EXCEPT !.current = page[x].at \in {"idle", "hashing"},
                                          !.woken = FALSE]]

\* clearDurableJobSubmission: a sign-out or another account has no use for it.
Discard ==
    /\ submission' = NoSubmission
    /\ settled' = settled \cup ({submission.request} \cap Selections)

\* clearDurableJobSubmission(expected) without the comparison of keys.
ClearAny(s) == submission' = NoSubmission

\* clearDurableJobSubmission(expected): only the record of the same key.
ClearExpected(s) ==
    submission' = IF submission.request = s THEN NoSubmission ELSE submission

\* persistJobSubmission: it overwrites what another page has put there, which
\* is then no longer recovered.
Persist(s, phase) ==
    /\ submission' = [request |-> s, phase |-> phase]
    /\ settled' = settled \cup ({submission.request} \cap (Selections \ {s}))

-----------------------------------------------------------------------------
(* Accounts                                                                *)

\* submitAuth: the page is reset, and the server starts a session.
SignIn(p, q) ==
    /\ page[p].at \notin {"starting", "signing in", "hashing"}
    /\ page[p].principal = Nobody /\ auth_record # "pending"
    /\ page' = [page EXCEPT ![p] = [Wiped(@, FALSE) EXCEPT !.at = "signing in"]]
    /\ Discard
    /\ cookie' = q
    /\ UNCHANGED <<auth_record, job_made>>

\* publishAuthChange and applyAccount: unless the record has changed.
AnnounceAccount(p) ==
    /\ PageAt(p, "signing in")
    /\ IF page[p].current /\ cookie # Nobody
       THEN /\ auth_record' = cookie
            /\ page' = Announced(p, [page[p] EXCEPT !.at = "loading",
                                                    !.principal = cookie])
       ELSE page' = [page EXCEPT ![p] = AtRest(@)] /\ UNCHANGED auth_record
    /\ UNCHANGED <<cookie, submission, job_made, settled>>

\* logout: this page forgets the account, then announces it.
SignOut(p) ==
    /\ page[p].principal # Nobody
    /\ auth_record' = "pending"
    /\ page' = Announced(p, Wiped(page[p], FALSE))
    /\ Discard
    /\ UNCHANGED <<cookie, job_made>>

\* logout, by the page that began it or by one that offers to retry: the
\* server has revoked the sessions.
SignOutEnds(p) ==
    /\ auth_record = "pending"
    /\ page[p].principal = Nobody /\ page[p].at \notin {"starting", "signing in"}
    /\ auth_record' = "signed out" /\ cookie' = Nobody
    /\ page' = Announced(p, Wiped(page[p], FALSE))
    /\ Discard
    /\ UNCHANGED job_made

\* handleExternalAuthChange, focus: the page applies a record it has not seen.
Wake(p) ==
    /\ ~page[p].woken
    /\ LET same == auth_record \in Principals /\ ~PageAt(p, "starting")
                   /\ \/ submission = NoSubmission
                      \/ Selector[submission.request] = auth_record
       IN /\ page' = [page EXCEPT ![p] = [Wiped(@, same) EXCEPT !.woken = TRUE]]
          /\ IF same THEN UNCHANGED <<submission, settled>> ELSE Discard
    /\ UNCHANGED <<auth_record, cookie, job_made>>

\* quarantineAuth and publishAuthChange("session-ended"): the server has
\* answered 401 to page p.
SessionEnded(p) ==
    /\ auth_record' = IF page[p].principal = Nobody THEN auth_record ELSE "signed out"
    /\ page' = IF page[p].principal = Nobody
               THEN [page EXCEPT ![p] = Wiped(@, FALSE)]
               ELSE Announced(p, Wiped(page[p], FALSE))
    /\ Discard

\* reconcilePrincipal: a page that is opened or woken takes up the account of
\* the record, if the session is of it.
TakeUpAccount(p) ==
    /\ PageAt(p, "idle") /\ page[p].principal = Nobody /\ page[p].woken
    /\ auth_record \in Principals
    /\ IF cookie = Nobody THEN SessionEnded(p)
       ELSE /\ cookie = auth_record
            /\ page' = [page EXCEPT ![p] = [@ EXCEPT !.at = "loading",
                                                     !.principal = cookie]]
            /\ UNCHANGED <<auth_record, submission, settled>>
    /\ UNCHANGED <<cookie, job_made>>

Expire == cookie' = Nobody /\ UNCHANGED <<page, auth_record, submission, job_made, settled>>

\* A page is closed, and opened or reloaded.
OpenPage(p) ==
    /\ page' = [page EXCEPT ![p] = [NewPage EXCEPT !.at = "starting"]]
    /\ UNCHANGED <<auth_record, cookie, submission, job_made, settled>>

\* boot: a page that does not get the account of the record is reset, whether
\* it was signed out, its session is another one, or the server was not reached.
Boot(p) ==
    /\ PageAt(p, "starting")
    /\ \/ /\ page[p].current /\ auth_record \in Principals /\ cookie = auth_record
          /\ page' = [page EXCEPT ![p] = [@ EXCEPT !.at = "loading",
                                                   !.principal = cookie]]
          /\ UNCHANGED <<submission, settled>>
       \/ /\ ~page[p].current \/ auth_record \notin Principals \/ cookie # auth_record
          /\ page' = [page EXCEPT ![p] = Wiped(@, FALSE)]
          /\ Discard
       \/ /\ BootMayFail /\ auth_record \in Principals
          /\ page' = [page EXCEPT ![p] = Wiped(@, FALSE)]
          /\ submission' = NoSubmission
          /\ UNCHANGED settled
    /\ UNCHANGED <<auth_record, cookie, job_made>>

-----------------------------------------------------------------------------
(* Requests                                                                *)

\* A request that was found or made goes to the server, or its chart is opened.
Taken(r, s) ==
    [r EXCEPT !.at = IF s.phase = "accepted" THEN "showing" ELSE "posting",
              !.held = s, !.kept = s, !.answer = "none", !.current = TRUE]

\* recoverDurableJobSubmission, once the library is there.
Recover(p) ==
    /\ PageAt(p, "loading")
    /\ CASE ~page[p].current \/ submission = NoSubmission ->
              /\ page' = [page EXCEPT ![p] = AtRest(@)]
              /\ UNCHANGED <<submission, settled>>
         [] page[p].current /\ submission # NoSubmission ->
              IF Selector[submission.request] = page[p].principal
              THEN /\ page' = [page EXCEPT ![p] = Taken(@, submission)]
                   /\ UNCHANGED <<submission, settled>>
              ELSE /\ page' = [page EXCEPT ![p] =
                                 [AtRest(@) EXCEPT !.kept = NoSubmission]]
                   /\ Discard
    /\ UNCHANGED <<auth_record, cookie, job_made>>

\* queueCurrentUpload: a request that is not over comes before another one.
Submit(p, s) ==
    /\ PageAt(p, "idle") /\ page[p].principal = Selector[s]
    /\ LET found == IF page[p].kept # NoSubmission THEN page[p].kept ELSE submission IN
       IF found = NoSubmission
       THEN page' = [page EXCEPT ![p] = [@ EXCEPT !.at = "hashing",
                         !.held = [request |-> s, phase |-> "prepared"]]]
       ELSE /\ found.request = s
            /\ page' = [page EXCEPT ![p] = Taken(@, found)]
    /\ UNCHANGED <<auth_record, cookie, submission, job_made, settled>>

\* The key is there: it is stored, and the request is sent.
SendAfterStore(p) ==
    /\ PageAt(p, "hashing")
    /\ Persist(page[p].held.request, "prepared")
    /\ page' = [page EXCEPT ![p] = Taken(@, page[p].held)]
    /\ UNCHANGED <<auth_record, cookie, job_made>>

\* POST /api/jobs: the server makes the job, or answers that it is made; it
\* refuses a request whose upload has gone or is not the session's, or for which
\* there is no credit.
Serve(p) ==
    /\ PageAt(p, "posting") /\ page[p].answer = "none"
    /\ LET s == page[p].held.request IN
       \/ /\ cookie = Selector[s]
          /\ job_made' = job_made \cup {s}
          /\ page' = [page EXCEPT ![p].answer = "made"]
       \/ /\ cookie # Nobody /\ (s \in job_made => cookie # Selector[s])
          /\ page' = [page EXCEPT ![p].answer = "refused"]
          /\ UNCHANGED job_made
       \/ /\ cookie = Nobody
          /\ page' = [page EXCEPT ![p].answer = "unauthorized"]
          /\ UNCHANGED job_made
    /\ UNCHANGED <<auth_record, cookie, submission, settled>>

\* The answer arrives.  It is discarded if the account has changed since the
\* request was sent; an error leaves the record, and an answer completes it.
AnswerArrives(p) ==
    /\ PageAt(p, "posting") /\ page[p].answer # "none"
    /\ CASE ~page[p].current \/ page[p].answer = "refused" ->
              /\ page' = [page EXCEPT ![p] = AtRest(@)]
              /\ UNCHANGED <<auth_record, submission, settled>>
         [] page[p].current /\ page[p].answer = "unauthorized" -> SessionEnded(p)
         [] page[p].current /\ page[p].answer = "made" ->
              LET done == [page[p].held EXCEPT !.phase = "accepted"] IN
              /\ Persist(done.request, "accepted")
              /\ page' = [page EXCEPT ![p] =
                            IF @.epoch /\ @.principal = Selector[done.request] THEN Taken(@, done)
                            ELSE [AtRest(@) EXCEPT !.kept = done]]
              /\ UNCHANGED auth_record
    /\ UNCHANGED <<cookie, job_made>>

\* The chart is on the screen: nothing is left to recover.
Show(p) ==
    /\ PageAt(p, "showing")
    /\ LET s == page[p].held.request IN
       CASE ~page[p].current ->
              /\ page' = [page EXCEPT ![p] = AtRest(@)]
              /\ UNCHANGED <<auth_record, submission, settled>>
         [] page[p].current /\ cookie = Nobody -> SessionEnded(p)
         [] page[p].current /\ cookie \notin {Nobody, Selector[s]} ->
              /\ page' = [page EXCEPT ![p] = Wiped(@, FALSE)]
              /\ Discard
              /\ UNCHANGED auth_record
         [] page[p].current /\ cookie = Selector[s] ->
              /\ ClearExpected(s)
              /\ settled' = settled \cup {s}
              /\ page' = [page EXCEPT ![p] =
                            [AtRest(@) EXCEPT !.kept = IF submission.request = s
                                                       THEN NoSubmission ELSE page[p].kept]]
              /\ UNCHANGED auth_record
    /\ UNCHANGED <<cookie, job_made>>

\* A request fails or times out.
Fail(p) ==
    /\ page[p].at \in {"signing in", "loading", "posting", "showing"}
    /\ page' = [page EXCEPT ![p] = AtRest(@)]
    /\ UNCHANGED <<auth_record, cookie, submission, job_made, settled>>

-----------------------------------------------------------------------------
BrowserNext ==
    \/ \E p \in Pages :
          \/ \E q \in Principals : SignIn(p, q)
          \/ AnnounceAccount(p) \/ SignOut(p) \/ SignOutEnds(p)
          \/ Wake(p) \/ TakeUpAccount(p) \/ OpenPage(p) \/ Boot(p)
          \/ Recover(p) \/ \E s \in Selections : Submit(p, s)
          \/ SendAfterStore(p) \/ Serve(p) \/ AnswerArrives(p) \/ Show(p) \/ Fail(p)
    \/ Expire

BrowserSpec == BrowserInit /\ [][BrowserNext]_browserVars

-----------------------------------------------------------------------------
(* Property                                                                *)

\* The browser knows how to repeat every request whose job was made while its
\* chart has not been on the screen: whatever answers are lost, pages are
\* reloaded or recover the same request at once.  Only the end of the
\* session, another account or another page's request may take its place.
MadeIsRecovered ==
    \A s \in job_made \ settled : submission.request = s
=============================================================================
