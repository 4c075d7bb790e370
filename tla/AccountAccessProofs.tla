------------------------ MODULE AccountAccessProofs ------------------------
(***************************************************************************)
(* The credentials of AccountAccess, for any number of accounts, people,   *)
(* requests and tokens.  A request acts on what it read in an earlier      *)
(* transaction; the invariant says what is still known of the account it   *)
(* read: which password it had, unless its generation, its salt or the     *)
(* session has changed since.                                              *)
(***************************************************************************)
EXTENDS AccountAccess, TLAPS

LoginRequest ==
    [kind: {"rehash", "session"}, account: Accounts, by: Persons,
     hash: Hash \cup {AnyHash}, generation: Nat, since: Nat,
     evidence: {"password", "registration", "google"}]
CompleteRequest == [kind: {"complete"}, link: Link, by: Persons, hash: Hash, generation: Nat]
ConfirmRequest ==
    [kind: {"confirm", "link"}, session: Session, hash: Hash, generation: Nat,
     then: {"idle", "link"}]
KeyRequest == [kind: {"key"}, account: Accounts, generation: Nat, since: Nat]
CallbackRequest == [kind: {"callback"}, attempt: Attempt]

\* Rows and requests have their fields: AccessTypeOK without its two limits.
AccessShape ==
    /\ user \in [Accounts -> UserRow]
    /\ links \subseteq Link /\ sessions \subseteq Session
    /\ api_keys \subseteq Key /\ attempts \subseteq Attempt
    /\ identities \in [Persons -> Accounts \cup {NoAccount}]
    /\ request \in [Requests -> {Idle} \cup LoginRequest \cup CompleteRequest
                                   \cup ConfirmRequest \cup KeyRequest \cup CallbackRequest]
    /\ issued \in 0 .. MaxTokens
    /\ resets \in [Accounts -> Nat] /\ uses \in [Tokens -> Nat]

\* A link that exists was never completed, has a token of its own and an account
\* that has not been deleted; only a mailed one verifies an address.
LinksUnused ==
    /\ \A c \in links : /\ Present(c.account) /\ c.id <= issued /\ uses[c.id] = 0
                        /\ c.purpose = "verify" => c.proof
    /\ \A c, d \in links : c.id = d.id => c = d
    /\ \A t \in Tokens : t > issued => uses[t] = 0

SessionsNamed ==
    /\ \A s \in sessions : s.id <= issued
    /\ \A s, t \in sessions : s.id = t.id => s = t

\* What was read of an account under a generation holds while that stands.
Remembered(a, generation, since) ==
    /\ user[a].state # "absent"
    /\ Present(a) => /\ generation <= user[a].generation
                     /\ generation = user[a].generation => since = resets[a]

\* A login, by the salt of the hash it has verified.
LoginRemembers(q) ==
    q.evidence = "password" =>
        /\ q.hash \in Hash
        /\ Remembered(q.account, q.generation, q.since)
        /\ Present(q.account) =>
              /\ q.hash.salt <= user[q.account].hash.salt
              /\ q.hash.salt = user[q.account].hash.salt => q.since = resets[q.account]

\* A link is completed by the reader of the mailbox it was mailed to.
CompletionRemembers(q) ==
    /\ q.link.purpose = "verify" => q.hash.by = Mailbox[q.link.account]
    /\ q.link.proof => q.by = Mailbox[q.link.account]

\* The holder of the session knew the password, and still does if it is there
\* after the confirmation.
ConfirmationRemembers(q) ==
    /\ q.hash.by = q.session.by /\ q.session.id <= issued
    /\ \A s \in sessions : s.id = q.session.id =>
          /\ s.account = q.session.account /\ s.by = q.session.by
          /\ q.kind = "link" => user[s.account].hash.by = s.by

AttemptRemembers(t) ==
    t.mode = "link" =>
        /\ t.account \in Accounts
        /\ Remembered(t.account, t.generation, t.since)
        /\ Present(t.account) /\ t.generation = user[t.account].generation
              => user[t.account].hash.by = t.by

RequestRemembers(q) ==
    /\ q.kind = "rehash" => q.evidence = "password"
    /\ q.kind \in {"rehash", "session"} => LoginRemembers(q)
    /\ q.kind = "complete" => CompletionRemembers(q)
    /\ q.kind \in {"confirm", "link"} => ConfirmationRemembers(q)
    /\ q.kind = "key" => Remembered(q.account, q.generation, q.since)
    /\ q.kind = "callback" => AttemptRemembers(q.attempt)

RequestsRemember == \A r \in Requests : RequestRemembers(request[r])
AttemptsRemember == \A t \in attempts : AttemptRemembers(t)

AccessInv ==
    /\ AccessShape
    /\ LinksUnused /\ SessionsNamed /\ RequestsRemember /\ AttemptsRemember
    /\ CredentialsFollowPassword /\ NoStrayRecovery /\ LinksWorkOnce

-----------------------------------------------------------------------------
(* Shape                                                                   *)

LEMMA RequestKinds ==
    ASSUME AccessShape, NEW r \in Requests
    PROVE  LET q == request[r] IN
           /\ q = Idle \/ q.kind # "idle"
           /\ q.kind \in {"rehash", "session"} => q \in LoginRequest
           /\ q.kind = "complete" => q \in CompleteRequest
           /\ q.kind \in {"confirm", "link"} => q \in ConfirmRequest
           /\ q.kind = "key" => q \in KeyRequest
           /\ q.kind = "callback" => q \in CallbackRequest
<1> DEFINE q == request[r]
<1>1. \/ q = Idle \/ q \in LoginRequest \/ q \in CompleteRequest
      \/ q \in ConfirmRequest \/ q \in KeyRequest \/ q \in CallbackRequest
  BY DEF AccessShape
<1>2. /\ q = Idle => q.kind = "idle"
      /\ q \in LoginRequest => q.kind \in {"rehash", "session"}
      /\ q \in CompleteRequest => q.kind = "complete"
      /\ q \in ConfirmRequest => q.kind \in {"confirm", "link"}
      /\ q \in KeyRequest => q.kind = "key"
      /\ q \in CallbackRequest => q.kind = "callback"
  <2> HIDE DEF q
  <2>1. q = Idle => q.kind = "idle"
    BY DEF Idle
  <2>2. q \in LoginRequest => q.kind \in {"rehash", "session"}
    BY DEF LoginRequest
  <2>3. q \in CompleteRequest => q.kind = "complete"
    BY DEF CompleteRequest
  <2>4. q \in ConfirmRequest => q.kind \in {"confirm", "link"}
    BY DEF ConfirmRequest
  <2>5. q \in KeyRequest => q.kind = "key"
    BY DEF KeyRequest
  <2>6. q \in CallbackRequest => q.kind = "callback"
    BY DEF CallbackRequest
  <2>7. QED  BY <2>1, <2>2, <2>3, <2>4, <2>5, <2>6
<1> HIDE DEF q
<1>3. QED  BY <1>1, <1>2 DEF q

\* What a request holds, of each kind.
LEMMA RequestFields ==
    ASSUME AccessShape, NEW r \in Requests
    PROVE  LET q == request[r] IN
           /\ q.kind \in {"rehash", "session"} =>
                 /\ q.account \in Accounts /\ q.by \in Persons /\ q.generation \in Nat
                 /\ q.since \in Nat /\ q.hash \in Hash \cup {AnyHash}
                 /\ q.evidence \in {"password", "registration", "google"}
           /\ q.kind = "complete" =>
                 q.link \in Link /\ q.by \in Persons /\ q.hash \in Hash /\ q.generation \in Nat
           /\ q.kind \in {"confirm", "link"} =>
                 q.session \in Session /\ q.hash \in Hash /\ q.generation \in Nat
           /\ q.kind = "key" => q.account \in Accounts /\ q.generation \in Nat /\ q.since \in Nat
           /\ q.kind = "callback" => q.attempt \in Attempt
  BY RequestKinds DEF LoginRequest, CompleteRequest, ConfirmRequest, KeyRequest, CallbackRequest

LEMMA Tokenised ==
    ASSUME AccessShape, Issue
    PROVE  issued' = issued + 1 /\ issued' \in Tokens /\ issued' \in 0 .. MaxTokens /\ issued \in Nat
  BY AccessAssumption DEF AccessShape, Issue, Tokens

LEMMA VerifiedRow == ASSUME NEW u \in UserRow PROVE [u EXCEPT !.verified = TRUE] \in UserRow
  BY DEF UserRow

\* A session keeps its shape when it is confirmed or signed in.
LEMMA ReplacedSession ==
    ASSUME NEW s \in Session, NEW b \in BOOLEAN
    PROVE  [s EXCEPT !.recent = b] \in Session /\ [s EXCEPT !.pending = b] \in Session
  BY DEF Session

LEMMA ShapeStep == AccessShape /\ [Next]_accessVars => AccessShape'
<1> SUFFICES ASSUME AccessShape, [Next]_accessVars PROVE AccessShape'
  OBVIOUS
<1> USE AccessAssumption DEF AccessShape, Done, Go, google, credentials, history
<1>1. ASSUME NEW r \in Requests, NEW p \in Persons, NEW a \in Accounts, Register(r, p, a) PROVE AccessShape'
  <2>1. PICK verifyFirst \in BOOLEAN, old \in BOOLEAN :
           /\ user' = [user EXCEPT ![a] =
                 [state |-> IF verifyFirst THEN "inactive" ELSE "active",
                  hash |-> [by |-> p, salt |-> 0, old |-> old],
                  enabled |-> TRUE, verified |-> FALSE, generation |-> 0]]
           /\ IF verifyFirst THEN UNCHANGED request
              ELSE Go(r, Admit(a, p, AnyHash, "registration"))
    BY <1>1 DEF Register
  <2>2. user' \in [Accounts -> UserRow]
    BY <2>1 DEF UserRow, Hash
  <2>3. Admit(a, p, AnyHash, "registration") \in LoginRequest
    BY DEF Admit, LoginRequest, UserRow
  <2>4. QED  BY <1>1, <2>1, <2>2, <2>3 DEF Register
<1>2. ASSUME NEW a \in Accounts, Invite(a) PROVE AccessShape'
  <2>1. issued' \in Tokens /\ issued' \in 0 .. MaxTokens
    BY <1>2, Tokenised DEF Invite
  <2>2. [NoUser EXCEPT !.state = "inactive", !.enabled = TRUE] \in UserRow
    BY DEF NoUser, UserRow, Hash
  <2>3. user' \in [Accounts -> UserRow]
    BY <1>2, <2>2 DEF Invite
  <2>4. [id |-> issued', account |-> a, purpose |-> "reset", proof |-> FALSE] \in Link
    BY <2>1 DEF Link, Purpose
  <2>5. QED  BY <1>2, <2>1, <2>3, <2>4 DEF Invite
<1>3. ASSUME NEW a \in Accounts, NEW purpose \in Purpose, RequestEmail(a, purpose) PROVE AccessShape'
  <2>1. issued' \in Tokens /\ issued' \in 0 .. MaxTokens
    BY <1>3, Tokenised DEF RequestEmail
  <2>2. [id |-> issued', account |-> a, purpose |-> purpose, proof |-> TRUE] \in Link
    BY <2>1 DEF Link
  <2>3. QED  BY <1>3, <2>1, <2>2 DEF RequestEmail
<1>4. ASSUME NEW a \in Accounts, OperatorLink(a) PROVE AccessShape'
  <2>1. issued' \in Tokens /\ issued' \in 0 .. MaxTokens
    BY <1>4, Tokenised DEF OperatorLink
  <2>2. [id |-> issued', account |-> a, purpose |-> "reset", proof |-> FALSE] \in Link
    BY <2>1 DEF Link, Purpose
  <2>3. QED  BY <1>4, <2>1, <2>2 DEF OperatorLink
<1>5. ASSUME NEW r \in Requests, NEW p \in Persons, NEW c \in links, StartComplete(r, p, c) PROVE AccessShape'
  <2>1. [kind |-> "complete", link |-> c, by |-> p, hash |-> user[c.account].hash,
         generation |-> user[c.account].generation] \in CompleteRequest
    BY DEF CompleteRequest, Link, UserRow
  <2>2. QED  BY <1>5, <2>1 DEF StartComplete
<1>6. ASSUME NEW r \in Requests, CompleteVerify(r) PROVE AccessShape'
  <2>1. request[r].link.account \in Accounts /\ request[r].link.id \in Tokens
    BY <1>6, RequestFields DEF CompleteVerify, Link
  <2>a. [user[request[r].link.account] EXCEPT !.verified = TRUE, !.state = "active"] \in UserRow
    <3>1. ASSUME NEW u \in UserRow PROVE [u EXCEPT !.verified = TRUE] \in UserRow
      BY DEF UserRow
    <3>2. ASSUME NEW u \in UserRow PROVE [u EXCEPT !.state = "active"] \in UserRow
      BY DEF UserRow
    <3>3. QED  BY <2>1, <3>1, <3>2
  <2>2. user' \in [Accounts -> UserRow] /\ uses' \in [Tokens -> Nat]
    BY <1>6, <2>1, <2>a DEF CompleteVerify
  <2>3. links' \subseteq links /\ request' = [request EXCEPT ![r] = Idle]
        /\ UNCHANGED <<credentials, google, issued, resets>>
    BY <1>6 DEF CompleteVerify
  <2>4. QED  BY <2>2, <2>3
<1>7. ASSUME NEW r \in Requests, CompleteReset(r) PROVE AccessShape'
  <2>1. request[r].link.account \in Accounts /\ request[r].link.id \in Tokens
        /\ request[r].by \in Persons /\ request[r].link.proof \in BOOLEAN
    BY <1>7, RequestFields DEF CompleteReset, Link
  <2>2. user' \in [Accounts -> UserRow]
    BY <1>7, <2>1 DEF CompleteReset, UserRow, Hash
  <2>3. uses' \in [Tokens -> Nat] /\ resets' \in [Accounts -> Nat]
    BY <1>7, <2>1 DEF CompleteReset
  <2>4. links' \subseteq links /\ sessions' \subseteq sessions /\ api_keys' \subseteq api_keys
        /\ request' = [request EXCEPT ![r] = Idle] /\ UNCHANGED <<google, issued>>
    BY <1>7 DEF CompleteReset
  <2>5. QED  BY <2>2, <2>3, <2>4
<1>8. ASSUME NEW r \in Requests, NEW a \in Accounts, StartLogin(r, a) PROVE AccessShape'
  <2>1. user[a].hash.by \in Persons
    BY <1>8 DEF StartLogin, UserRow, Hash
  <2>2. [Admit(a, user[a].hash.by, user[a].hash, "password") EXCEPT
           !.kind = IF user[a].hash.old THEN "rehash" ELSE "session"] \in LoginRequest
    BY <2>1 DEF Admit, LoginRequest, UserRow
  <2>3. QED  BY <1>8, <2>2 DEF StartLogin
<1>9. ASSUME NEW r \in Requests, Rehash(r) PROVE AccessShape'
  <2>1. request[r] \in LoginRequest /\ request[r].account \in Accounts
    BY <1>9, RequestKinds, RequestFields DEF Rehash
  <2>2. user' \in [Accounts -> UserRow]
    <3> DEFINE a == request[r].account
               h == [user[a].hash EXCEPT !.salt = @ + 1, !.old = FALSE]
    <3>1. user[a] \in UserRow /\ user[a].hash \in Hash
      BY <2>1 DEF UserRow
    <3>2. h \in Hash
      <4>1. ASSUME NEW g \in Hash PROVE [g EXCEPT !.salt = @ + 1] \in Hash
        BY DEF Hash
      <4>2. ASSUME NEW g \in Hash PROVE [g EXCEPT !.old = FALSE] \in Hash
        BY DEF Hash
      <4>3. QED  BY <3>1, <4>1, <4>2
    <3>3. [user[a] EXCEPT !.hash = h] \in UserRow
      BY <3>1, <3>2 DEF UserRow
    <3>4. user' = user \/ user' = [user EXCEPT ![a] = [user[a] EXCEPT !.hash = h]]
      BY <1>9 DEF Rehash
    <3>5. QED  BY <2>1, <3>3, <3>4
  <2>3. user'[request[r].account].hash \in Hash
    BY <2>1, <2>2 DEF UserRow
  <2>4. [request[r] EXCEPT !.kind = "session", !.hash = user'[request[r].account].hash] \in LoginRequest
    BY <2>1, <2>3 DEF LoginRequest
  <2>5. QED  BY <1>9, <2>2, <2>4 DEF Rehash
<1>10. ASSUME NEW r \in Requests, CreateSession(r) PROVE AccessShape'
  <2>1. /\ request[r].account \in Accounts /\ request[r].by \in Persons /\ request[r].since \in Nat
        /\ request[r].evidence \in {"password", "registration", "google"}
    BY <1>10, RequestFields DEF CreateSession
  <2>2. Issue /\ issued' \in Tokens /\ issued' \in 0 .. MaxTokens
    BY <1>10, Tokenised DEF CreateSession
  <2>3. [id |-> issued', account |-> request[r].account, by |-> request[r].by,
         generation |-> user[request[r].account].generation, evidence |-> request[r].evidence,
         since |-> IF request[r].evidence = "google" THEN resets[request[r].account] ELSE request[r].since,
         recent |-> FALSE, pending |-> request[r].evidence = "google"] \in Session
    BY <2>1, <2>2 DEF Session, UserRow
  <2>4. sessions' \subseteq Session
    BY <1>10, <2>3 DEF CreateSession, Kept, Of
  <2>5. QED  BY <1>10, <2>2, <2>4 DEF CreateSession
<1>11. ASSUME NEW s \in sessions, ConfirmationLapses(s) \/ CompleteLogin(s) PROVE AccessShape'
  <2>1. s \in Session
    OBVIOUS
  <2>2. PICK t \in Session : Replace(s, t)
    BY <1>11, <2>1, ReplacedSession DEF ConfirmationLapses, CompleteLogin
  <2>3. UNCHANGED <<user, links, api_keys, google, request, issued, history>>
    BY <1>11 DEF ConfirmationLapses, CompleteLogin
  <2>4. QED  BY <2>2, <2>3 DEF Replace
<1>12. ASSUME NEW r \in Requests, NEW s \in sessions, NEW then \in {"idle", "link"}, StartConfirm(r, s, then)
       PROVE  AccessShape'
  <2>1. [kind |-> "confirm", session |-> s, hash |-> user[s.account].hash,
         generation |-> user[s.account].generation, then |-> then] \in ConfirmRequest
    BY DEF ConfirmRequest, Session, UserRow
  <2>2. QED  BY <1>12, <2>1 DEF StartConfirm
<1>13. ASSUME NEW r \in Requests, Confirm(r) PROVE AccessShape'
  <2>1. request[r] \in ConfirmRequest
    BY <1>13, RequestKinds DEF Confirm
  <2>2. [request[r] EXCEPT !.kind = "link"] \in ConfirmRequest
    BY <2>1 DEF ConfirmRequest
  <2>3. Current(request[r].session) \in sessions
    BY <1>13 DEF Confirm, Exists, Current
  <2>4. sessions' \subseteq Session
    BY <1>13, <2>3, ReplacedSession DEF Confirm, Replace
  <2>5. QED  BY <1>13, <2>2, <2>4 DEF Confirm
<1>14. ASSUME NEW s \in sessions, Logout(s) PROVE AccessShape'
  BY <1>14 DEF Logout, UserRow, Session
<1>15. ASSUME NEW p \in Persons, BeginSignin(p) PROVE AccessShape'
  BY <1>15, Tokenised DEF BeginSignin, NewAttempt, Attempt
<1>16. ASSUME NEW s \in sessions, BeginReauthentication(s) PROVE AccessShape'
  <2>1. issued' \in Tokens /\ issued' \in 0 .. MaxTokens
    BY <1>16, Tokenised DEF BeginReauthentication
  <2>2. /\ s.id \in 0 .. MaxTokens /\ s.by \in Persons /\ s.account \in Accounts
        /\ user[s.account].generation \in Nat /\ resets[s.account] \in Nat
    BY DEF Session, Tokens, UserRow
  <2>3. [id |-> issued', mode |-> "reauthenticate", by |-> s.by, account |-> s.account, session |-> s.id,
         generation |-> IF s.account = NoAccount THEN 0 ELSE user[s.account].generation,
         since |-> IF s.account = NoAccount THEN 0 ELSE resets[s.account]] \in Attempt
    BY <2>1, <2>2 DEF Attempt
  <2>4. QED  BY <1>16, <2>1, <2>3 DEF BeginReauthentication, NewAttempt
<1>17. ASSUME NEW r \in Requests, BeginLink(r) PROVE AccessShape'
  <2> DEFINE s == request[r].session
  <2>1. issued' \in Tokens /\ issued' \in 0 .. MaxTokens
    BY <1>17, Tokenised DEF BeginLink
  <2>2. s \in Session
    BY <1>17, RequestFields DEF BeginLink
  <2> HIDE DEF s
  <2>3. /\ s.id \in 0 .. MaxTokens /\ s.by \in Persons /\ s.account \in Accounts
        /\ user[s.account].generation \in Nat /\ resets[s.account] \in Nat
    BY <2>2 DEF Session, Tokens, UserRow
  <2>4. [id |-> issued', mode |-> "link", by |-> s.by, account |-> s.account, session |-> s.id,
         generation |-> IF s.account = NoAccount THEN 0 ELSE user[s.account].generation,
         since |-> IF s.account = NoAccount THEN 0 ELSE resets[s.account]] \in Attempt
    BY <2>1, <2>3 DEF Attempt
  <2>5. QED  BY <1>17, <2>1, <2>4 DEF BeginLink, NewAttempt, s
<1>18. ASSUME NEW r \in Requests, NEW t \in attempts, Consume(r, t) PROVE AccessShape'
  BY <1>18 DEF Consume, CallbackRequest
<1>19. ASSUME NEW r \in Requests, FinishSignin(r) PROVE AccessShape'
  <2> DEFINE p == request[r].attempt.by
  <2>1. p \in Persons
    BY <1>19, RequestFields DEF FinishSignin, Attempt
  <2>2. ASSUME NEW a \in Accounts PROVE Admit(a, p, AnyHash, "google") \in LoginRequest
    BY <2>1 DEF Admit, LoginRequest, UserRow
  <2>3. ASSUME NEW owns \in BOOLEAN PROVE [NoUser EXCEPT !.state = "active", !.verified = owns] \in UserRow
    BY DEF NoUser, UserRow, Hash
  <2> HIDE DEF p
  <2>4. CASE identities[p] # NoAccount /\ Go(r, Admit(identities[p], p, AnyHash, "google"))
             /\ UNCHANGED <<user, identities>>
    BY <1>19, <2>1, <2>2, <2>4 DEF FinishSignin
  <2>5. ASSUME NEW a \in Accounts, NEW owns \in BOOLEAN,
               user' = [user EXCEPT ![a] = [NoUser EXCEPT !.state = "active", !.verified = owns]],
               identities' = [identities EXCEPT ![p] = a], Go(r, Admit(a, p, AnyHash, "google"))
        PROVE  AccessShape'
    <3>1. user' \in [Accounts -> UserRow]
      BY <2>3, <2>5
    <3>2. QED  BY <1>19, <2>1, <2>2, <2>5, <3>1 DEF FinishSignin
  <2>6. QED  BY <1>19, <2>4, <2>5 DEF FinishSignin, p
<1>20. ASSUME NEW r \in Requests, FinishReauthentication(r) PROVE AccessShape'
  BY <1>20 DEF FinishReauthentication, Replace, Session
<1>21. ASSUME NEW r \in Requests, FinishLink(r) PROVE AccessShape'
  <2>1. request[r].attempt.by \in Persons
    BY <1>21, RequestFields DEF FinishLink, Attempt
  <2>2. PICK s \in sessions :
          /\ identities' = [identities EXCEPT ![request[r].attempt.by] = s.account]
          /\ user' = user \/ user' = [user EXCEPT ![s.account].verified = TRUE]
    BY <1>21 DEF FinishLink
  <2>3. s.account \in Accounts
    BY DEF Session
  <2>4. user' \in [Accounts -> UserRow]
    <3>1. [user[s.account] EXCEPT !.verified = TRUE] \in UserRow
      BY <2>3, VerifiedRow
    <3>2. user' = user \/ user' = [user EXCEPT ![s.account] = [user[s.account] EXCEPT !.verified = TRUE]]
      BY <2>2
    <3>3. QED  BY <2>3, <3>1, <3>2
  <2>5. QED  BY <1>21, <2>1, <2>2, <2>3, <2>4 DEF FinishLink
<1>22. ASSUME NEW r \in Requests, NEW s \in sessions, StartKey(r, s) PROVE AccessShape'
  <2>1. [kind |-> "key", account |-> s.account, since |-> resets[s.account],
         generation |-> user[s.account].generation] \in KeyRequest
    BY DEF KeyRequest, Session, UserRow
  <2>2. QED  BY <1>22, <2>1 DEF StartKey
<1>23. ASSUME NEW r \in Requests, CreateKey(r) PROVE AccessShape'
  BY <1>23, Tokenised, RequestFields DEF CreateKey, Key
<1>24. ASSUME NEW s \in sessions, RevokeKeys(s) PROVE AccessShape'
  BY <1>24 DEF RevokeKeys
<1>25. ASSUME NEW s \in sessions, DeleteAccount(s) PROVE AccessShape'
  BY <1>25 DEF DeleteAccount, NoUser, UserRow, Hash, Session
<1>26. CASE Gone
  BY <1>26 DEF Gone
<1>27. ASSUME NEW r \in Requests, Abandon(r) PROVE AccessShape'
  BY <1>27 DEF Abandon
<1>28. CASE UNCHANGED accessVars
  BY <1>28 DEF accessVars
<1>29. QED
  BY <1>1, <1>2, <1>3, <1>4, <1>5, <1>6, <1>7, <1>8, <1>9, <1>10, <1>11, <1>12, <1>13, <1>14,
     <1>15, <1>16, <1>17, <1>18, <1>19, <1>20, <1>21, <1>22, <1>23, <1>24, <1>25, <1>26, <1>27,
     <1>28 DEF Next

-----------------------------------------------------------------------------
(* How accounts and sessions change                                        *)

\* An account that exists is deleted for good or moves forward: its password
\* changes only with a new generation and a new salt.
AccountsMove ==
    \A a \in Accounts : user[a].state # "absent" =>
        /\ user'[a].state # "absent"
        /\ user'[a].state \in {"inactive", "active"} =>
              /\ Present(a)
              /\ user[a].generation <= user'[a].generation
              /\ user[a].generation = user'[a].generation =>
                    resets'[a] = resets[a] /\ user'[a].hash.by = user[a].hash.by
              /\ user[a].hash.salt <= user'[a].hash.salt
              /\ user[a].hash.salt = user'[a].hash.salt => resets'[a] = resets[a]

\* An account that exists keeps its password and its sessions, unless its
\* generation changed, or every credential and link it had is gone.
RowsFollow ==
    \A a \in Accounts : user[a].state \in {"inactive", "active"} =>
        \/ /\ user'[a].state \in {"inactive", "active"}
           /\ resets'[a] = resets[a] /\ user'[a].hash.by = user[a].hash.by
           /\ user[a].verified => user'[a].verified
           /\ user'[a].state = "active" => user[a].state = "active" \/ user'[a].verified
           /\ user'[a].generation = user[a].generation \/ \A s \in sessions' : s.account # a
        \/ /\ \A s \in sessions' : s.account # a
           /\ \A k \in api_keys' : k.account # a
           /\ \A c \in links' : c.account # a

\* A session was there, or has just been created.
SameSession(s, t) ==
    /\ t.id = s.id /\ t.account = s.account /\ t.by = s.by
    /\ t.generation = s.generation /\ t.evidence = s.evidence /\ t.since = s.since
SessionsMove ==
    \A s \in sessions' :
        \/ \E t \in sessions : SameSession(s, t)
        \/ /\ UNCHANGED <<user, resets>> /\ issued' = issued + 1 /\ s.id = issued'
           /\ Active(s.account) /\ s.generation = user[s.account].generation
           /\ s.evidence = "password" => s.since = resets[s.account]

LEMMA Numbers ==
    ASSUME AccessShape, NEW a \in Accounts
    PROVE  /\ user[a].generation \in Nat /\ user[a].hash.salt \in Nat /\ resets[a] \in Nat
           /\ user[a] \in UserRow /\ user[a].hash \in Hash
           /\ user[a].state \in {"absent", "inactive", "active", "deleted"}
  BY DEF AccessShape, UserRow, Hash

LEMMA AccountsStep == AccessShape /\ [Next]_accessVars => AccountsMove
<1> SUFFICES ASSUME AccessShape, [Next]_accessVars PROVE AccountsMove
  OBVIOUS
<1> USE DEF Present, credentials, google, history
<1>1. ASSUME UNCHANGED <<user, resets>> PROVE AccountsMove
  BY <1>1, Numbers DEF AccountsMove
\* One account changes, the others stay.
<1>2. ASSUME NEW b \in Accounts, NEW u, user' = [user EXCEPT ![b] = u],
             \A a \in Accounts \ {b} : resets'[a] = resets[a],
             user[b].state # "absent" =>
                /\ u.state # "absent"
                /\ u.state \in {"inactive", "active"} =>
                      /\ Present(b)
                      /\ user[b].generation <= u.generation
                      /\ user[b].generation = u.generation =>
                            resets'[b] = resets[b] /\ u.hash.by = user[b].hash.by
                      /\ user[b].hash.salt <= u.hash.salt
                      /\ user[b].hash.salt = u.hash.salt => resets'[b] = resets[b]
      PROVE  AccountsMove
  <2>1. user'[b] = u /\ \A a \in Accounts \ {b} : user'[a] = user[a]
    BY <1>2 DEF AccessShape
  <2>2. QED  BY <1>2, <2>1, Numbers DEF AccountsMove
<1>3. ASSUME NEW b \in Accounts, Fresh(b), NEW u, user' = [user EXCEPT ![b] = u], UNCHANGED resets
      PROVE  AccountsMove
  BY <1>2, <1>3 DEF Fresh
<1>4. ASSUME NEW r \in Requests, NEW p \in Persons, NEW a \in Accounts, Register(r, p, a) PROVE AccountsMove
  BY <1>3, <1>4 DEF Register
<1>5. ASSUME NEW a \in Accounts, Invite(a) PROVE AccountsMove
  BY <1>3, <1>5 DEF Invite
<1>6. ASSUME NEW r \in Requests, CompleteVerify(r) PROVE AccountsMove
  <2> DEFINE a == request[r].link.account
             u == [user[a] EXCEPT !.verified = TRUE, !.state = "active"]
  <2>1. a \in Accounts
    BY <1>6, RequestFields DEF CompleteVerify, Link
  <2>2. user' = [user EXCEPT ![a] = u] /\ UNCHANGED resets /\ Present(a)
    BY <1>6 DEF CompleteVerify
  <2>3. u.state = "active" /\ u.generation = user[a].generation /\ u.hash = user[a].hash
    BY <2>1, Numbers DEF UserRow
  <2> HIDE DEF u, a
  <2>4. /\ u.state # "absent" /\ Present(a)
        /\ user[a].generation <= u.generation /\ user[a].hash.salt <= u.hash.salt
        /\ user[a].generation = u.generation => resets'[a] = resets[a] /\ u.hash.by = user[a].hash.by
        /\ user[a].hash.salt = u.hash.salt => resets'[a] = resets[a]
    BY <2>1, <2>2, <2>3, Numbers
  <2>5. QED  BY <1>2, <2>1, <2>2, <2>4
<1>7. ASSUME NEW r \in Requests, CompleteReset(r) PROVE AccountsMove
  <2> DEFINE q == request[r]
             a == q.link.account
             u == [state |-> "active", enabled |-> TRUE,
                   hash |-> [by |-> q.by, salt |-> user[a].hash.salt + 1, old |-> FALSE],
                   verified |-> user[a].verified \/ q.link.proof,
                   generation |-> user[a].generation + 1]
  <2>1. a \in Accounts
    BY <1>7, RequestFields DEF CompleteReset, Link
  <2>2. user' = [user EXCEPT ![a] = u] /\ resets' = [resets EXCEPT ![a] = @ + 1] /\ Present(a)
    BY <1>7 DEF CompleteReset
  <2>3. u.state = "active" /\ u.generation = user[a].generation + 1 /\ u.hash.salt = user[a].hash.salt + 1
    OBVIOUS
  <2>4. \A b \in Accounts \ {a} : resets'[b] = resets[b]
    BY <2>2 DEF AccessShape
  <2> HIDE DEF u, a
  <2>5. /\ u.state # "absent" /\ Present(a)
        /\ user[a].generation <= u.generation /\ user[a].hash.salt <= u.hash.salt
        /\ user[a].generation = u.generation => resets'[a] = resets[a] /\ u.hash.by = user[a].hash.by
        /\ user[a].hash.salt = u.hash.salt => resets'[a] = resets[a]
    BY <2>1, <2>2, <2>3, <2>4, Numbers
  <2>6. QED  BY <1>2, <2>1, <2>2, <2>5, <2>4
<1>8. ASSUME NEW r \in Requests, Rehash(r) PROVE AccountsMove
  <2> DEFINE a == request[r].account
             h == [user[a].hash EXCEPT !.salt = @ + 1, !.old = FALSE]
             u == [user[a] EXCEPT !.hash = h]
  <2>1. a \in Accounts
    BY <1>8, RequestFields DEF Rehash
  <2>2. UNCHANGED resets /\ Present(a) /\ (user' = user \/ user' = [user EXCEPT ![a] = u])
    BY <1>8 DEF Rehash
  <2>3. h.salt = user[a].hash.salt + 1 /\ h.by = user[a].hash.by
    BY <2>1, Numbers DEF Hash
  <2> HIDE DEF h
  <2>4. u.state = user[a].state /\ u.generation = user[a].generation /\ u.hash = h
    BY <2>1, Numbers DEF UserRow
  <2> HIDE DEF u, a
  <2>5. QED  BY <1>1, <1>2, <2>1, <2>2, <2>3, <2>4, Numbers
<1>9. ASSUME NEW s \in sessions, Logout(s) PROVE AccountsMove
  <2> DEFINE a == s.account
             u == [user[a] EXCEPT !.generation = @ + 1]
  <2>1. a \in Accounts
    BY DEF AccessShape, Session
  <2>2. UNCHANGED resets /\ Present(a) /\ user' = [user EXCEPT ![a] = u]
    BY <1>9 DEF Logout, Valid
  <2>3. u.state = user[a].state /\ u.generation = user[a].generation + 1 /\ u.hash = user[a].hash
    BY <2>1, Numbers DEF UserRow
  <2> HIDE DEF u, a
  <2>4. /\ u.state # "absent" /\ Present(a)
        /\ user[a].generation <= u.generation /\ user[a].hash.salt <= u.hash.salt
        /\ user[a].generation = u.generation => resets'[a] = resets[a] /\ u.hash.by = user[a].hash.by
        /\ user[a].hash.salt = u.hash.salt => resets'[a] = resets[a]
    BY <2>1, <2>2, <2>3, Numbers
  <2>5. QED  BY <1>2, <2>1, <2>2, <2>4
<1>10. ASSUME NEW r \in Requests, FinishSignin(r) PROVE AccountsMove
  BY <1>1, <1>3, <1>10 DEF FinishSignin
<1>11. ASSUME NEW r \in Requests, FinishLink(r) PROVE AccountsMove
  <2>1. PICK s \in sessions :
          user' = user \/ user' = [user EXCEPT ![s.account] = [user[s.account] EXCEPT !.verified = TRUE]]
    BY <1>11 DEF FinishLink
  <2> DEFINE a == s.account
             u == [user[a] EXCEPT !.verified = TRUE]
  <2>2. a \in Accounts /\ UNCHANGED resets
    BY <1>11 DEF AccessShape, Session, FinishLink
  <2>3. u.state = user[a].state /\ u.generation = user[a].generation /\ u.hash = user[a].hash
    BY <2>2, Numbers DEF UserRow
  <2>4. user' = user \/ user' = [user EXCEPT ![a] = u]
    BY <2>1
  <2> HIDE DEF u, a
  <2>5. QED  BY <1>1, <1>2, <2>2, <2>3, <2>4, Numbers
<1>12. ASSUME NEW s \in sessions, DeleteAccount(s) PROVE AccountsMove
  <2>1. s.account \in Accounts /\ UNCHANGED resets
    BY <1>12 DEF AccessShape, Session, DeleteAccount
  <2>2. user' = [user EXCEPT ![s.account] = [NoUser EXCEPT !.state = "deleted"]]
    BY <1>12 DEF DeleteAccount
  <2>3. [NoUser EXCEPT !.state = "deleted"].state = "deleted"
    BY DEF NoUser
  <2>4. QED  BY <1>2, <2>1, <2>2, <2>3
<1>13. ASSUME \/ \E a \in Accounts : OperatorLink(a) \/ \E purpose \in Purpose : RequestEmail(a, purpose)
              \/ \E p \in Persons : BeginSignin(p)
              \/ \E s \in sessions : \/ ConfirmationLapses(s) \/ CompleteLogin(s)
                                     \/ BeginReauthentication(s) \/ RevokeKeys(s)
              \/ Gone
       PROVE  AccountsMove
  BY <1>1, <1>13 DEF OperatorLink, RequestEmail, BeginSignin, ConfirmationLapses, CompleteLogin,
                     BeginReauthentication, RevokeKeys, Gone
<1>14. ASSUME NEW r \in Requests,
              \/ \E p \in Persons, c \in links : StartComplete(r, p, c)
              \/ \E a \in Accounts : StartLogin(r, a)
              \/ CreateSession(r) \/ Confirm(r) \/ BeginLink(r) \/ FinishReauthentication(r)
              \/ CreateKey(r) \/ Abandon(r)
              \/ \E s \in sessions : \/ StartKey(r, s)
                                     \/ \E then \in {"idle", "link"} : StartConfirm(r, s, then)
              \/ \E t \in attempts : Consume(r, t)
       PROVE  AccountsMove
  BY <1>1, <1>14 DEF StartComplete, StartLogin, CreateSession, Confirm, BeginLink,
                     FinishReauthentication, CreateKey, Abandon, StartKey, StartConfirm, Consume
<1>15. CASE UNCHANGED accessVars
  BY <1>1, <1>15 DEF accessVars
<1>16. QED
  BY <1>4, <1>5, <1>6, <1>7, <1>8, <1>9, <1>10, <1>11, <1>12, <1>13, <1>14, <1>15 DEF Next

LEMMA RowsStep == AccessShape /\ [Next]_accessVars => RowsFollow
<1> SUFFICES ASSUME AccessShape, [Next]_accessVars PROVE RowsFollow
  OBVIOUS
<1> USE DEF Present, credentials, google, history
<1>1. ASSUME UNCHANGED <<user, resets>> PROVE RowsFollow
  BY <1>1 DEF RowsFollow
<1>2. ASSUME NEW b \in Accounts, NEW u, user' = [user EXCEPT ![b] = u], UNCHANGED resets,
             user[b].state \in {"inactive", "active"} =>
                /\ u.state \in {"inactive", "active"} /\ u.hash.by = user[b].hash.by
                /\ user[b].verified => u.verified
                /\ u.state = "active" => user[b].state = "active" \/ u.verified
                /\ u.generation = user[b].generation \/ \A s \in sessions' : s.account # b
      PROVE  RowsFollow
  <2>1. user'[b] = u /\ \A a \in Accounts \ {b} : user'[a] = user[a]
    BY <1>2 DEF AccessShape
  <2>2. QED  BY <1>2, <2>1 DEF RowsFollow
<1>3. ASSUME NEW b \in Accounts, Fresh(b), NEW u, user' = [user EXCEPT ![b] = u], UNCHANGED resets
      PROVE  RowsFollow
  BY <1>2, <1>3 DEF Fresh
<1>4. ASSUME NEW b \in Accounts, NEW u, user' = [user EXCEPT ![b] = u],
             \A a \in Accounts \ {b} : resets'[a] = resets[a],
             sessions' = sessions \ Of(sessions, b), api_keys' = api_keys \ Of(api_keys, b),
             links' = links \ Of(links, b)
      PROVE  RowsFollow
  <2>1. \A a \in Accounts \ {b} : user'[a] = user[a] /\ resets'[a] = resets[a]
    BY <1>4 DEF AccessShape
  <2>2. /\ \A s \in sessions' : s.account # b
        /\ \A k \in api_keys' : k.account # b
        /\ \A c \in links' : c.account # b
    BY <1>4 DEF Of
  <2>3. QED  BY <2>1, <2>2 DEF RowsFollow
<1>5. ASSUME NEW r \in Requests, NEW p \in Persons, NEW a \in Accounts, Register(r, p, a) PROVE RowsFollow
  BY <1>3, <1>5 DEF Register
<1>6. ASSUME NEW a \in Accounts, Invite(a) PROVE RowsFollow
  BY <1>3, <1>6 DEF Invite
<1>7. ASSUME NEW r \in Requests, CompleteVerify(r) PROVE RowsFollow
  <2> DEFINE a == request[r].link.account
             u == [user[a] EXCEPT !.verified = TRUE, !.state = "active"]
  <2>1. a \in Accounts
    BY <1>7, RequestFields DEF CompleteVerify, Link
  <2>2. user' = [user EXCEPT ![a] = u] /\ UNCHANGED resets
    BY <1>7 DEF CompleteVerify
  <2>3. u.state = "active" /\ u.generation = user[a].generation /\ u.hash = user[a].hash /\ u.verified
    BY <2>1, Numbers DEF UserRow
  <2> HIDE DEF u, a
  <2>4. QED  BY <1>2, <2>1, <2>2, <2>3
<1>8. ASSUME NEW r \in Requests, CompleteReset(r) PROVE RowsFollow
  <2> DEFINE q == request[r]
             a == q.link.account
  <2>1. a \in Accounts
    BY <1>8, RequestFields DEF CompleteReset, Link
  <2>2. PICK u : user' = [user EXCEPT ![a] = u]
    BY <1>8 DEF CompleteReset
  <2>3. \A b \in Accounts \ {a} : resets'[b] = resets[b]
    BY <1>8 DEF AccessShape, CompleteReset
  <2>4. /\ sessions' = sessions \ Of(sessions, a) /\ api_keys' = api_keys \ Of(api_keys, a)
        /\ links' = links \ Of(links, a)
    BY <1>8 DEF CompleteReset, SettledByReset
  <2> HIDE DEF a
  <2>5. QED  BY <1>4, <2>1, <2>2, <2>3, <2>4
<1>9. ASSUME NEW r \in Requests, Rehash(r) PROVE RowsFollow
  <2> DEFINE a == request[r].account
             h == [user[a].hash EXCEPT !.salt = @ + 1, !.old = FALSE]
             u == [user[a] EXCEPT !.hash = h]
  <2>1. a \in Accounts
    BY <1>9, RequestFields DEF Rehash
  <2>2. UNCHANGED resets /\ (user' = user \/ user' = [user EXCEPT ![a] = u])
    BY <1>9 DEF Rehash
  <2>3. h.by = user[a].hash.by
    BY <2>1, Numbers DEF Hash
  <2> HIDE DEF h
  <2>4. /\ u.state = user[a].state /\ u.generation = user[a].generation /\ u.hash = h
        /\ u.verified = user[a].verified
    BY <2>1, Numbers DEF UserRow
  <2> HIDE DEF u, a
  <2>5. QED  BY <1>1, <1>2, <2>1, <2>2, <2>3, <2>4
<1>10. ASSUME NEW s \in sessions, Logout(s) PROVE RowsFollow
  <2> DEFINE a == s.account
             u == [user[a] EXCEPT !.generation = @ + 1]
  <2>1. a \in Accounts
    BY DEF AccessShape, Session
  <2>2. UNCHANGED resets /\ user' = [user EXCEPT ![a] = u]
    BY <1>10 DEF Logout
  <2>3. u.state = user[a].state /\ u.hash = user[a].hash /\ u.verified = user[a].verified
    BY <2>1, Numbers DEF UserRow
  <2>4. \A t \in sessions' : t.account # a
    BY <1>10 DEF Logout, Of
  <2> HIDE DEF u, a
  <2>5. QED  BY <1>2, <2>1, <2>2, <2>3, <2>4
<1>11. ASSUME NEW r \in Requests, FinishSignin(r) PROVE RowsFollow
  BY <1>1, <1>3, <1>11 DEF FinishSignin
<1>12. ASSUME NEW r \in Requests, FinishLink(r) PROVE RowsFollow
  <2>1. PICK s \in sessions :
          user' = user \/ user' = [user EXCEPT ![s.account] = [user[s.account] EXCEPT !.verified = TRUE]]
    BY <1>12 DEF FinishLink
  <2> DEFINE a == s.account
             u == [user[a] EXCEPT !.verified = TRUE]
  <2>2. a \in Accounts /\ UNCHANGED resets
    BY <1>12 DEF AccessShape, Session, FinishLink
  <2>3. u.state = user[a].state /\ u.generation = user[a].generation /\ u.hash = user[a].hash /\ u.verified
    BY <2>2, Numbers DEF UserRow
  <2>4. user' = user \/ user' = [user EXCEPT ![a] = u]
    BY <2>1
  <2> HIDE DEF u, a
  <2>5. QED  BY <1>1, <1>2, <2>2, <2>3, <2>4
<1>13. ASSUME NEW s \in sessions, DeleteAccount(s) PROVE RowsFollow
  <2>1. s.account \in Accounts /\ UNCHANGED resets
    BY <1>13 DEF AccessShape, Session, DeleteAccount
  <2>2. QED  BY <1>4, <1>13, <2>1 DEF DeleteAccount
<1>14. ASSUME \/ \E a \in Accounts : OperatorLink(a) \/ \E purpose \in Purpose : RequestEmail(a, purpose)
              \/ \E p \in Persons : BeginSignin(p)
              \/ \E s \in sessions : \/ ConfirmationLapses(s) \/ CompleteLogin(s)
                                     \/ BeginReauthentication(s) \/ RevokeKeys(s)
              \/ Gone
       PROVE  RowsFollow
  BY <1>1, <1>14 DEF OperatorLink, RequestEmail, BeginSignin, ConfirmationLapses, CompleteLogin,
                     BeginReauthentication, RevokeKeys, Gone
<1>15. ASSUME NEW r \in Requests,
              \/ \E p \in Persons, c \in links : StartComplete(r, p, c)
              \/ \E a \in Accounts : StartLogin(r, a)
              \/ CreateSession(r) \/ Confirm(r) \/ BeginLink(r) \/ FinishReauthentication(r)
              \/ CreateKey(r) \/ Abandon(r)
              \/ \E s \in sessions : \/ StartKey(r, s)
                                     \/ \E then \in {"idle", "link"} : StartConfirm(r, s, then)
              \/ \E t \in attempts : Consume(r, t)
       PROVE  RowsFollow
  BY <1>1, <1>15 DEF StartComplete, StartLogin, CreateSession, Confirm, BeginLink,
                     FinishReauthentication, CreateKey, Abandon, StartKey, StartConfirm, Consume
<1>16. CASE UNCHANGED accessVars
  BY <1>1, <1>16 DEF accessVars
<1>17. QED
  BY <1>5, <1>6, <1>7, <1>8, <1>9, <1>10, <1>11, <1>12, <1>13, <1>14, <1>15, <1>16 DEF Next

-----------------------------------------------------------------------------
(* Sessions and keys                                                       *)

LEMMA IssuedStep == AccessShape /\ [Next]_accessVars => issued \in Nat /\ issued' \in Nat /\ issued <= issued'
<1> SUFFICES ASSUME AccessShape, [Next]_accessVars PROVE issued \in Nat /\ issued' \in Nat /\ issued <= issued'
  OBVIOUS
<1>1. Issue \/ UNCHANGED issued
  <2>1. ASSUME NEW r \in Requests, NEW p \in Persons,
               (\E a \in Accounts : Register(r, p, a)) \/ (\E c \in links : StartComplete(r, p, c))
        PROVE  UNCHANGED issued
    BY <2>1 DEF Register, StartComplete
  <2>2. ASSUME NEW r \in Requests,
               \/ CompleteVerify(r) \/ CompleteReset(r) \/ (\E a \in Accounts : StartLogin(r, a))
               \/ Rehash(r) \/ Confirm(r) \/ (\E t \in attempts : Consume(r, t))
               \/ FinishSignin(r) \/ FinishReauthentication(r) \/ FinishLink(r) \/ Abandon(r)
               \/ \E s \in sessions : \/ StartKey(r, s)
                                      \/ \E then \in {"idle", "link"} : StartConfirm(r, s, then)
        PROVE  UNCHANGED issued
    BY <2>2 DEF CompleteVerify, CompleteReset, StartLogin, Rehash, Confirm, Consume, FinishSignin,
                FinishReauthentication, FinishLink, Abandon, StartKey, StartConfirm
  <2>3. ASSUME NEW r \in Requests, CreateSession(r) \/ BeginLink(r) \/ CreateKey(r)
        PROVE  Issue
    BY <2>3 DEF CreateSession, BeginLink, CreateKey
  <2>4. ASSUME NEW a \in Accounts,
               Invite(a) \/ OperatorLink(a) \/ \E purpose \in Purpose : RequestEmail(a, purpose)
        PROVE  Issue
    BY <2>4 DEF Invite, OperatorLink, RequestEmail
  <2>5. ASSUME NEW s \in sessions,
               \/ ConfirmationLapses(s) \/ Logout(s) \/ CompleteLogin(s)
               \/ BeginReauthentication(s) \/ RevokeKeys(s) \/ DeleteAccount(s)
        PROVE  Issue \/ UNCHANGED issued
    BY <2>5 DEF ConfirmationLapses, Logout, CompleteLogin, BeginReauthentication, RevokeKeys,
                DeleteAccount
  <2>6. ASSUME NEW p \in Persons, BeginSignin(p) PROVE Issue
    BY <2>6 DEF BeginSignin
  <2>7. CASE Gone \/ UNCHANGED accessVars
    BY <2>7 DEF Gone, accessVars
  <2>8. QED  BY <2>1, <2>2, <2>3, <2>4, <2>5, <2>6, <2>7 DEF Next
<1>2. issued \in Nat
  BY AccessAssumption DEF AccessShape
<1>3. QED  BY <1>1, <1>2 DEF Issue

LEMMA SessionsStep == AccessInv /\ [Next]_accessVars => SessionsMove /\ SessionsNamed'
<1> SUFFICES ASSUME AccessInv, [Next]_accessVars PROVE SessionsMove /\ SessionsNamed'
  OBVIOUS
<1> USE DEF AccessInv, credentials, google, history
<1>0. issued \in Nat /\ issued' \in Nat /\ issued <= issued' /\ \A s \in sessions : s.id \in Nat
  BY IssuedStep DEF AccessShape, Session, Tokens
<1>1. ASSUME sessions' \subseteq sessions PROVE SessionsMove /\ SessionsNamed'
  BY <1>0, <1>1 DEF SessionsMove, SessionsNamed, SameSession
<1>2. ASSUME NEW s \in sessions, NEW t, SameSession(s, t), Replace(s, t)
      PROVE  SessionsMove /\ SessionsNamed'
  <2>1. sessions' = (sessions \ {s}) \cup {t} /\ t.id = s.id
    BY <1>2 DEF Replace, SameSession
  <2>2. SessionsNamed'
    BY <1>0, <2>1 DEF SessionsNamed
  <2>3. SessionsMove
    BY <1>2, <2>1 DEF SessionsMove, SameSession
  <2>4. QED  BY <2>2, <2>3
<1>3. ASSUME NEW r \in Requests, CreateSession(r) PROVE SessionsMove /\ SessionsNamed'
  <2> DEFINE q == request[r]
             a == q.account
             n == [id |-> issued', account |-> a, by |-> q.by,
                   generation |-> user[a].generation, evidence |-> q.evidence,
                   since |-> IF q.evidence = "google" THEN resets[a] ELSE q.since,
                   recent |-> FALSE, pending |-> q.evidence = "google"]
  <2>1. /\ Active(a) /\ StillPassword(a, q.hash) /\ UNCHANGED <<user, resets>>
        /\ q.kind = "session" /\ Issue
        /\ sessions' \subseteq sessions \cup {n}
    BY <1>3 DEF CreateSession, Kept, Of
  <2>2. issued' = issued + 1
    BY <2>1 DEF Issue
  <2>3. q.evidence = "password" => q.since = resets[a]
    <3>1. SUFFICES ASSUME q.evidence = "password" PROVE q.since = resets[a]
      OBVIOUS
    <3>2. LoginRemembers(q)
      BY <2>1 DEF RequestsRemember, RequestRemembers
    <3>3. q.hash \in Hash /\ Present(a)
      BY <2>1, <3>1, <3>2 DEF LoginRemembers, Active, Present
    <3>4. q.hash # AnyHash
      <4>1. AnyHash.salt = -1 /\ q.hash.salt \in Nat
        BY <3>3 DEF Hash, AnyHash
      <4>2. QED  BY <4>1
    <3>5. user[a].hash = q.hash
      BY <2>1, <3>4 DEF StillPassword
    <3>6. QED  BY <3>1, <3>2, <3>3, <3>5 DEF LoginRemembers
  <2>4. /\ n.id = issued' /\ n.account = a /\ n.by = q.by /\ n.generation = user[a].generation
        /\ n.evidence = q.evidence
        /\ n.evidence = "password" => n.since = resets[a]
    BY <2>3
  <2> HIDE DEF n, a, q
  <2>5. SessionsMove
    BY <2>1, <2>2, <2>4 DEF SessionsMove, SameSession
  <2>6. SessionsNamed'
    BY <1>0, <2>1, <2>2, <2>4 DEF SessionsNamed
  <2>7. QED  BY <2>5, <2>6
<1>4. ASSUME NEW s \in sessions, ConfirmationLapses(s) \/ CompleteLogin(s)
      PROVE  SessionsMove /\ SessionsNamed'
  <2>1. PICK t : t \in {[s EXCEPT !.recent = FALSE], [s EXCEPT !.pending = FALSE]} /\ Replace(s, t)
    BY <1>4 DEF ConfirmationLapses, CompleteLogin
  <2>2. SameSession(s, t)
    BY <2>1 DEF SameSession, AccessShape, Session
  <2>3. QED  BY <1>2, <2>1, <2>2
<1>5. ASSUME NEW r \in Requests, Confirm(r) \/ FinishReauthentication(r)
      PROVE  SessionsMove /\ SessionsNamed'
  <2>1. PICK s \in sessions : Replace(s, [s EXCEPT !.recent = TRUE])
    BY <1>5 DEF Confirm, FinishReauthentication, Exists, Current
  <2>2. SameSession(s, [s EXCEPT !.recent = TRUE])
    BY <2>1 DEF SameSession, AccessShape, Session
  <2>3. QED  BY <1>2, <2>1, <2>2
<1>6. ASSUME NEW a \in Accounts,
             Invite(a) \/ OperatorLink(a) \/ \E purpose \in Purpose : RequestEmail(a, purpose)
      PROVE  sessions' \subseteq sessions
  BY <1>6 DEF Invite, OperatorLink, RequestEmail
<1>7. ASSUME NEW p \in Persons, BeginSignin(p) PROVE sessions' \subseteq sessions
  BY <1>7 DEF BeginSignin
<1>8. ASSUME NEW s \in sessions,
             Logout(s) \/ BeginReauthentication(s) \/ RevokeKeys(s) \/ DeleteAccount(s)
      PROVE  sessions' \subseteq sessions
  BY <1>8 DEF Logout, BeginReauthentication, RevokeKeys, DeleteAccount
<1>9. ASSUME NEW r \in Requests, NEW p \in Persons,
             (\E a \in Accounts : Register(r, p, a)) \/ (\E c \in links : StartComplete(r, p, c))
      PROVE  sessions' \subseteq sessions
  BY <1>9 DEF Register, StartComplete
<1>10. ASSUME NEW r \in Requests,
              \/ CompleteVerify(r) \/ CompleteReset(r) \/ (\E a \in Accounts : StartLogin(r, a))
              \/ Rehash(r) \/ BeginLink(r) \/ (\E t \in attempts : Consume(r, t))
       PROVE  sessions' \subseteq sessions
  BY <1>10 DEF CompleteVerify, CompleteReset, StartLogin, Rehash, BeginLink, Consume
<1>11. ASSUME NEW r \in Requests,
              \/ FinishSignin(r) \/ FinishLink(r) \/ CreateKey(r) \/ Abandon(r)
              \/ \E s \in sessions : \/ StartKey(r, s)
                                     \/ \E then \in {"idle", "link"} : StartConfirm(r, s, then)
       PROVE  sessions' \subseteq sessions
  BY <1>11 DEF FinishSignin, FinishLink, CreateKey, Abandon, StartKey, StartConfirm
<1>12. CASE Gone \/ UNCHANGED accessVars
  BY <1>1, <1>12 DEF Gone, accessVars
<1> HIDE DEF AccessInv, credentials, google, history
<1>13. QED
  BY <1>1, <1>3, <1>4, <1>5, <1>6, <1>7, <1>8, <1>9, <1>10, <1>11, <1>12 DEF Next

\* Only a request that creates a key adds one.
LEMMA KeysMove == [Next]_accessVars => api_keys' \subseteq api_keys \/ \E r \in Requests : CreateKey(r)
<1> SUFFICES ASSUME [Next]_accessVars
             PROVE  api_keys' \subseteq api_keys \/ \E r \in Requests : CreateKey(r)
  OBVIOUS
<1> USE DEF credentials
<1>1. ASSUME NEW a \in Accounts,
             Invite(a) \/ OperatorLink(a) \/ \E purpose \in Purpose : RequestEmail(a, purpose)
      PROVE  api_keys' \subseteq api_keys
  BY <1>1 DEF Invite, OperatorLink, RequestEmail
<1>2. ASSUME NEW p \in Persons, BeginSignin(p) PROVE api_keys' \subseteq api_keys
  BY <1>2 DEF BeginSignin
<1>3. ASSUME NEW s \in sessions,
             \/ ConfirmationLapses(s) \/ Logout(s) \/ CompleteLogin(s)
             \/ BeginReauthentication(s) \/ RevokeKeys(s) \/ DeleteAccount(s)
      PROVE  api_keys' \subseteq api_keys
  BY <1>3 DEF ConfirmationLapses, Logout, CompleteLogin, BeginReauthentication, RevokeKeys,
              DeleteAccount
<1>4. ASSUME NEW r \in Requests, NEW p \in Persons,
             (\E a \in Accounts : Register(r, p, a)) \/ (\E c \in links : StartComplete(r, p, c))
      PROVE  api_keys' \subseteq api_keys
  BY <1>4 DEF Register, StartComplete
<1>5. ASSUME NEW r \in Requests,
             \/ CompleteVerify(r) \/ CompleteReset(r) \/ (\E a \in Accounts : StartLogin(r, a))
             \/ Rehash(r) \/ CreateSession(r) \/ BeginLink(r)
             \/ (\E t \in attempts : Consume(r, t))
      PROVE  api_keys' \subseteq api_keys
  BY <1>5 DEF CompleteVerify, CompleteReset, StartLogin, Rehash, CreateSession, BeginLink, Consume
<1>6. ASSUME NEW r \in Requests,
             \/ FinishSignin(r) \/ FinishReauthentication(r) \/ FinishLink(r)
             \/ Confirm(r) \/ Abandon(r)
             \/ \E s \in sessions : \/ StartKey(r, s)
                                    \/ \E then \in {"idle", "link"} : StartConfirm(r, s, then)
      PROVE  api_keys' \subseteq api_keys
  BY <1>6 DEF FinishSignin, FinishReauthentication, FinishLink, Confirm, Abandon, StartKey,
              StartConfirm
<1>7. CASE Gone \/ UNCHANGED accessVars
  BY <1>7 DEF Gone, accessVars
<1>8. QED  BY <1>1, <1>2, <1>3, <1>4, <1>5, <1>6, <1>7 DEF Next

LEMMA CredentialsStep == AccessInv /\ [Next]_accessVars => CredentialsFollowPassword'
<1> SUFFICES ASSUME AccessInv, [Next]_accessVars PROVE CredentialsFollowPassword'
  OBVIOUS
<1> USE DEF AccessInv, Present
<1>1. RowsFollow /\ SessionsMove /\ AccessShape'
  BY RowsStep, SessionsStep, ShapeStep
<1>2. ASSUME NEW s \in sessions'
      PROVE  /\ user'[s.account].state \in {"inactive", "active"}
             /\ s.generation = user'[s.account].generation
             /\ s.evidence = "password" => s.since = resets'[s.account]
  <2>1. CASE \E t \in sessions : SameSession(s, t)
    <3>1. PICK t \in sessions : SameSession(s, t)
      BY <2>1
    <3>2. /\ t.account \in Accounts /\ Present(t.account)
          /\ t.generation = user[t.account].generation
          /\ t.evidence = "password" => t.since = resets[t.account]
      BY DEF AccessShape, Session, CredentialsFollowPassword, Valid
    <3>3. QED  BY <1>1, <3>1, <3>2 DEF RowsFollow, SameSession
  <2>2. CASE ~\E t \in sessions : SameSession(s, t)
    BY <1>1, <2>2 DEF SessionsMove, Active
  <2>3. QED  BY <2>1, <2>2
<1>3. ASSUME NEW k \in api_keys'
      PROVE  user'[k.account].state \in {"inactive", "active"} /\ k.since = resets'[k.account]
  <2>1. CASE k \in api_keys
    BY <1>1, <1>3, <2>1 DEF RowsFollow, AccessShape, Key, CredentialsFollowPassword
  <2>2. CASE k \notin api_keys
    <3>1. PICK r \in Requests : CreateKey(r)
      BY <1>3, <2>2, KeysMove
    <3>2. /\ k.account = request[r].account /\ k.since = request[r].since
          /\ Present(k.account) /\ user[k.account].generation = request[r].generation
          /\ request[r].kind = "key" /\ UNCHANGED <<user, resets>>
      BY <1>3, <2>2, <3>1 DEF CreateKey, history
    <3>3. Remembered(request[r].account, request[r].generation, request[r].since)
      BY <3>2 DEF RequestsRemember, RequestRemembers
    <3>4. QED  BY <3>2, <3>3 DEF Remembered
  <2>3. QED  BY <2>1, <2>2
<1>4. QED  BY <1>2, <1>3 DEF CredentialsFollowPassword, Valid

-----------------------------------------------------------------------------
(* Requests                                                                *)

LEMMA StillRemembered ==
    ASSUME AccessShape, AccessShape', AccountsMove, NEW a \in Accounts, NEW g \in Nat, NEW n, Remembered(a, g, n)
    PROVE  Remembered(a, g, n)'
<1>1. /\ user[a].state # "absent" /\ user'[a].state # "absent"
      /\ user'[a].state \in {"inactive", "active"} =>
            /\ Present(a) /\ user[a].generation <= user'[a].generation
            /\ user[a].generation = user'[a].generation => resets'[a] = resets[a]
  BY DEF Remembered, AccountsMove
<1>2. user[a].generation \in Nat /\ user'[a].generation \in Nat
  BY DEF AccessShape, UserRow
<1>3. ASSUME user'[a].state \in {"inactive", "active"}, user'[a].generation \in Nat
      PROVE  g <= user'[a].generation /\ (g = user'[a].generation => n = resets'[a])
  <2>1. g <= user[a].generation /\ (g = user[a].generation => n = resets[a])
    BY <1>1, <1>3 DEF Remembered
  <2>2. QED  BY <1>1, <1>2, <1>3, <2>1
<1>4. QED  BY <1>1, <1>2, <1>3 DEF Remembered, Present

\* What a request or an attempt remembers stays true when it is left alone.
LEMMA StillTrue ==
    ASSUME AccessInv, [Next]_accessVars, NEW q
    PROVE  /\ q \in LoginRequest /\ LoginRemembers(q) => LoginRemembers(q)'
           /\ q \in ConfirmRequest /\ ConfirmationRemembers(q) => ConfirmationRemembers(q)'
           /\ q \in Attempt /\ AttemptRemembers(q) => AttemptRemembers(q)'
<1>1. /\ AccessShape /\ AccessShape' /\ AccountsMove /\ RowsFollow /\ SessionsMove
      /\ issued \in Nat /\ issued' \in Nat /\ issued <= issued'
  BY ShapeStep, AccountsStep, RowsStep, SessionsStep, IssuedStep DEF AccessInv
<1>2. ASSUME NEW a \in Accounts
      PROVE  /\ user[a].hash.salt \in Nat /\ user'[a].hash.salt \in Nat
             /\ user[a].generation \in Nat /\ user'[a].generation \in Nat
  BY <1>1 DEF AccessShape, UserRow, Hash
<1>3. ASSUME q \in LoginRequest, LoginRemembers(q) PROVE LoginRemembers(q)'
  <2>1. SUFFICES ASSUME q.evidence = "password"
                 PROVE  /\ q.hash \in Hash
                        /\ Remembered(q.account, q.generation, q.since)'
                        /\ user'[q.account].state \in {"inactive", "active"} =>
                             /\ q.hash.salt <= user'[q.account].hash.salt
                             /\ q.hash.salt = user'[q.account].hash.salt => q.since = resets'[q.account]
    BY DEF LoginRemembers, Present
  <2>2. q.account \in Accounts /\ q.generation \in Nat
    BY <1>3 DEF LoginRequest
  <2>3. /\ q.hash \in Hash /\ q.hash.salt \in Nat /\ Remembered(q.account, q.generation, q.since)
        /\ Present(q.account) =>
              /\ q.hash.salt <= user[q.account].hash.salt
              /\ q.hash.salt = user[q.account].hash.salt => q.since = resets[q.account]
    BY <1>3, <2>1 DEF LoginRemembers, Hash
  <2>4. Remembered(q.account, q.generation, q.since)'
    BY <1>1, <2>2, <2>3, StillRemembered
  <2>5. user'[q.account].state \in {"inactive", "active"} =>
          /\ Present(q.account) /\ user[q.account].hash.salt <= user'[q.account].hash.salt
          /\ user[q.account].hash.salt = user'[q.account].hash.salt => resets'[q.account] = resets[q.account]
    BY <1>1, <2>2, <2>3 DEF AccountsMove, Remembered
  <2>6. QED  BY <1>2, <2>2, <2>3, <2>4, <2>5
<1>4. ASSUME q \in ConfirmRequest, ConfirmationRemembers(q) PROVE ConfirmationRemembers(q)'
  <2>1. q.session.id \in Nat /\ q.session.id <= issued /\ q.hash.by = q.session.by
    BY <1>4 DEF ConfirmRequest, Session, Tokens, ConfirmationRemembers
  <2>2. ASSUME NEW s \in sessions', s.id = q.session.id
        PROVE  /\ s.account = q.session.account /\ s.by = q.session.by
               /\ q.kind = "link" => user'[s.account].hash.by = s.by
    <3>1. PICK t \in sessions : SameSession(s, t)
      BY <1>1, <2>1, <2>2 DEF SessionsMove
    <3>2. t.account \in Accounts /\ Present(t.account)
      BY DEF AccessInv, AccessShape, Session, CredentialsFollowPassword, Valid
    <3>3. user'[t.account].hash.by = user[t.account].hash.by
      BY <1>1, <3>1, <3>2 DEF RowsFollow, Present, SameSession
    <3>4. QED  BY <1>4, <2>2, <3>1, <3>3 DEF ConfirmationRemembers, SameSession
  <2>3. q.session.id <= issued'
    BY <1>1, <2>1
  <2>4. QED  BY <2>1, <2>2, <2>3 DEF ConfirmationRemembers
<1>5. ASSUME q \in Attempt, AttemptRemembers(q) PROVE AttemptRemembers(q)'
  <2>1. SUFFICES ASSUME q.mode = "link"
                 PROVE  /\ q.account \in Accounts
                        /\ Remembered(q.account, q.generation, q.since)'
                        /\ user'[q.account].state \in {"inactive", "active"}
                             /\ q.generation = user'[q.account].generation
                               => user'[q.account].hash.by = q.by
    BY DEF AttemptRemembers, Present
  <2>2. /\ q.account \in Accounts /\ q.generation \in Nat
        /\ Remembered(q.account, q.generation, q.since)
        /\ Present(q.account) /\ q.generation = user[q.account].generation
              => user[q.account].hash.by = q.by
    BY <1>5, <2>1 DEF AttemptRemembers, Attempt
  <2>3. Remembered(q.account, q.generation, q.since)'
    BY <1>1, <2>2, StillRemembered
  <2>4. user'[q.account].state \in {"inactive", "active"} =>
          /\ Present(q.account) /\ user[q.account].generation <= user'[q.account].generation
          /\ user[q.account].generation = user'[q.account].generation =>
                user'[q.account].hash.by = user[q.account].hash.by
          /\ q.generation <= user[q.account].generation
    BY <1>1, <2>2 DEF AccountsMove, Remembered
  <2>5. QED  BY <1>2, <2>2, <2>3, <2>4
<1>6. QED  BY <1>3, <1>4, <1>5

\* A request that starts or goes on writes down what is true.
LEMMA NewRequest ==
    ASSUME AccessInv, [Next]_accessVars, NEW r \in Requests,
           NEW o, o = request[r], NEW q, q = request'[r], q # o
    PROVE  RequestRemembers(q)'
<1> USE DEF AccessInv, credentials, google, history
<1>1. AccessShape' /\ \A a \in Accounts : user[a] \in UserRow
  BY ShapeStep DEF AccessShape
<1>2. request[r] \in {Idle} \cup LoginRequest \cup CompleteRequest \cup ConfirmRequest \cup KeyRequest
                       \cup CallbackRequest
  BY DEF AccessShape
<1>3. ASSUME NEW n, request' = [request EXCEPT ![r] = n] PROVE q = n
  BY <1>3 DEF AccessShape
<1>4. ASSUME NEW s \in Requests \ {r}, NEW n, Go(s, n) PROVE FALSE
  BY <1>4 DEF Go, AccessShape
<1>5. ASSUME Done(r) PROVE RequestRemembers(q)'
  <2>1. q.kind = "idle"
    BY <1>3, <1>5 DEF Done, Go, Idle
  <2>2. QED  BY <2>1 DEF RequestRemembers
<1>6. ASSUME NEW a \in Accounts, NEW p, NEW e \in {"registration", "google"},
             Go(r, Admit(a, p, AnyHash, e))
      PROVE  RequestRemembers(q)'
  <2>1. q.kind = "session" /\ q.evidence # "password"
    BY <1>3, <1>6 DEF Go, Admit
  <2>2. QED  BY <2>1 DEF RequestRemembers, LoginRemembers
<1>7. ASSUME NEW p \in Persons, NEW a \in Accounts, Register(r, p, a) PROVE RequestRemembers(q)'
  <2>1. Go(r, Admit(a, p, AnyHash, "registration"))
    BY <1>7 DEF Register
  <2>2. QED  BY <1>6, <2>1
<1>8. ASSUME NEW p \in Persons, NEW c \in links, StartComplete(r, p, c) PROVE RequestRemembers(q)'
  <2>1. /\ q.kind = "complete" /\ q.link = c /\ q.by = p /\ q.hash = user[c.account].hash
        /\ c.proof => p = Mailbox[c.account]
        /\ c.purpose = "verify" => user[c.account].hash.by = p
    BY <1>3, <1>8 DEF StartComplete, Go, KnowsPassword
  <2>2. c.purpose = "verify" => c.proof
    BY DEF LinksUnused
  <2>3. CompletionRemembers(q)'
    BY <2>1, <2>2 DEF CompletionRemembers
  <2>4. QED  BY <2>1, <2>3 DEF RequestRemembers
<1>9. ASSUME NEW a \in Accounts, StartLogin(r, a) PROVE RequestRemembers(q)'
  <2> DEFINE m == Admit(a, user[a].hash.by, user[a].hash, "password")
  <2>1. /\ m.account = a /\ m.hash = user[a].hash /\ m.generation = user[a].generation
        /\ m.since = resets[a] /\ m.evidence = "password"
        /\ DOMAIN m = {"kind", "account", "by", "hash", "generation", "since", "evidence"}
    BY DEF Admit
  <2>2. q = [m EXCEPT !.kind = IF user[a].hash.old THEN "rehash" ELSE "session"]
    BY <1>3, <1>9 DEF StartLogin, Go
  <2>3. /\ q.account = a /\ q.hash = user[a].hash /\ q.generation = user[a].generation
        /\ q.since = resets[a] /\ q.evidence = "password" /\ q.kind \in {"rehash", "session"}
    BY <2>2 DEF Admit
  <2>4. Present(a) /\ UNCHANGED <<user, resets>> /\ user[a].hash \in Hash
        /\ user[a].hash.salt \in Nat /\ user[a].generation \in Nat
    BY <1>1, <1>9 DEF StartLogin, UserRow, Hash
  <2>5. LoginRemembers(q)'
    BY <2>3, <2>4 DEF LoginRemembers, Remembered, Present
  <2>6. QED  BY <2>3, <2>5 DEF RequestRemembers
<1>10. ASSUME Rehash(r) PROVE RequestRemembers(q)'
  <2> DEFINE a == o.account
  <2>1. o \in LoginRequest /\ a \in Accounts /\ o.kind = "rehash" /\ Present(a) /\ UNCHANGED resets
    BY <1>10, RequestKinds, RequestFields DEF Rehash
  <2>2. o.evidence = "password" /\ LoginRemembers(o) /\ o.generation \in Nat
    BY <2>1 DEF RequestsRemember, RequestRemembers, LoginRequest
  <2>3. /\ user[a].hash = o.hash \/ user[a].generation = o.generation
        /\ q = [o EXCEPT !.kind = "session", !.hash = user'[a].hash]
    BY <1>3, <1>10 DEF Rehash, Go
  <2>4. o.since = resets[a]
    BY <2>1, <2>2, <2>3 DEF LoginRemembers, Remembered
  <2>5. /\ q.kind = "session" /\ q.account = a /\ q.evidence = "password" /\ q.since = resets[a]
        /\ q.generation = o.generation /\ q.hash = user'[a].hash
    BY <2>1, <2>2, <2>3, <2>4 DEF LoginRequest
  <2>6. Remembered(a, o.generation, o.since)'
    BY <1>1, <2>1, <2>2, AccountsStep, StillRemembered DEF LoginRemembers
  <2>7. user'[a].hash \in Hash /\ user'[a].hash.salt \in Nat
    BY <1>1, <2>1 DEF AccessShape, UserRow, Hash
  <2> HIDE DEF a
  <2>8. LoginRemembers(q)'
    BY <2>1, <2>4, <2>5, <2>6, <2>7 DEF LoginRemembers, a
  <2>9. QED  BY <2>5, <2>8 DEF RequestRemembers
<1>11. ASSUME NEW s \in sessions, NEW then \in {"idle", "link"}, StartConfirm(r, s, then)
       PROVE  RequestRemembers(q)'
  <2>1. /\ q.kind = "confirm" /\ q.session = s /\ q.hash = user[s.account].hash
        /\ user[s.account].hash.by = s.by /\ UNCHANGED <<sessions, issued>>
    BY <1>3, <1>11 DEF StartConfirm, Go
  <2>2. s.id <= issued /\ \A t \in sessions : t.id = s.id => t = s
    BY DEF SessionsNamed
  <2>3. ConfirmationRemembers(q)'
    BY <2>1, <2>2 DEF ConfirmationRemembers
  <2>4. QED  BY <2>1, <2>3 DEF RequestRemembers
<1>12. ASSUME Confirm(r) PROVE RequestRemembers(q)'
  <2>1. o \in ConfirmRequest /\ o.kind = "confirm" /\ ConfirmationRemembers(o)
    BY <1>12, RequestKinds DEF Confirm, RequestsRemember, RequestRemembers
  <2>2. SUFFICES ASSUME Go(r, [o EXCEPT !.kind = "link"]) PROVE RequestRemembers(q)'
    BY <1>5, <1>12 DEF Confirm
  <2>3. /\ q = [o EXCEPT !.kind = "link"] /\ q.kind = "link" /\ q.session = o.session /\ q.hash = o.hash
    BY <1>3, <2>1, <2>2 DEF Go, ConfirmRequest
  <2>4. ConfirmationRemembers(o)'
    BY <2>1, StillTrue
  <2>5. user'[o.session.account].hash.by = o.session.by
    BY <1>12, <2>1 DEF Confirm, ConfirmationRemembers
  <2>6. ConfirmationRemembers(q)'
    BY <2>3, <2>4, <2>5 DEF ConfirmationRemembers
  <2>7. QED  BY <2>3, <2>6 DEF RequestRemembers
<1>13. ASSUME NEW t \in attempts, Consume(r, t) PROVE RequestRemembers(q)'
  <2>1. q.kind = "callback" /\ q.attempt = t /\ t \in Attempt
    BY <1>3, <1>13 DEF Consume, Go, AccessShape
  <2>2. AttemptRemembers(t)'
    BY <2>1, StillTrue DEF AttemptsRemember
  <2>3. QED  BY <2>1, <2>2 DEF RequestRemembers
<1>14. ASSUME FinishSignin(r) PROVE RequestRemembers(q)'
  <2>1. o.kind = "callback" /\ o.attempt.by \in Persons
    BY <1>14, RequestFields DEF FinishSignin, Attempt
  <2>2. /\ identities[o.attempt.by] \in Accounts \cup {NoAccount}
        /\ \E a \in Accounts : Go(r, Admit(a, o.attempt.by, AnyHash, "google"))
    BY <1>14, <2>1 DEF FinishSignin, AccessShape
  <2>3. QED  BY <1>6, <2>2
<1>15. ASSUME NEW s \in sessions, StartKey(r, s) PROVE RequestRemembers(q)'
  <2>1. /\ q.kind = "key" /\ q.account = s.account /\ q.since = resets[s.account]
        /\ q.generation = user[s.account].generation /\ UNCHANGED <<user, resets>>
        /\ Present(s.account) /\ user[s.account].generation \in Nat
    BY <1>1, <1>3, <1>15 DEF StartKey, Go, Usable, Valid, AccessShape, Session, UserRow
  <2>2. Remembered(q.account, q.generation, q.since)'
    BY <2>1 DEF Remembered, Present
  <2>3. QED  BY <2>1, <2>2 DEF RequestRemembers
<1>16. ASSUME NEW s \in Requests, s # r,
              \/ \E p \in Persons : \/ \E a \in Accounts : Register(s, p, a)
                                    \/ \E c \in links : StartComplete(s, p, c)
              \/ CompleteVerify(s) \/ CompleteReset(s) \/ (\E a \in Accounts : StartLogin(s, a))
              \/ Rehash(s) \/ Confirm(s) \/ (\E t \in attempts : Consume(s, t))
              \/ CreateSession(s) \/ BeginLink(s) \/ CreateKey(s)
              \/ FinishSignin(s) \/ FinishReauthentication(s) \/ FinishLink(s) \/ Abandon(s)
              \/ \E t \in sessions : \/ StartKey(s, t)
                                     \/ \E then \in {"idle", "link"} : StartConfirm(s, t, then)
       PROVE  FALSE
  <2>1. request' = request \/ \E n : Go(s, n)
    BY <1>16 DEF Register, StartComplete, CompleteVerify, CompleteReset, StartLogin, Rehash, Confirm,
                 Consume, CreateSession, BeginLink, CreateKey, FinishSignin,
                 FinishReauthentication, FinishLink, Abandon, StartKey, StartConfirm, Done
  <2>2. request' # request
    OBVIOUS
  <2>3. QED  BY <1>4, <1>16, <2>1, <2>2
<1>17. CASE \/ CompleteVerify(r) \/ CompleteReset(r) \/ CreateSession(r) \/ BeginLink(r) \/ CreateKey(r)
            \/ FinishReauthentication(r) \/ FinishLink(r) \/ Abandon(r)
  BY <1>5, <1>17 DEF CompleteVerify, CompleteReset, CreateSession, BeginLink, CreateKey,
                     FinishReauthentication, FinishLink, Abandon
<1>18. CASE \/ \E a \in Accounts : Invite(a) \/ OperatorLink(a) \/ \E purpose \in Purpose : RequestEmail(a, purpose)
            \/ \E p \in Persons : BeginSignin(p)
            \/ \E s \in sessions : \/ ConfirmationLapses(s) \/ Logout(s) \/ CompleteLogin(s)
                                   \/ BeginReauthentication(s) \/ RevokeKeys(s) \/ DeleteAccount(s)
            \/ Gone \/ UNCHANGED accessVars
  <2>1. UNCHANGED request
    BY <1>18 DEF Invite, OperatorLink, RequestEmail, BeginSignin, ConfirmationLapses, Logout,
                 CompleteLogin, BeginReauthentication, RevokeKeys, DeleteAccount, Gone, accessVars
  <2>2. QED  BY <2>1
<1>19. QED
  BY <1>7, <1>8, <1>9, <1>10, <1>11, <1>12, <1>13, <1>14, <1>15, <1>16, <1>17, <1>18 DEF Next

LEMMA RequestsStep == AccessInv /\ [Next]_accessVars => RequestsRemember'
<1> SUFFICES ASSUME AccessInv, [Next]_accessVars, NEW r \in Requests, NEW q, q = request'[r]
             PROVE  RequestRemembers(q)'
  BY DEF RequestsRemember, RequestRemembers, LoginRemembers, CompletionRemembers,
         ConfirmationRemembers, AttemptRemembers, Remembered, Present
<1>1. PICK o : o = request[r]
  OBVIOUS
<1>2. CASE q = o
  <2>1. /\ RequestRemembers(q)
        /\ q.kind \in {"rehash", "session"} => q \in LoginRequest
        /\ q.kind \in {"confirm", "link"} => q \in ConfirmRequest
        /\ q.kind = "key" => q.account \in Accounts /\ q.generation \in Nat
        /\ q.kind = "callback" => q.attempt \in Attempt
    BY <1>1, <1>2, RequestKinds, RequestFields DEF AccessInv, RequestsRemember
  <2>2. /\ q.kind \in {"rehash", "session"} => LoginRemembers(q)'
        /\ q.kind \in {"confirm", "link"} => ConfirmationRemembers(q)'
        /\ q.kind = "callback" => AttemptRemembers(q.attempt)'
    BY <2>1, StillTrue DEF RequestRemembers
  <2>3. q.kind = "key" => Remembered(q.account, q.generation, q.since)'
    BY <2>1, StillRemembered, AccountsStep, ShapeStep DEF RequestRemembers, AccessInv
  <2>4. q.kind = "complete" => CompletionRemembers(q)'
    BY <2>1 DEF RequestRemembers, CompletionRemembers
  <2>5. QED  BY <2>1, <2>2, <2>3, <2>4 DEF RequestRemembers
<1>3. CASE q # o
  BY <1>1, <1>3, NewRequest
<1>4. QED  BY <1>2, <1>3

LEMMA AttemptsStep == AccessInv /\ [Next]_accessVars => AttemptsRemember'
<1> SUFFICES ASSUME AccessInv, [Next]_accessVars, NEW t \in attempts' PROVE AttemptRemembers(t)'
  BY DEF AttemptsRemember
<1> USE DEF AccessInv, google, credentials, history
<1>1. CASE t \in attempts
  BY <1>1, StillTrue DEF AccessShape, AttemptsRemember
<1>2. ASSUME NEW r \in Requests, BeginLink(r) PROVE AttemptRemembers(t)'
  <2> DEFINE s == request[r].session
  <2>1. request[r].kind = "link" /\ Exists(s) /\ UNCHANGED <<user, resets>>
    BY <1>2 DEF BeginLink
  <2>2. s \in Session /\ ConfirmationRemembers(request[r])
    BY <2>1, RequestFields DEF RequestsRemember, RequestRemembers
  <2>3. PICK c \in sessions : c.id = s.id
    BY <2>1 DEF Exists
  <2>4. c.account = s.account /\ c.by = s.by /\ user[s.account].hash.by = s.by
    BY <2>1, <2>2, <2>3 DEF ConfirmationRemembers
  <2>5. s.account \in Accounts /\ s.account # NoAccount /\ Present(s.account)
    BY <2>2, <2>3, <2>4, AccessAssumption DEF Session, CredentialsFollowPassword, Valid
  <2> HIDE DEF s
  <2>6. t \in attempts \/ (/\ t.account = s.account /\ t.by = s.by
                          /\ t.generation = user[s.account].generation /\ t.since = resets[s.account])
    <3>1. NewAttempt("link", s.by, s.account, s.id)
      BY <1>2 DEF BeginLink, s
    <3>2. QED  BY <2>5, <3>1 DEF NewAttempt
  <2>7. user[s.account].generation \in Nat
    BY <2>5, Numbers
  <2>8. QED  BY <1>1, <2>1, <2>4, <2>5, <2>6, <2>7 DEF AttemptRemembers, Remembered, Present
<1>3. ASSUME (\E p \in Persons : BeginSignin(p)) \/ (\E s \in sessions : BeginReauthentication(s))
      PROVE  AttemptRemembers(t)'
  <2>1. t \in attempts \/ t.mode # "link"
    BY <1>3 DEF BeginSignin, BeginReauthentication, NewAttempt
  <2>2. QED  BY <1>1, <2>1 DEF AttemptRemembers
<1>4. CASE attempts' \subseteq attempts
  BY <1>1, <1>4
<1>5. ASSUME NEW r \in Requests,
             \/ \E p \in Persons : \/ \E a \in Accounts : Register(r, p, a)
                                   \/ \E c \in links : StartComplete(r, p, c)
             \/ CompleteVerify(r) \/ CompleteReset(r) \/ (\E a \in Accounts : StartLogin(r, a))
             \/ Rehash(r) \/ Confirm(r) \/ (\E c \in attempts : Consume(r, c))
             \/ CreateSession(r) \/ CreateKey(r)
             \/ FinishSignin(r) \/ FinishReauthentication(r) \/ FinishLink(r) \/ Abandon(r)
             \/ \E c \in sessions : \/ StartKey(r, c)
                                    \/ \E then \in {"idle", "link"} : StartConfirm(r, c, then)
      PROVE  attempts' \subseteq attempts
  BY <1>5 DEF Register, StartComplete, CompleteVerify, CompleteReset, StartLogin, Rehash, Confirm,
              Consume, CreateSession, CreateKey, FinishSignin, FinishReauthentication, FinishLink,
              Abandon, StartKey, StartConfirm
<1>6. ASSUME \/ \E a \in Accounts : Invite(a) \/ OperatorLink(a) \/ \E purpose \in Purpose : RequestEmail(a, purpose)
             \/ \E s \in sessions : \/ ConfirmationLapses(s) \/ Logout(s) \/ CompleteLogin(s)
                                    \/ RevokeKeys(s) \/ DeleteAccount(s)
             \/ Gone \/ UNCHANGED accessVars
      PROVE  attempts' \subseteq attempts
  BY <1>6 DEF Invite, OperatorLink, RequestEmail, ConfirmationLapses, Logout, CompleteLogin,
              RevokeKeys, DeleteAccount, Gone, accessVars
<1>7. QED  BY <1>2, <1>3, <1>4, <1>5, <1>6 DEF Next

-----------------------------------------------------------------------------
(* Links                                                                   *)

LEMMA LinksStep ==
    AccessInv /\ [Next]_accessVars => LinksUnused' /\ NoStrayRecovery' /\ LinksWorkOnce'
<1> SUFFICES ASSUME AccessInv, [Next]_accessVars
             PROVE  LinksUnused' /\ NoStrayRecovery' /\ LinksWorkOnce'
  OBVIOUS
<1> USE DEF AccessInv, google, credentials, history
<1>1. /\ RowsFollow /\ issued \in Nat /\ issued' \in Nat /\ issued <= issued'
      /\ \A c \in links : c.account \in Accounts /\ c.id \in Nat /\ c.id \in Tokens
      /\ \A t \in Tokens : t \in Nat /\ uses[t] \in Nat
  <2>1. RowsFollow
    BY RowsStep
  <2>2. issued \in Nat /\ issued' \in Nat /\ issued <= issued'
    BY IssuedStep
  <2>3. Tokens \subseteq Nat
    BY AccessAssumption DEF Tokens
  <2>4. \A c \in links : c.account \in Accounts /\ c.id \in Nat /\ c.id \in Tokens
    BY <2>3 DEF AccessShape, Link
  <2>5. \A t \in Tokens : uses[t] \in Nat
    BY DEF AccessShape
  <2>6. QED  BY <2>1, <2>2, <2>3, <2>4, <2>5
<1> DEFINE Links == LinksUnused' /\ NoStrayRecovery' /\ LinksWorkOnce'
\* What is known of a link that stays.
<1>2. ASSUME NEW c \in links, c \in links'
      PROVE  /\ user'[c.account].state \in {"inactive", "active"}
             /\ c.id <= issued' /\ c.id <= issued /\ uses[c.id] = 0
             /\ c.purpose = "verify" => c.proof
             /\ c.purpose = "reset" /\ c.proof /\ user'[c.account].state = "active"
                  => user'[c.account].verified
  <2>1. /\ user[c.account].state \in {"inactive", "active"} /\ c.id <= issued /\ uses[c.id] = 0
        /\ c.purpose = "verify" => c.proof
    BY DEF LinksUnused, Present
  <2>2. c.purpose = "reset" /\ c.proof /\ user[c.account].state = "active" => user[c.account].verified
    BY DEF NoStrayRecovery, Recoverable, Active
  <2>3. QED  BY <1>1, <1>2, <2>1, <2>2 DEF RowsFollow
<1>3. ASSUME links' \subseteq links, UNCHANGED uses PROVE Links
  <2>1. LinksUnused'
    BY <1>1, <1>2, <1>3 DEF LinksUnused, Present
  <2>2. NoStrayRecovery' /\ LinksWorkOnce'
    BY <1>2, <1>3 DEF NoStrayRecovery, LinksWorkOnce, Recoverable, Active
  <2>3. QED  BY <2>1, <2>2
<1>4. ASSUME NEW n, links' \subseteq links \cup {n}, UNCHANGED uses, Issue, n.id = issued',
             user'[n.account].state \in {"inactive", "active"},
             n.purpose = "verify" => n.proof,
             n.purpose = "reset" /\ n.proof /\ user'[n.account].state = "active"
                => user'[n.account].verified
      PROVE  Links
  <2>1. issued' = issued + 1 /\ issued' \in Tokens
    BY <1>4, Tokenised
  <2>2. uses[n.id] = 0 /\ \A c \in links : c.id # n.id
    BY <1>1, <1>4, <2>1 DEF LinksUnused
  <2>3. LinksUnused'
    BY <1>1, <1>2, <1>4, <2>1, <2>2 DEF LinksUnused, Present
  <2>4. NoStrayRecovery' /\ LinksWorkOnce'
    BY <1>2, <1>4 DEF NoStrayRecovery, LinksWorkOnce, Recoverable, Active
  <2>5. QED  BY <2>3, <2>4
<1>5. ASSUME NEW n \in links, links' \subseteq links \ {n}, UNCHANGED issued,
             uses' = [uses EXCEPT ![n.id] = @ + 1]
      PROVE  Links
  <2>1. /\ n.id \in Tokens /\ uses[n.id] = 0 /\ n.id <= issued
        /\ \A c \in links' : c.id # n.id
    BY <1>1, <1>5 DEF LinksUnused
  <2>2. \A t \in Tokens : uses'[t] = IF t = n.id THEN 1 ELSE uses[t]
    BY <1>5, <2>1 DEF AccessShape
  <2>3. LinksUnused'
    BY <1>1, <1>2, <1>5, <2>1, <2>2 DEF LinksUnused, Present
  <2>4. NoStrayRecovery' /\ LinksWorkOnce'
    BY <1>2, <1>5, <2>2 DEF NoStrayRecovery, LinksWorkOnce, Recoverable, Active
  <2>5. QED  BY <2>3, <2>4
<1>6. ASSUME NEW a \in Accounts, Invite(a) PROVE Links
  <2> DEFINE n == [id |-> issued', account |-> a, purpose |-> "reset", proof |-> FALSE]
  <2>1. user'[a].state = "inactive"
    BY <1>6 DEF Invite, NoUser, AccessShape
  <2>2. n.id = issued' /\ n.account = a /\ n.purpose = "reset" /\ ~n.proof
    OBVIOUS
  <2>3. links' \subseteq links \cup {n} /\ Issue /\ UNCHANGED uses
    BY <1>6 DEF Invite
  <2> HIDE DEF n
  <2>4. QED  BY <1>4, <2>1, <2>2, <2>3
<1>7. ASSUME NEW a \in Accounts, NEW purpose \in Purpose, RequestEmail(a, purpose) PROVE Links
  <2> DEFINE n == [id |-> issued', account |-> a, purpose |-> purpose, proof |-> TRUE]
  <2>1. /\ user'[a].state \in {"inactive", "active"}
        /\ purpose = "reset" /\ user'[a].state = "active" => user'[a].verified
    BY <1>7 DEF RequestEmail, Present, Recoverable, Active
  <2>2. n.id = issued' /\ n.account = a /\ n.purpose = purpose /\ n.proof
    OBVIOUS
  <2>3. links' \subseteq links \cup {n} /\ Issue /\ UNCHANGED uses
    BY <1>7 DEF RequestEmail
  <2> HIDE DEF n
  <2>4. QED  BY <1>4, <2>1, <2>2, <2>3
<1>8. ASSUME NEW a \in Accounts, OperatorLink(a) PROVE Links
  <2> DEFINE n == [id |-> issued', account |-> a, purpose |-> "reset", proof |-> FALSE]
  <2>1. user'[a].state \in {"inactive", "active"}
    BY <1>8 DEF OperatorLink, Present
  <2>2. n.id = issued' /\ n.account = a /\ n.purpose = "reset" /\ ~n.proof
    OBVIOUS
  <2>3. links' \subseteq links \cup {n} /\ Issue /\ UNCHANGED uses
    BY <1>8 DEF OperatorLink
  <2> HIDE DEF n
  <2>4. QED  BY <1>4, <2>1, <2>2, <2>3
<1>9. ASSUME NEW r \in Requests, CompleteVerify(r) \/ CompleteReset(r) PROVE Links
  <2>1. request[r].link \in links
    BY <1>9 DEF CompleteVerify, CompleteReset, LinkStands
  <2>2. links' \subseteq links \ {request[r].link}
    BY <1>9, <2>1 DEF CompleteVerify, CompleteReset, SettledByReset, Of
  <2>3. UNCHANGED issued /\ uses' = [uses EXCEPT ![request[r].link.id] = @ + 1]
    BY <1>9 DEF CompleteVerify, CompleteReset
  <2>4. QED  BY <1>5, <2>1, <2>2, <2>3
<1>10. ASSUME NEW r \in Requests,
              \/ \E p \in Persons : \/ \E a \in Accounts : Register(r, p, a)
                                    \/ \E c \in links : StartComplete(r, p, c)
              \/ (\E a \in Accounts : StartLogin(r, a))
              \/ Rehash(r) \/ Confirm(r) \/ (\E c \in attempts : Consume(r, c))
              \/ CreateSession(r) \/ CreateKey(r) \/ BeginLink(r)
              \/ FinishSignin(r) \/ FinishReauthentication(r) \/ FinishLink(r) \/ Abandon(r)
              \/ \E c \in sessions : \/ StartKey(r, c)
                                     \/ \E then \in {"idle", "link"} : StartConfirm(r, c, then)
       PROVE  links' \subseteq links /\ UNCHANGED uses
  BY <1>10 DEF Register, StartComplete, StartLogin, Rehash, Confirm, Consume, CreateSession,
               CreateKey, BeginLink, FinishSignin, FinishReauthentication, FinishLink, Abandon,
               StartKey, StartConfirm
<1>11. ASSUME \/ \E s \in sessions : \/ ConfirmationLapses(s) \/ Logout(s) \/ CompleteLogin(s)
                                     \/ BeginReauthentication(s) \/ RevokeKeys(s) \/ DeleteAccount(s)
              \/ (\E p \in Persons : BeginSignin(p)) \/ Gone \/ UNCHANGED accessVars
       PROVE  links' \subseteq links /\ UNCHANGED uses
  BY <1>11 DEF ConfirmationLapses, Logout, CompleteLogin, BeginReauthentication, RevokeKeys,
               DeleteAccount, BeginSignin, Gone, accessVars
<1>12. QED  BY <1>3, <1>6, <1>7, <1>8, <1>9, <1>10, <1>11 DEF Next

-----------------------------------------------------------------------------
(* The invariant and what follows from it                                  *)

LEMMA AccessStart == Init => AccessInv
<1> SUFFICES ASSUME Init PROVE AccessInv
  OBVIOUS
<1> USE AccessAssumption DEF Init
<1>1. AccessShape
  BY DEF AccessShape, NoUser, UserRow, Hash
<1>2. RequestsRemember
  BY DEF RequestsRemember, RequestRemembers, Idle
<1>3. LinksUnused /\ SessionsNamed /\ AttemptsRemember
  BY DEF LinksUnused, SessionsNamed, AttemptsRemember
<1>4. CredentialsFollowPassword /\ NoStrayRecovery /\ LinksWorkOnce
  BY DEF CredentialsFollowPassword, NoStrayRecovery, LinksWorkOnce
<1>5. QED  BY <1>1, <1>2, <1>3, <1>4 DEF AccessInv

\* Every reachable state satisfies the inductive invariant: what a request
\* read in an earlier transaction is still true as far as it relies on it.
THEOREM AccessInvariant == Spec => []AccessInv
<1>1. AccessInv /\ [Next]_accessVars => AccessInv'
  BY ShapeStep, SessionsStep, CredentialsStep, RequestsStep, AttemptsStep, LinksStep DEF AccessInv
<1>2. QED  BY AccessStart, <1>1, PTL DEF Spec

\* No session signed in with a replaced password and no key made under one is
\* usable, however logins, rehashes and key requests overlap with the reset.
THEOREM PasswordGoverns == Spec => []CredentialsFollowPassword
<1>1. AccessInv => CredentialsFollowPassword
  BY DEF AccessInv
<1>2. QED  BY <1>1, AccessInvariant, PTL

\* A mailed recovery link exists only for accounts it may recover.
THEOREM RecoveryNeedsProof == Spec => []NoStrayRecovery
<1>1. AccessInv => NoStrayRecovery
  BY DEF AccessInv
<1>2. QED  BY <1>1, AccessInvariant, PTL

\* An account link has an effect at most once.
THEOREM LinksAreSingleUse == Spec => []LinksWorkOnce
<1>1. AccessInv => LinksWorkOnce
  BY DEF AccessInv
<1>2. QED  BY <1>1, AccessInvariant, PTL

LEMMA OnlyThese ==
    ASSUME AccessInv, [Next]_accessVars, NEW a \in Accounts, Present(a)
    PROVE  \/ user'[a].verified => user[a].verified
           \/ \E r \in Requests : CompleteVerify(r) \/ CompleteReset(r) \/ FinishLink(r)
<1> USE DEF AccessInv, Present, credentials, google, history
<1>1. ASSUME NEW b \in Accounts, Fresh(b), NEW u, user' = [user EXCEPT ![b] = u]
      PROVE  user'[a].verified => user[a].verified
  BY <1>1 DEF Fresh, AccessShape
<1>2. ASSUME NEW r \in Requests, NEW p \in Persons, NEW b \in Accounts, Register(r, p, b)
      PROVE  user'[a].verified => user[a].verified
  BY <1>1, <1>2 DEF Register
<1>3. ASSUME NEW b \in Accounts, Invite(b) PROVE user'[a].verified => user[a].verified
  BY <1>1, <1>3 DEF Invite
<1>4. ASSUME NEW r \in Requests, FinishSignin(r) PROVE user'[a].verified => user[a].verified
  BY <1>1, <1>4 DEF FinishSignin
<1>5. ASSUME NEW r \in Requests, Rehash(r) PROVE user'[a].verified => user[a].verified
  <2>1. user[a] \in UserRow /\ user \in [Accounts -> UserRow]
    BY Numbers DEF AccessShape
  <2>2. user' = user \/ \E h : user' = [user EXCEPT ![request[r].account].hash = h]
    BY <1>5 DEF Rehash
  <2> HIDE DEF AccessInv
  <2>3. ASSUME NEW h, user' = [user EXCEPT ![request[r].account].hash = h]
        PROVE  user'[a].verified = user[a].verified
    <3>1. user'[a] = IF a = request[r].account THEN [user[a] EXCEPT !.hash = h] ELSE user[a]
      BY <2>1, <2>3
    <3>2. QED  BY <2>1, <3>1 DEF UserRow
  <2>4. QED  BY <2>2, <2>3
<1>6. ASSUME NEW s \in sessions, Logout(s) PROVE user'[a].verified => user[a].verified
  <2>1. user[a] \in UserRow
    BY Numbers
  <2>2. QED  BY <1>6, <2>1 DEF Logout, AccessShape, UserRow
<1>7. ASSUME NEW s \in sessions, DeleteAccount(s) PROVE user'[a].verified => user[a].verified
  BY <1>7 DEF DeleteAccount, AccessShape, NoUser
<1>8. ASSUME NEW r \in Requests,
             \/ \E p \in Persons, c \in links : StartComplete(r, p, c)
             \/ (\E b \in Accounts : StartLogin(r, b))
             \/ Confirm(r) \/ (\E c \in attempts : Consume(r, c))
             \/ CreateSession(r) \/ CreateKey(r) \/ BeginLink(r)
             \/ FinishReauthentication(r) \/ Abandon(r)
             \/ \E c \in sessions : \/ StartKey(r, c)
                                    \/ \E then \in {"idle", "link"} : StartConfirm(r, c, then)
      PROVE  UNCHANGED user
  BY <1>8 DEF StartComplete, StartLogin, Confirm, Consume, CreateSession, CreateKey, BeginLink,
              FinishReauthentication, Abandon, StartKey, StartConfirm
<1>9. ASSUME \/ \E b \in Accounts : OperatorLink(b) \/ \E purpose \in Purpose : RequestEmail(b, purpose)
             \/ \E s \in sessions : \/ ConfirmationLapses(s) \/ CompleteLogin(s)
                                    \/ BeginReauthentication(s) \/ RevokeKeys(s)
             \/ (\E p \in Persons : BeginSignin(p)) \/ Gone \/ UNCHANGED accessVars
      PROVE  UNCHANGED user
  BY <1>9 DEF OperatorLink, RequestEmail, ConfirmationLapses, CompleteLogin,
              BeginReauthentication, RevokeKeys, BeginSignin, Gone, accessVars
<1>10. QED  BY <1>2, <1>3, <1>4, <1>5, <1>6, <1>7, <1>8, <1>9 DEF Next

\* The person who comes back from Google to connect an account knows its password.
LEMMA LinkedByItsOwner ==
    ASSUME AccessInv, NEW r \in Requests, FinishLink(r)
    PROVE  LET t == request[r].attempt IN
           /\ request[r].kind = "callback" /\ t.mode = "link" /\ t.by \in Persons
           /\ t.account \in Accounts
           /\ \E s \in sessions : s.id = t.session
           /\ t.since = resets[t.account] /\ user[t.account].hash.by = t.by
           /\ identities' = [identities EXCEPT ![t.by] = t.account]
           /\ \/ user' = user
              \/ /\ user' = [user EXCEPT ![t.account].verified = TRUE]
                 /\ Mailbox[t.account] = t.by
<1> DEFINE t == request[r].attempt
<1>1. request[r].kind = "callback" /\ t.mode = "link" /\ t \in Attempt /\ AttemptRemembers(t)
  BY RequestFields DEF FinishLink, AccessInv, RequestsRemember, RequestRemembers
<1>2. PICK s \in sessions :
        /\ s.by = t.by /\ Bound(t, s)
        /\ identities' = [identities EXCEPT ![t.by] = s.account]
        /\ \/ user' = user
           \/ Mailbox[s.account] = t.by /\ user' = [user EXCEPT ![s.account].verified = TRUE]
  BY DEF FinishLink
<1>3. /\ s.account = t.account /\ s.id = t.session /\ Present(t.account)
      /\ t.generation = user[t.account].generation
  BY <1>2 DEF Bound, Valid
<1> HIDE DEF t
<1>4. /\ t.account \in Accounts /\ t.by \in Persons
      /\ t.since = resets[t.account] /\ user[t.account].hash.by = t.by
  BY <1>1, <1>3 DEF AttemptRemembers, Remembered, Attempt
<1>5. QED  BY <1>1, <1>2, <1>3, <1>4 DEF t

\* An address becomes verified only by its reader, with the password in hand.
THEOREM VerificationIsProof == Spec => VerifiedByItsReader
<1>1. ASSUME AccessInv, [Next]_accessVars
      PROVE  [\A a \in Accounts : Present(a) /\ ~user[a].verified /\ user'[a].verified
                 => user'[a].hash.by = Mailbox[a]]_accessVars
  <2> SUFFICES ASSUME NEW a \in Accounts, Present(a), ~user[a].verified, user'[a].verified
               PROVE  user'[a].hash.by = Mailbox[a]
    OBVIOUS
  <2> USE <1>1 DEF AccessInv
  <2>1. PICK r \in Requests : CompleteVerify(r) \/ CompleteReset(r) \/ FinishLink(r)
    BY OnlyThese
  <2>2. user[a] \in UserRow
    BY Numbers
  <2>3. CASE CompleteVerify(r)
    <3> DEFINE q == request[r]
               b == q.link.account
               u == [user[b] EXCEPT !.verified = TRUE, !.state = "active"]
    <3>1. /\ CompletionRemembers(q) /\ q.link.purpose = "verify" /\ b \in Accounts
          /\ user[b].hash = q.hash /\ user' = [user EXCEPT ![b] = u]
      BY <2>3, RequestFields DEF CompleteVerify, RequestsRemember, RequestRemembers, Link
    <3>2. u.hash = user[b].hash
      BY <3>1, Numbers DEF UserRow
    <3> HIDE DEF u
    <3>3. a = b
      BY <3>1 DEF AccessShape
    <3>4. QED  BY <3>1, <3>2, <3>3 DEF CompletionRemembers, AccessShape
  <2>4. CASE CompleteReset(r)
    <3> DEFINE q == request[r]
               b == q.link.account
               u == [state |-> "active", enabled |-> TRUE,
                     hash |-> [by |-> q.by, salt |-> user[b].hash.salt + 1, old |-> FALSE],
                     verified |-> user[b].verified \/ q.link.proof,
                     generation |-> user[b].generation + 1]
    <3>1. CompletionRemembers(q) /\ b \in Accounts /\ user' = [user EXCEPT ![b] = u]
      BY <2>4, RequestFields DEF CompleteReset, RequestsRemember, RequestRemembers, Link
    <3>2. u.hash.by = q.by /\ (u.verified <=> user[b].verified \/ q.link.proof)
      OBVIOUS
    <3> HIDE DEF u
    <3>3. a = b /\ user'[a] = u
      BY <3>1 DEF AccessShape
    <3>4. QED  BY <3>1, <3>2, <3>3 DEF CompletionRemembers
  <2>5. CASE FinishLink(r)
    <3> DEFINE t == request[r].attempt
    <3>1. /\ t.account \in Accounts /\ user[t.account].hash.by = t.by
          /\ Mailbox[t.account] = t.by /\ user' = [user EXCEPT ![t.account].verified = TRUE]
      BY <2>5, LinkedByItsOwner
    <3> HIDE DEF t
    <3>2. a = t.account
      BY <3>1 DEF AccessShape
    <3>3. user'[a].hash = user[a].hash
      BY <2>2, <3>1, <3>2 DEF AccessShape, UserRow
    <3>4. QED  BY <3>1, <3>2, <3>3
  <2>6. QED  BY <2>1, <2>3, <2>4, <2>5
<1>2. QED  BY <1>1, AccessInvariant, PTL DEF Spec, VerifiedByItsReader

\* A Google account is connected to the account its owner asked for, while the
\* session they asked in and the password they knew still stand.
THEOREM ConnectionsAreAsked == Spec => ConnectedAsAsked
<1>1. ASSUME AccessInv, [Next]_accessVars
      PROVE  [\A p \in Persons :
                LET a == identities'[p] IN
                a # identities[p] /\ a # NoAccount /\ Present(a) =>
                   \E r \in Requests : /\ request[r].kind = "callback"
                                       /\ request[r].attempt.mode = "link"
                                       /\ request[r].attempt.account = a
                                       /\ request[r].attempt.since = resets[a]
                                       /\ \E s \in sessions : s.id = request[r].attempt.session
                                       /\ user[a].hash.by = p]_accessVars
  <2> SUFFICES ASSUME NEW p \in Persons, NEW a, a = identities'[p],
                      a # identities[p], a # NoAccount, Present(a)
               PROVE  \E r \in Requests : /\ request[r].kind = "callback"
                                          /\ request[r].attempt.mode = "link"
                                          /\ request[r].attempt.account = a
                                          /\ request[r].attempt.since = resets[a]
                                          /\ \E s \in sessions : s.id = request[r].attempt.session
                                          /\ user[a].hash.by = p
    OBVIOUS
  <2> USE <1>1 DEF AccessInv, credentials, google, history
  <2>1. ASSUME NEW r \in Requests, FinishSignin(r) PROVE FALSE
    BY <2>1 DEF FinishSignin, Fresh, Present, AccessShape
  <2>2. ASSUME NEW s \in sessions, DeleteAccount(s) PROVE FALSE
    BY <2>2 DEF DeleteAccount
  <2>3. \E r \in Requests : FinishLink(r)
    <3>1. identities' # identities
      OBVIOUS
    <3>2. ASSUME NEW s \in sessions
          PROVE  ~ \/ ConfirmationLapses(s) \/ Logout(s) \/ CompleteLogin(s)
                   \/ BeginReauthentication(s) \/ RevokeKeys(s) \/ DeleteAccount(s)
      BY <2>2, <3>1 DEF ConfirmationLapses, Logout, CompleteLogin, BeginReauthentication, RevokeKeys
    <3>3. ASSUME NEW r \in Requests
          PROVE  /\ \A q \in Persons, b \in Accounts : ~Register(r, q, b)
                 /\ \A q \in Persons, c \in links : ~StartComplete(r, q, c)
                 /\ \A b \in Accounts : ~StartLogin(r, b)
                 /\ \A s \in sessions : ~StartKey(r, s) /\ \A then \in {"idle", "link"} : ~StartConfirm(r, s, then)
                 /\ \A u \in attempts : ~Consume(r, u)
      BY <3>1 DEF Register, StartComplete, StartLogin, StartKey, StartConfirm, Consume
    <3>4. ASSUME NEW r \in Requests
          PROVE  ~ \/ CompleteVerify(r) \/ CompleteReset(r) \/ Rehash(r) \/ CreateSession(r)
                   \/ Confirm(r) \/ BeginLink(r) \/ FinishReauthentication(r)
                   \/ CreateKey(r) \/ Abandon(r)
      BY <3>1 DEF CompleteVerify, CompleteReset, Rehash, CreateSession, Confirm, BeginLink,
                  FinishReauthentication, CreateKey, Abandon
    <3>5. /\ \A b \in Accounts : /\ ~Invite(b) /\ ~OperatorLink(b)
                                 /\ \A purpose \in Purpose : ~RequestEmail(b, purpose)
          /\ \A q \in Persons : ~BeginSignin(q)
          /\ ~Gone
          /\ ~UNCHANGED accessVars
      BY <3>1 DEF Invite, OperatorLink, RequestEmail, BeginSignin, Gone, accessVars
    <3>6. QED  BY <2>1, <3>2, <3>3, <3>4, <3>5 DEF Next
  <2>4. PICK r \in Requests : FinishLink(r)
    BY <2>3
  <2> DEFINE t == request[r].attempt
  <2>5. /\ request[r].kind = "callback" /\ t.mode = "link" /\ t.by \in Persons
        /\ \E s \in sessions : s.id = t.session
        /\ t.since = resets[t.account] /\ user[t.account].hash.by = t.by
        /\ identities' = [identities EXCEPT ![t.by] = t.account]
    BY <2>4, LinkedByItsOwner
  <2>6. p = t.by /\ a = t.account
    BY <2>5 DEF AccessShape
  <2>7. QED  BY <2>5, <2>6
<1>2. QED  BY <1>1, AccessInvariant, PTL DEF Spec, ConnectedAsAsked
=============================================================================
