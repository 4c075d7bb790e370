--------------------------- MODULE AccountAccess ---------------------------
(***************************************************************************)
(* Who may act for an account: passwords, account links, sessions, API     *)
(* keys and connected Google accounts, in unrender/product/service.py and  *)
(* google_accounts.py.  Passwords are verified and hashed (scrypt) outside *)
(* the transactions that act on the answer, and a Google sign-in spans     *)
(* three requests, so a request may act on an account that has changed.    *)
(*                                                                         *)
(* Abstractions.  A password is the person who knows it: "by".  Every call *)
(* of hash_password returns another hash, hence its salt.  A token is its  *)
(* number; the mailbox of an address belongs to one person, who reads the  *)
(* links mailed to it, while an operator may hand a link to anyone.  Rows  *)
(* that expire are removed (Gone); revoked keys are not kept.  A person    *)
(* has one Google account, with the address of their mailbox.  Accounts    *)
(* are customers: the sample accounts have no credentials to change.       *)
(***************************************************************************)
EXTENDS Integers, FiniteSets

CONSTANTS
    Persons, NoOne,
    Accounts,       \* rows of table users (UUIDs, never reused)
    NoAccount,
    Mailbox,        \* the person who reads the mail of each account's address
    Requests,       \* threads of the web server
    MaxSessions,    \* settings.max_sessions_per_user
    MaxKeys,        \* settings.max_active_api_keys_per_user
    MaxLinks,       \* unexpired links of one purpose (5)
    MaxTokens       \* bound of the model: tokens issued

ASSUME AccessAssumption ==
    /\ NoOne \notin Persons /\ NoAccount \notin Accounts
    /\ Mailbox \in [Accounts -> Persons]
    /\ MaxSessions \in Nat \ {0} /\ {MaxKeys, MaxLinks, MaxTokens} \subseteq Nat

VARIABLES
    user,        \* table users
    links,       \* table account_challenges
    sessions,    \* table sessions
    api_keys,    \* table api_keys: the usable ones
    attempts,    \* table oauth_attempts
    identities,  \* table google_identities: the account of each Google account
    request,     \* what each thread has read and still has to do
    issued,      \* tokens issued so far
    resets,      \* history: times the password of an account was replaced
    uses         \* history: times each link was completed

accessVars == <<user, links, sessions, api_keys, attempts, identities, request,
                issued, resets, uses>>
credentials == <<sessions, api_keys>>
google == <<attempts, identities>>
history == <<resets, uses>>

Tokens == 1 .. MaxTokens
Purpose == {"verify", "reset"}
Hash == [by: Persons \cup {NoOne}, salt: Nat, old: BOOLEAN]
AnyHash == [by |-> NoOne, salt |-> -1, old |-> FALSE]
UserRow == [state: {"absent", "inactive", "active", "deleted"}, hash: Hash,
            enabled: BOOLEAN, verified: BOOLEAN, generation: Nat]
Link == [id: Tokens, account: Accounts, purpose: Purpose, proof: BOOLEAN]
Session == [id: Tokens, account: Accounts, by: Persons, generation: Nat,
            evidence: {"password", "registration", "google"}, since: Nat,
            recent: BOOLEAN, pending: BOOLEAN]
Key == [id: Tokens, account: Accounts, since: Nat]
Attempt == [id: Tokens, mode: {"signin", "link", "reauthenticate"}, by: Persons,
            account: Accounts \cup {NoAccount}, session: 0 .. MaxTokens,
            generation: Nat, since: Nat]

\* A request between two of its transactions: what it is about and what it read.
Idle == [kind |-> "idle"]
Request ==
    {Idle}
    \cup [kind: {"rehash", "session"}, account: Accounts, by: Persons,
          hash: Hash \cup {AnyHash}, generation: Nat, since: Nat,
          evidence: {"password", "registration", "google"}]
    \cup [kind: {"complete"}, link: Link, by: Persons, hash: Hash, generation: Nat]
    \cup [kind: {"confirm", "link"}, session: Session, hash: Hash, generation: Nat,
          then: {"idle", "link"}]
    \cup [kind: {"key"}, account: Accounts, generation: Nat, since: Nat]
    \cup [kind: {"callback"}, attempt: Attempt]

NoUser == [state |-> "absent", hash |-> [by |-> NoOne, salt |-> 0, old |-> FALSE],
           enabled |-> FALSE, verified |-> FALSE, generation |-> 0]

Init ==
    /\ user = [a \in Accounts |-> NoUser]
    /\ links = {} /\ sessions = {} /\ api_keys = {} /\ attempts = {}
    /\ identities = [p \in Persons |-> NoAccount]
    /\ request = [r \in Requests |-> Idle]
    /\ issued = 0
    /\ resets = [a \in Accounts |-> 0]
    /\ uses = [t \in Tokens |-> 0]

-----------------------------------------------------------------------------
(* Rows                                                                    *)

Active(a) == user[a].state = "active"
Present(a) == user[a].state \in {"inactive", "active"}
AddressTaken(p) == \E a \in Accounts : Present(a) /\ Mailbox[a] = p
Fresh(a) == user[a].state = "absent" /\ ~AddressTaken(Mailbox[a])
Of(rows, a) == {x \in rows : x.account = a}

Issue == issued < MaxTokens /\ issued' = issued + 1
Go(r, next) == request' = [request EXCEPT ![r] = next]
Done(r) == Go(r, Idle)

Valid(s) == s \in sessions /\ Present(s.account) /\ s.generation = user[s.account].generation
Usable(s) == Valid(s) /\ ~s.pending

\* Sign in as the person p, with the hash that was verified, or without one.
Admit(a, p, hash, evidence) ==
    [kind |-> "session", account |-> a, by |-> p, hash |-> hash,
     generation |-> user[a].generation, since |-> resets[a], evidence |-> evidence]

-----------------------------------------------------------------------------
(* Accounts and links                                                      *)

\* register: someone signs up with an address, theirs or not.  Where mail must
\* be verified first the account waits; otherwise the handler signs them in.
\* The hash may be one that a later release finds too weak.
Register(r, p, a) ==
    /\ request[r] = Idle /\ Fresh(a)
    /\ \E verifyFirst, old \in BOOLEAN :
          /\ user' = [user EXCEPT ![a] =
                [state |-> IF verifyFirst THEN "inactive" ELSE "active",
                 hash |-> [by |-> p, salt |-> 0, old |-> old],
                 enabled |-> TRUE, verified |-> FALSE, generation |-> 0]]
          /\ IF verifyFirst THEN UNCHANGED request
             ELSE Go(r, Admit(a, p, AnyHash, "registration"))
    /\ UNCHANGED <<links, credentials, google, issued, history>>

\* invite_user: a password no one knows, and a link to replace it.
Invite(a) ==
    /\ Fresh(a) /\ Issue
    /\ user' = [user EXCEPT ![a] = [NoUser EXCEPT !.state = "inactive", !.enabled = TRUE]]
    /\ links' = links \cup
          {[id |-> issued', account |-> a, purpose |-> "reset", proof |-> FALSE]}
    /\ UNCHANGED <<credentials, google, request, history>>

\* Knowing a claimed mailbox must not recover a password-only workspace.
Recoverable(a) == Active(a) => user[a].verified

RequestEmail(a, purpose) ==
    /\ Present(a) /\ Issue
    /\ purpose = "verify" => ~user[a].verified
    /\ purpose = "reset" => Recoverable(a)
    /\ Cardinality({c \in Of(links, a) : c.purpose = purpose}) < MaxLinks
    /\ links' = links \cup
          {[id |-> issued', account |-> a, purpose |-> purpose, proof |-> TRUE]}
    /\ UNCHANGED <<user, credentials, google, request, history>>

OperatorLink(a) ==
    /\ Present(a) /\ Issue
    /\ links' = (links \ Of(links, a)) \cup
          {[id |-> issued', account |-> a, purpose |-> "reset", proof |-> FALSE]}
    /\ UNCHANGED <<user, credentials, google, request, history>>

\* Mutants: a link is verified for whoever clicks it; the second reading of a
\* link is left out; a reset leaves the other links of the account.
ClickedLink(p, c) == TRUE
LinkRead(c) == TRUE
OnlyThisLink(c) == {c}

KnowsPassword(p, c) == user[c.account].hash.by = p
LinkStands(c) == c \in links
SettledByReset(c) == Of(links, c.account)

\* complete_account_email reads the link and verifies, or hashes, the password
\* before its transaction.
StartComplete(r, p, c) ==
    /\ request[r] = Idle /\ c \in links
    /\ c.proof => p = Mailbox[c.account]
    /\ c.purpose = "reset" /\ c.proof => Recoverable(c.account)
    /\ c.purpose = "verify" => KnowsPassword(p, c)
    /\ Go(r, [kind |-> "complete", link |-> c, by |-> p, hash |-> user[c.account].hash,
              generation |-> user[c.account].generation])
    /\ UNCHANGED <<user, links, credentials, google, issued, history>>

CompleteVerify(r) ==
    LET q == request[r]
        a == q.link.account
    IN  /\ q.kind = "complete" /\ q.link.purpose = "verify"
        /\ LinkStands(q.link) /\ Present(a)
        /\ user[a].hash = q.hash /\ user[a].generation = q.generation
        /\ user' = [user EXCEPT ![a] = [@ EXCEPT !.verified = TRUE, !.state = "active"]]
        /\ links' = links \ {c \in Of(links, a) : c.purpose = "verify"}
        /\ uses' = [uses EXCEPT ![q.link.id] = @ + 1]
        /\ Done(r)
        /\ UNCHANGED <<credentials, google, issued, resets>>

CompleteReset(r) ==
    LET q == request[r]
        a == q.link.account
    IN  /\ q.kind = "complete" /\ q.link.purpose = "reset"
        /\ LinkStands(q.link) /\ Present(a)
        /\ q.link.proof => Recoverable(a)
        /\ user' = [user EXCEPT ![a] =
              [state |-> "active", enabled |-> TRUE,
               hash |-> [by |-> q.by, salt |-> @.hash.salt + 1, old |-> FALSE],
               verified |-> @.verified \/ q.link.proof, generation |-> @.generation + 1]]
        /\ links' = links \ SettledByReset(q.link)
        /\ sessions' = sessions \ Of(sessions, a)
        /\ api_keys' = api_keys \ Of(api_keys, a)
        /\ uses' = [uses EXCEPT ![q.link.id] = @ + 1]
        /\ resets' = [resets EXCEPT ![a] = @ + 1]
        /\ Done(r)
        /\ UNCHANGED <<google, issued>>

-----------------------------------------------------------------------------
(* Sessions                                                                *)

\* authenticate: the password is verified against the hash that was read.
StartLogin(r, a) ==
    LET u == user[a] IN
    /\ request[r] = Idle
    /\ Present(a) /\ u.enabled /\ u.hash.by # NoOne
    /\ Go(r, [Admit(a, u.hash.by, u.hash, "password") EXCEPT
                !.kind = IF u.hash.old THEN "rehash" ELSE "session"])
    /\ UNCHANGED <<user, links, credentials, google, issued, history>>

\* A weak hash is replaced, unless another login did so meanwhile.
Rehash(r) ==
    LET q == request[r]
        u == user[q.account]
    IN  /\ q.kind = "rehash" /\ Present(q.account)
        /\ IF u.hash = q.hash
           THEN user' = [user EXCEPT ![q.account].hash =
                            [u.hash EXCEPT !.salt = @ + 1, !.old = FALSE]]
           ELSE /\ u.generation = q.generation /\ u.hash.by = q.by
                /\ UNCHANGED user
        /\ Go(r, [q EXCEPT !.kind = "session", !.hash = user'[q.account].hash])
        /\ UNCHANGED <<links, credentials, google, issued, history>>

\* Mutant: the session is for the account, whatever its password is now.
AnyPassword(a, hash) == TRUE
StillPassword(a, hash) == hash = AnyHash \/ user[a].hash = hash

\* The newest sessions an account keeps when another is created.
Kept(a) == {s \in Of(sessions, a) :
               Cardinality({n \in Of(sessions, a) : n.id >= s.id}) < MaxSessions}

CreateSession(r) ==
    LET q == request[r]
        a == q.account
        isGoogle == q.evidence = "google"
    IN  /\ q.kind = "session"
        /\ Active(a) /\ StillPassword(a, q.hash) /\ Issue
        /\ sessions' = (sessions \ Of(sessions, a)) \cup Kept(a) \cup
              {[id |-> issued', account |-> a, by |-> q.by,
                generation |-> user[a].generation, evidence |-> q.evidence,
                since |-> IF isGoogle THEN resets[a] ELSE q.since,
                recent |-> FALSE, pending |-> isGoogle]}
        /\ Done(r)
        /\ UNCHANGED <<user, links, api_keys, google, history>>

Replace(s, t) == sessions' = (sessions \ {s}) \cup {t}

\* Five minutes pass since the holder confirmed their identity.
ConfirmationLapses(s) ==
    /\ s \in sessions /\ s.recent
    /\ Replace(s, [s EXCEPT !.recent = FALSE])
    /\ UNCHANGED <<user, links, api_keys, google, request, issued, history>>

\* reauthenticate_password; the handler of "connect Google" goes on from there.
StartConfirm(r, s, then) ==
    LET u == user[s.account] IN
    /\ request[r] = Idle /\ Usable(s)
    /\ u.enabled /\ u.hash.by = s.by
    /\ Go(r, [kind |-> "confirm", session |-> s, hash |-> u.hash,
              generation |-> u.generation, then |-> then])
    /\ UNCHANGED <<user, links, credentials, google, issued, history>>

\* The row a session token names now.
Current(s) == CHOOSE t \in sessions : t.id = s.id
Exists(s) == \E t \in sessions : t.id = s.id

Confirm(r) ==
    LET q == request[r]
        u == user[q.session.account]
    IN  /\ q.kind = "confirm"
        /\ Exists(q.session) /\ Current(q.session).generation = q.generation
        /\ u.hash = q.hash /\ u.enabled /\ u.generation = q.generation
        /\ Replace(Current(q.session), [Current(q.session) EXCEPT !.recent = TRUE])
        /\ IF q.then = "idle" THEN Done(r) ELSE Go(r, [q EXCEPT !.kind = "link"])
        /\ UNCHANGED <<user, links, api_keys, google, issued, history>>

\* Every session of the account ends, and so does what was begun under them.
Logout(s) ==
    /\ Valid(s)
    /\ sessions' = sessions \ Of(sessions, s.account)
    /\ user' = [user EXCEPT ![s.account].generation = @ + 1]
    /\ UNCHANGED <<links, api_keys, google, request, issued, history>>

-----------------------------------------------------------------------------
(* Google                                                                  *)

NewAttempt(mode, p, a, session) ==
    attempts' = attempts \cup
        {[id |-> issued', mode |-> mode, by |-> p, account |-> a, session |-> session,
          generation |-> IF a = NoAccount THEN 0 ELSE user[a].generation,
          since |-> IF a = NoAccount THEN 0 ELSE resets[a]]}

BeginSignin(p) ==
    /\ Issue /\ NewAttempt("signin", p, NoAccount, 0)
    /\ UNCHANGED <<user, links, credentials, identities, request, history>>

BeginReauthentication(s) ==
    /\ Usable(s) /\ Active(s.account)
    /\ Issue /\ NewAttempt("reauthenticate", s.by, s.account, s.id)
    /\ UNCHANGED <<user, links, credentials, identities, request, history>>

BeginLink(r) ==
    LET s == request[r].session IN
    /\ request[r].kind = "link"
    /\ Exists(s) /\ Valid(Current(s)) /\ Active(s.account) /\ Current(s).recent
    /\ Issue /\ NewAttempt("link", s.by, s.account, s.id)
    /\ Done(r)
    /\ UNCHANGED <<user, links, credentials, identities, history>>

\* Mutant: the browser's present session is enough.
AnySession(t, s) == Valid(s) /\ Active(s.account)

\* The browser's session is the one the attempt was begun in.
Bound(t, s) ==
    /\ Valid(s) /\ Active(s.account)
    /\ t.session = s.id /\ t.account = s.account
    /\ t.generation = user[s.account].generation

BoundNow(t) == t.mode # "signin" => \E s \in sessions : s.by = t.by /\ Bound(t, s)

\* The callback takes the attempt, and asks Google who came back.
Consume(r, t) ==
    /\ request[r] = Idle /\ t \in attempts /\ BoundNow(t)
    /\ attempts' = attempts \ {t}
    /\ Go(r, [kind |-> "callback", attempt |-> t])
    /\ UNCHANGED <<user, links, credentials, identities, issued, history>>

FinishSignin(r) ==
    LET p == request[r].attempt.by IN
    /\ request[r].kind = "callback" /\ request[r].attempt.mode = "signin"
    /\ \/ /\ identities[p] # NoAccount
          /\ Go(r, Admit(identities[p], p, AnyHash, "google"))
          /\ UNCHANGED <<user, identities>>
       \/ /\ identities[p] = NoAccount
          /\ \E a \in Accounts, owns \in BOOLEAN :
                /\ Fresh(a) /\ Mailbox[a] = p
                /\ user' = [user EXCEPT ![a] =
                      [NoUser EXCEPT !.state = "active", !.verified = owns]]
                /\ identities' = [identities EXCEPT ![p] = a]
                /\ Go(r, Admit(a, p, AnyHash, "google"))
    /\ UNCHANGED <<links, credentials, attempts, issued, history>>

FinishReauthentication(r) ==
    LET t == request[r].attempt IN
    /\ request[r].kind = "callback" /\ t.mode = "reauthenticate"
    /\ \E s \in sessions :
          /\ s.by = t.by /\ Bound(t, s) /\ identities[t.by] = s.account
          /\ Replace(s, [s EXCEPT !.recent = TRUE])
    /\ Done(r)
    /\ UNCHANGED <<user, links, api_keys, google, issued, history>>

FinishLink(r) ==
    LET t == request[r].attempt IN
    /\ request[r].kind = "callback" /\ t.mode = "link"
    /\ \E s \in sessions, owns \in BOOLEAN :
          /\ s.by = t.by /\ Bound(t, s) /\ s.recent
          /\ identities[t.by] \in {NoAccount, s.account}
          /\ \A p \in Persons \ {t.by} : identities[p] # s.account
          /\ identities' = [identities EXCEPT ![t.by] = s.account]
          /\ user' = IF owns /\ Mailbox[s.account] = t.by
                     THEN [user EXCEPT ![s.account].verified = TRUE] ELSE user
    /\ Done(r)
    /\ UNCHANGED <<links, credentials, attempts, issued, history>>

\* complete_login: the tab that asked for the sign-in is the one that came back.
CompleteLogin(s) ==
    /\ Valid(s) /\ Active(s.account) /\ s.pending
    /\ Replace(s, [s EXCEPT !.pending = FALSE])
    /\ UNCHANGED <<user, links, api_keys, google, request, issued, history>>

-----------------------------------------------------------------------------
(* API keys, deletion, expiry                                              *)

StartKey(r, s) ==
    /\ request[r] = Idle /\ Usable(s)
    /\ Go(r, [kind |-> "key", account |-> s.account, since |-> resets[s.account],
              generation |-> user[s.account].generation])
    /\ UNCHANGED <<user, links, credentials, google, issued, history>>

CreateKey(r) ==
    LET q == request[r] IN
    /\ q.kind = "key"
    /\ Present(q.account) /\ user[q.account].generation = q.generation
    /\ Cardinality(Of(api_keys, q.account)) < MaxKeys
    /\ Issue
    /\ api_keys' = api_keys \cup {[id |-> issued', account |-> q.account, since |-> q.since]}
    /\ Done(r)
    /\ UNCHANGED <<user, links, sessions, google, history>>

RevokeKeys(s) ==
    /\ Usable(s)
    /\ \/ \E k \in Of(api_keys, s.account) : api_keys' = api_keys \ {k}
       \/ api_keys' = api_keys \ Of(api_keys, s.account)
    /\ UNCHANGED <<user, links, sessions, google, request, issued, history>>

\* delete_account: the row, and with it every row that names the account.
DeleteAccount(s) ==
    LET a == s.account IN
    /\ Usable(s) /\ Active(a) /\ s.recent
    /\ user' = [user EXCEPT ![a] = [NoUser EXCEPT !.state = "deleted"]]
    /\ links' = links \ Of(links, a) /\ sessions' = sessions \ Of(sessions, a)
    /\ api_keys' = api_keys \ Of(api_keys, a) /\ attempts' = attempts \ Of(attempts, a)
    /\ identities' = [p \in Persons |-> IF identities[p] = a THEN NoAccount ELSE identities[p]]
    /\ UNCHANGED <<request, issued, history>>

\* A row reaches its expiry, or the mail with a link could not be sent.
Gone ==
    /\ \/ \E c \in links : links' = links \ {c} /\ UNCHANGED <<credentials, attempts>>
       \/ \E s \in sessions : sessions' = sessions \ {s}
                              /\ UNCHANGED <<links, api_keys, attempts>>
       \/ \E k \in api_keys : api_keys' = api_keys \ {k}
                              /\ UNCHANGED <<links, sessions, attempts>>
       \/ \E t \in attempts : attempts' = attempts \ {t} /\ UNCHANGED <<links, credentials>>
    /\ UNCHANGED <<user, identities, request, issued, history>>

\* A request is refused, or dies with its process.
Abandon(r) ==
    /\ request[r] # Idle /\ Done(r)
    /\ UNCHANGED <<user, links, credentials, google, issued, history>>

Next ==
    \/ \E a \in Accounts : \/ Invite(a) \/ OperatorLink(a)
                           \/ \E purpose \in Purpose : RequestEmail(a, purpose)
    \/ \E p \in Persons : BeginSignin(p)
    \/ \E s \in sessions : \/ ConfirmationLapses(s) \/ Logout(s) \/ CompleteLogin(s)
                           \/ BeginReauthentication(s) \/ RevokeKeys(s) \/ DeleteAccount(s)
    \/ \E r \in Requests :
          \/ \E p \in Persons : \/ \E a \in Accounts : Register(r, p, a)
                                \/ \E c \in links : StartComplete(r, p, c)
          \/ CompleteVerify(r) \/ CompleteReset(r)
          \/ \E a \in Accounts : StartLogin(r, a)
          \/ Rehash(r) \/ CreateSession(r)
          \/ \E s \in sessions : \/ \E then \in {"idle", "link"} : StartConfirm(r, s, then)
                                 \/ StartKey(r, s)
          \/ Confirm(r) \/ BeginLink(r)
          \/ \E t \in attempts : Consume(r, t)
          \/ FinishSignin(r) \/ FinishReauthentication(r) \/ FinishLink(r)
          \/ CreateKey(r) \/ Abandon(r)
    \/ Gone

Spec == Init /\ [][Next]_accessVars

-----------------------------------------------------------------------------
(* Properties                                                              *)

\* Rows and requests keep their shape, and no account exceeds its sessions or
\* keys, whichever are created at the same time.
AccessTypeOK ==
    /\ user \in [Accounts -> UserRow]
    /\ links \subseteq Link /\ sessions \subseteq Session
    /\ api_keys \subseteq Key /\ attempts \subseteq Attempt
    /\ identities \in [Persons -> Accounts \cup {NoAccount}]
    /\ request \in [Requests -> Request]
    /\ issued \in 0 .. MaxTokens
    /\ resets \in [Accounts -> Nat] /\ uses \in [Tokens -> Nat]
    /\ \A a \in Accounts : /\ Cardinality(Of(sessions, a)) <= MaxSessions
                           /\ Cardinality(Of(api_keys, a)) <= MaxKeys

\* Replacing a password ends everything the old one opened, also what was
\* still on its way: no session signed in with an earlier password and no key
\* made under one is ever usable, however logins, upgrades of the hash and
\* key requests overlap with the reset.
CredentialsFollowPassword ==
    /\ \A s \in sessions : /\ Valid(s)
                           /\ s.evidence = "password" => s.since = resets[s.account]
    /\ \A k \in api_keys : Present(k.account) /\ k.since = resets[k.account]

\* A mailbox alone never recovers a workspace that is in use without a
\* verified address: no mailed recovery link for it exists, and none that was
\* mailed before it was in use survived.
NoStrayRecovery ==
    \A c \in links : c.purpose = "reset" /\ c.proof => Recoverable(c.account)

\* An address counts as verified only when the person who reads its mail
\* knows the account's password at that moment: a link mailed to someone
\* else's registration verifies nothing by being clicked.
VerifiedByItsReader ==
    [][\A a \in Accounts :
          Present(a) /\ ~user[a].verified /\ user'[a].verified
             => user'[a].hash.by = Mailbox[a]]_accessVars

\* An account link has an effect at most once, however often and at the same
\* time it is completed.
LinksWorkOnce == \A t \in Tokens : uses[t] <= 1

\* A Google account is connected to the account for which that was asked, by
\* someone who knew its password and has not lost the session since.
ConnectedAsAsked ==
    [][\A p \in Persons :
          LET a == identities'[p] IN
          a # identities[p] /\ a # NoAccount /\ Present(a) =>
             \E r \in Requests : /\ request[r].kind = "callback"
                                 /\ request[r].attempt.mode = "link"
                                 /\ request[r].attempt.account = a
                                 /\ request[r].attempt.since = resets[a]
                                 /\ \E s \in sessions : s.id = request[r].attempt.session
                                 /\ user[a].hash.by = p]_accessVars
=============================================================================
