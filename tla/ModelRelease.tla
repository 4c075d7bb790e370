------------------------------ MODULE ModelRelease ------------------------------
(***************************************************************************)
(* The weights that answer a production request: infer_one of              *)
(* modal_train.py and what it calls, hf_vlm_provider of                    *)
(* unrender/eval/providers.py, and the publisher                           *)
(* scripts/publish_modal_release.py.  A request names the digest of the    *)
(* files it approves.  The files are copied from a source nobody vouches   *)
(* for into a read-only directory named by the digest, verified there, and *)
(* loaded once per container; later requests of the same release skip the  *)
(* verification if the very objects it loaded are still there.             *)
(*                                                                         *)
(* Abstractions.  Bytes are known by their digest: those of release d are  *)
(* d itself, and Foreign is everything else.  A copy and its digest are    *)
(* taken of the same bytes (_copy_snapshot_and_digest reads them once).    *)
(* A stored file may decay, but not between its verification and its load: *)
(* nothing in the code guards that moment.                                 *)
(***************************************************************************)
CONSTANTS
    Containers,   \* containers of infer_one: a new deployment overlaps the old
    HubReleases,  \* digests of Hub commits
    Published,    \* digests of releases that are published to the volume
    Foreign       \* bytes of no approved release

ASSUME ReleaseAssumption ==
    /\ HubReleases \cap Published = {}
    /\ HubReleases \cup Published # {}
    /\ Foreign \notin HubReleases \cup Published

Releases == HubReleases \cup Published
Bytes == Releases \cup {Foreign}

VARIABLES
    source,       \* the bytes a Hub snapshot or the training run has now
    store,        \* the directory named by each digest
    server,       \* the request each container works on, and its caches
    publisher,    \* the release that is being published
    answered      \* history: the digest of each answer, with the bytes it came from

releaseVars == <<source, store, server, publisher, answered>>

\* A directory is open until it is made read-only; then it is sealed.
Directory == [state: {"absent", "open", "sealed"}, bytes: Bytes]
NoDirectory == [state |-> "absent", bytes |-> Foreign]

NotLoaded == "not loaded"

Server == [pc: {"idle", "resolving", "copied", "renamed", "verifying", "loading", "generating"},
           want: Releases, copy: Bytes,
           loaded: [Releases -> Bytes \cup {NotLoaded}], verified: SUBSET Releases]

Publication == [pc: {"idle", "copied", "verified"}, want: Releases, copy: Bytes]

ReleaseTypeOK ==
    /\ source \in [Releases -> Bytes]
    /\ store \in [Releases -> Directory]
    /\ server \in [Containers -> Server]
    /\ publisher \in Publication
    /\ answered \subseteq Releases \X Bytes

\* Between requests want and copy hold nothing that is read again.
AnyRelease == CHOOSE d \in Releases : TRUE

NewContainer ==
    [pc |-> "idle", want |-> AnyRelease, copy |-> Foreign,
     loaded |-> [r \in Releases |-> NotLoaded], verified |-> {}]

NoPublication == [pc |-> "idle", want |-> AnyRelease, copy |-> Foreign]

ReleaseInit ==
    /\ source = [d \in Releases |-> d]
    /\ store = [d \in Releases |-> NoDirectory]
    /\ server = [c \in Containers |-> NewContainer]
    /\ publisher = NoPublication
    /\ answered = {}

ServerAt(c, pc) == server[c].pc = pc
ServerTo(c, pc) == server' = [server EXCEPT ![c].pc = pc]
ServerIdle(c) == [server EXCEPT ![c].pc = "idle", ![c].want = AnyRelease, ![c].copy = Foreign]
Want(c) == server[c].want

\* Mutant: a directory of the right name is taken at its word.
TrustsName(dir, d) == dir.state # "absent"

\* What _verify_materialization accepts: read-only files with this digest.
Verifies(dir, d) == dir.state = "sealed" /\ dir.bytes = d

-----------------------------------------------------------------------------
(* A request                                                               *)

\* _INFER_VERIFIED_MODELS, at this release, still names the loaded objects.
CacheHit(c, d) == d \in server[c].verified /\ server[c].loaded[d] # NotLoaded

InferOne(c, d) ==
    /\ ServerAt(c, "idle")
    /\ server' = [server EXCEPT ![c].want = d,
                     ![c].pc = IF CacheHit(c, d) THEN "generating" ELSE "resolving"]
    /\ UNCHANGED <<source, store, publisher, answered>>

\* A published release must be there; a Hub commit is copied if it is not.
Resolve(c) ==
    LET d == Want(c)
    IN  /\ ServerAt(c, "resolving")
        /\ \/ /\ store[d].state # "absent" \/ d \in Published
              /\ ServerTo(c, "verifying")
           \/ /\ store[d].state = "absent" /\ d \in HubReleases
              /\ server' = IF source[d] = d
                            THEN [server EXCEPT ![c].copy = d, ![c].pc = "copied"]
                            ELSE ServerIdle(c)
        /\ UNCHANGED <<source, store, publisher, answered>>

\* The copy of another container may have got there first: this one is dropped.
Rename(c) ==
    LET d == Want(c)
    IN  /\ ServerAt(c, "copied")
        /\ IF store[d].state = "absent"
           THEN store' = [store EXCEPT ![d] = [state |-> "open", bytes |-> server[c].copy]]
           ELSE UNCHANGED store
        /\ server' = [server EXCEPT ![c].copy = Foreign, ![c].pc = "renamed"]
        /\ UNCHANGED <<source, publisher, answered>>

MakeReadOnly(c) ==
    /\ ServerAt(c, "renamed")
    /\ store' = [store EXCEPT ![Want(c)].state = "sealed"]
    /\ ServerTo(c, "verifying")
    /\ UNCHANGED <<source, publisher, answered>>

\* A directory that does not verify fails the request, and stays.
Verify(c) ==
    LET d == Want(c)
    IN  /\ ServerAt(c, "verifying")
        /\ IF Verifies(store[d], d) THEN ServerTo(c, "loading") ELSE server' = ServerIdle(c)
        /\ UNCHANGED <<source, store, publisher, answered>>

\* _HF_CACHE: what was loaded from a path is not read from it again.
Load(c) ==
    LET d == Want(c)
    IN  /\ ServerAt(c, "loading")
        /\ server' = [server EXCEPT ![c].pc = "generating",
                         ![c].loaded[d] = IF @ = NotLoaded THEN store[d].bytes ELSE @]
        /\ UNCHANGED <<source, store, publisher, answered>>

Generate(c) ==
    LET d == Want(c)
    IN  /\ ServerAt(c, "generating")
        /\ answered' = answered \cup {<<d, server[c].loaded[d]>>}
        /\ server' = [ServerIdle(c) EXCEPT ![c].verified = @ \cup {d}]
        /\ UNCHANGED <<source, store, publisher>>

\* Any step after the request may raise; a copy that was not renamed goes.
RequestFails(c) ==
    /\ ~ServerAt(c, "idle")
    /\ server' = ServerIdle(c)
    /\ UNCHANGED <<source, store, publisher, answered>>

\* The container is replaced: its memory is gone, its directories are not.
KillContainer(c) ==
    /\ server' = [server EXCEPT ![c] = NewContainer]
    /\ UNCHANGED <<source, store, publisher, answered>>

-----------------------------------------------------------------------------
(* The publisher                                                           *)

\* A release that is there must verify: nothing is written either way.
Publish(d) ==
    /\ publisher.pc = "idle" /\ store[d].state = "absent"
    /\ publisher' = IF source[d] = d
                    THEN [pc |-> "copied", want |-> d, copy |-> d]
                    ELSE NoPublication
    /\ UNCHANGED <<source, store, server, answered>>

\* The staged copy is made read-only and verified before it gets its name.
VerifyStaged ==
    /\ publisher.pc = "copied"
    /\ publisher' = IF Verifies([state |-> "sealed", bytes |-> publisher.copy], publisher.want)
                    THEN [publisher EXCEPT !.pc = "verified"]
                    ELSE NoPublication
    /\ UNCHANGED <<source, store, server, answered>>

RenameStaged ==
    /\ publisher.pc = "verified"
    /\ store' = [store EXCEPT ![publisher.want] =
            [state |-> "sealed", bytes |-> publisher.copy]]
    /\ publisher' = NoPublication
    /\ UNCHANGED <<source, server, answered>>

KillPublisher ==
    /\ publisher.pc # "idle"
    /\ publisher' = NoPublication
    /\ UNCHANGED <<source, store, server, answered>>

-----------------------------------------------------------------------------
(* The files                                                               *)

SourceChanges(d) ==
    /\ source' \in {[source EXCEPT ![d] = b] : b \in {d, Foreign}}
    /\ UNCHANGED <<store, server, publisher, answered>>

Decay(d) ==
    /\ store[d].state # "absent" /\ store[d].bytes # Foreign
    /\ \A c \in Containers : ~(ServerAt(c, "loading") /\ Want(c) = d)
    /\ store' = [store EXCEPT ![d].bytes = Foreign]
    /\ UNCHANGED <<source, server, publisher, answered>>

ReleaseNext ==
    \/ \E c \in Containers :
          \/ \E d \in Releases : InferOne(c, d)
          \/ Resolve(c) \/ Rename(c) \/ MakeReadOnly(c) \/ Verify(c) \/ Load(c)
          \/ Generate(c) \/ RequestFails(c) \/ KillContainer(c)
    \/ \E d \in Published : Publish(d)
    \/ VerifyStaged \/ RenameStaged \/ KillPublisher
    \/ \E d \in Releases : SourceChanges(d) \/ Decay(d)

ReleaseSpec == ReleaseInit /\ [][ReleaseNext]_releaseVars

-----------------------------------------------------------------------------
(* Properties                                                              *)

\* A request is answered by the bytes of the digest it approves and by no
\* others, whatever the source held when it was copied, whichever container
\* copied it, and however the stored files decayed before they were verified or
\* after they were loaded; they do not decay between the two.
AnswersMatchDigest == \A a \in answered : a[2] = a[1]
=============================================================================
