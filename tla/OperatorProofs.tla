---------------------------- MODULE OperatorProofs ----------------------------
(***************************************************************************)
(* What those who run the service and train its model may rely on, proved  *)
(* for every value of the constants: the release that answers a request,   *)
(* the calls that evaluate, the sources that a run consumes and the saves  *)
(* of a training run; after an accident, the archives of the scheduled     *)
(* backup and a database whose upgrade died on the way.  The modules share *)
(* no state, so each has its own inductive invariant.                      *)
(***************************************************************************)
EXTENDS ModelRelease, EvalRun, SourceReview, TrainingRun, RecoveryCopies, SchemaUpgrade,
        FiniteSums

-----------------------------------------------------------------------------
(***************************************************************************)
(* Which bytes answer a request of ModelRelease, for any number of         *)
(* containers and releases.                                                *)
(***************************************************************************)

\* What each step of a request knows of the bytes it works on: a copy and a
\* staged release have the digest they were compared with, a directory that is
\* about to be loaded was verified, and memory holds what was loaded from one.
BytesOf(c) ==
    /\ ServerAt(c, "copied") => server[c].copy = Want(c)
    /\ ServerAt(c, "loading") => store[Want(c)].bytes = Want(c)
    /\ ServerAt(c, "generating") => server[c].loaded[Want(c)] = Want(c)
    /\ \A d \in Releases : server[c].loaded[d] \in {NotLoaded, d}

ReleaseInv ==
    /\ ReleaseTypeOK
    /\ \A c \in Containers : BytesOf(c)
    /\ publisher.pc = "verified" => publisher.copy = publisher.want
    /\ AnswersMatchDigest

LEMMA SomeRelease == AnyRelease \in Releases /\ Foreign \in Bytes /\ Releases \subseteq Bytes
  BY ReleaseAssumption DEF AnyRelease, Releases, Bytes

LEMMA NewContainerType ==
    NewContainer \in Server
  BY SomeRelease DEF NewContainer, Server

LEMMA NoPublicationType ==
    NoPublication \in Publication
  BY SomeRelease DEF NoPublication, Publication

LEMMA ReleaseStart == ReleaseInit => ReleaseInv
<1> SUFFICES ASSUME ReleaseInit PROVE ReleaseInv
  OBVIOUS
<1>1. ReleaseTypeOK
  BY SomeRelease, NewContainerType, NoPublicationType
  DEF ReleaseInit, ReleaseTypeOK, Server, Publication, NoDirectory, Directory
<1>2. \A c \in Containers : BytesOf(c)
  BY DEF ReleaseInit, BytesOf, ServerAt, NewContainer
<1> QED
  BY <1>1, <1>2 DEF ReleaseInit, ReleaseInv, NoPublication, AnswersMatchDigest

\* A step of container c that leaves the directories alone.
LEMMA ContainerStep ==
    ASSUME ReleaseInv, NEW c \in Containers, ReleaseTypeOK',
           UNCHANGED store, \A e \in Containers \ {c} : server'[e] = server[e], BytesOf(c)'
    PROVE  \A e \in Containers : BytesOf(e)'
  BY DEF ReleaseInv, BytesOf, ServerAt, Want

\* A container that stops working on its request keeps what it has loaded.
LEMMA IdleServer ==
    ASSUME ReleaseTypeOK, NEW c \in Containers
    PROVE  /\ ServerIdle(c) \in [Containers -> Server]
           /\ \A e \in Containers \ {c} : ServerIdle(c)[e] = server[e]
           /\ ServerIdle(c)[c].pc = "idle"
           /\ ServerIdle(c)[c].loaded = server[c].loaded
<1> DEFINE s == [server[c] EXCEPT !.pc = "idle", !.want = AnyRelease, !.copy = Foreign]
<1>1. server \in [Containers -> Server] /\ server[c] \in Server
  BY DEF ReleaseTypeOK
<1>2. s \in Server /\ s.pc = "idle" /\ s.loaded = server[c].loaded
  BY <1>1, SomeRelease DEF Server
<1>3. ServerIdle(c) = [server EXCEPT ![c] = s]
  BY <1>1 DEF ServerIdle
<1> QED BY <1>1, <1>2, <1>3

LEMMA BackToIdle ==
    ASSUME ReleaseInv, NEW c \in Containers, server' = ServerIdle(c)
    PROVE  /\ server' \in [Containers -> Server]
           /\ \A e \in Containers \ {c} : server'[e] = server[e]
           /\ server'[c].pc = "idle"
           /\ server'[c].loaded = server[c].loaded
           /\ BytesOf(c)'
  BY IdleServer DEF ReleaseInv, BytesOf, ServerAt

\* A container goes on with its request.
LEMMA GoesOn ==
    ASSUME ReleaseTypeOK, NEW c \in Containers,
           NEW pc \in {"verifying", "loading"}, ServerTo(c, pc)
    PROVE  /\ server' \in [Containers -> Server]
           /\ \A e \in Containers \ {c} : server'[e] = server[e]
           /\ server'[c].pc = pc
           /\ server'[c].want = server[c].want
           /\ server'[c].loaded = server[c].loaded
<1> DEFINE s == [server[c] EXCEPT !.pc = pc]
<1>1. server \in [Containers -> Server] /\ server[c] \in Server
  BY DEF ReleaseTypeOK
<1>2. s \in Server /\ s.pc = pc /\ s.want = server[c].want /\ s.loaded = server[c].loaded
  BY <1>1 DEF Server
<1>3. server' = [server EXCEPT ![c] = s]
  BY <1>1 DEF ServerTo
<1> QED BY <1>1, <1>2, <1>3

LEMMA ServingStep ==
    ASSUME ReleaseInv, NEW c \in Containers,
           \/ \E d \in Releases : InferOne(c, d)
           \/ Resolve(c) \/ Verify(c) \/ Load(c) \/ Generate(c) \/ RequestFails(c)
           \/ KillContainer(c)
    PROVE  ReleaseInv'
<1> USE DEF ReleaseInv
<1>0. /\ UNCHANGED <<source, store, publisher>>
      /\ Want(c) \in Releases
  BY DEF InferOne, Resolve, Verify, Load, Generate, RequestFails, KillContainer,
         ReleaseTypeOK, Server, Publication, Want
<1>a. SUFFICES /\ ReleaseTypeOK'
               /\ \A e \in Containers \ {c} : server'[e] = server[e]
               /\ BytesOf(c)'
               /\ AnswersMatchDigest'
  BY <1>0, ContainerStep
<1>1. ASSUME NEW d \in Releases, InferOne(c, d)
      PROVE  /\ ReleaseTypeOK' /\ \A e \in Containers \ {c} : server'[e] = server[e]
             /\ BytesOf(c)' /\ AnswersMatchDigest'
  <2>1. /\ server'[c].want = d /\ server'[c].loaded = server[c].loaded
        /\ server'[c].pc = IF CacheHit(c, d) THEN "generating" ELSE "resolving"
    BY <1>1 DEF InferOne, ReleaseTypeOK, Server, Publication
  <2>2. BytesOf(c)'
    BY <2>1 DEF BytesOf, ServerAt, Want, CacheHit
  <2>3. /\ server' \in [Containers -> Server]
        /\ \A e \in Containers \ {c} : server'[e] = server[e]
    <3> DEFINE s == [server[c] EXCEPT !.want = d,
                        !.pc = IF CacheHit(c, d) THEN "generating" ELSE "resolving"]
    <3>1. server[c] \in Server /\ server \in [Containers -> Server]
      BY DEF ReleaseTypeOK
    <3>2. s \in Server
      BY <3>1 DEF Server
    <3>3. server' = [server EXCEPT ![c] = s]
      BY <1>1, <3>1 DEF InferOne
    <3> QED BY <3>1, <3>2, <3>3
  <2> QED BY <1>1, <2>2, <2>3 DEF InferOne, ReleaseTypeOK, AnswersMatchDigest
<1>2. ASSUME Resolve(c)
      PROVE  /\ ReleaseTypeOK' /\ \A e \in Containers \ {c} : server'[e] = server[e]
             /\ BytesOf(c)' /\ AnswersMatchDigest'
  <2>1. CASE ServerTo(c, "verifying")
    <3>1. /\ server' \in [Containers -> Server] /\ server'[c].pc = "verifying"
          /\ \A e \in Containers \ {c} : server'[e] = server[e]
          /\ server'[c].loaded = server[c].loaded
      BY <2>1, GoesOn
    <3> QED BY <1>2, <3>1 DEF Resolve, ReleaseTypeOK, BytesOf, ServerAt, AnswersMatchDigest
  <2>2. CASE server' = [server EXCEPT ![c].copy = Want(c), ![c].pc = "copied"]
    <3> DEFINE s == [server[c] EXCEPT !.copy = Want(c), !.pc = "copied"]
    <3>1. Want(c) \in Bytes /\ server \in [Containers -> Server] /\ server[c] \in Server
      BY <1>0, SomeRelease DEF ReleaseTypeOK
    <3>2. /\ s \in Server /\ s.pc = "copied" /\ s.copy = Want(c) /\ s.want = Want(c)
          /\ s.loaded = server[c].loaded
      BY <3>1 DEF Server, Want
    <3>3. server' = [server EXCEPT ![c] = s]
      BY <2>2, <3>1
    <3>4. /\ server' \in [Containers -> Server] /\ server'[c] = s
          /\ \A e \in Containers \ {c} : server'[e] = server[e]
      BY <3>1, <3>2, <3>3
    <3> QED BY <1>2, <3>2, <3>4
            DEF Resolve, ReleaseTypeOK, BytesOf, ServerAt, Want, AnswersMatchDigest
  <2>3. CASE server' = ServerIdle(c)
    BY <1>2, <2>3, BackToIdle DEF Resolve, ReleaseTypeOK, Server, Publication, AnswersMatchDigest
  <2> QED BY <1>2, <2>1, <2>2, <2>3 DEF Resolve
<1>3. ASSUME Verify(c)
      PROVE  /\ ReleaseTypeOK' /\ \A e \in Containers \ {c} : server'[e] = server[e]
             /\ BytesOf(c)' /\ AnswersMatchDigest'
  <2>1. CASE Verifies(store[Want(c)], Want(c)) /\ ServerTo(c, "loading")
    <3>1. /\ server' \in [Containers -> Server] /\ server'[c].pc = "loading"
          /\ \A e \in Containers \ {c} : server'[e] = server[e]
          /\ server'[c].want = server[c].want
          /\ server'[c].loaded = server[c].loaded
      BY <2>1, GoesOn
    <3> QED BY <1>3, <2>1, <3>1
            DEF Verify, Verifies, ReleaseTypeOK, BytesOf, ServerAt, Want, AnswersMatchDigest
  <2>2. CASE server' = ServerIdle(c)
    BY <1>3, <2>2, BackToIdle DEF Verify, ReleaseTypeOK, Server, Publication, AnswersMatchDigest
  <2> QED BY <1>3, <2>1, <2>2 DEF Verify
<1>4. ASSUME Load(c)
      PROVE  /\ ReleaseTypeOK' /\ \A e \in Containers \ {c} : server'[e] = server[e]
             /\ BytesOf(c)' /\ AnswersMatchDigest'
  <2> DEFINE d == Want(c)
             bytes == IF server[c].loaded[d] = NotLoaded THEN store[d].bytes
                      ELSE server[c].loaded[d]
  <2>1. bytes = d /\ d \in Bytes
    BY <1>0, <1>4, SomeRelease DEF Load, BytesOf
  <2>2. server' = [server EXCEPT ![c].pc = "generating", ![c].loaded[d] = bytes]
    BY <1>4 DEF Load
  <2>3. /\ server'[c].pc = "generating" /\ server'[c].want = d
        /\ server'[c].loaded = [server[c].loaded EXCEPT ![d] = bytes]
    BY <1>0, <2>2 DEF ReleaseTypeOK, Server, Publication, Want
  <2>4. server[c] \in Server /\ server \in [Containers -> Server]
    BY DEF ReleaseTypeOK
  <2>5. ReleaseTypeOK' /\ \A e \in Containers \ {c} : server'[e] = server[e]
    <3> DEFINE s == [server[c] EXCEPT !.pc = "generating", !.loaded[d] = bytes]
    <3>1. server[c].loaded \in [Releases -> Bytes \cup {NotLoaded}]
      BY <2>4 DEF Server
    <3>2. [server[c].loaded EXCEPT ![d] = bytes] \in [Releases -> Bytes \cup {NotLoaded}]
      BY <2>1, <3>1
    <3>3. s \in Server
      BY <2>4, <3>2 DEF Server
    <3>4. server' = [server EXCEPT ![c] = s]
      BY <2>2, <2>4
    <3> QED BY <1>4, <2>4, <3>3, <3>4 DEF Load, ReleaseTypeOK
  <2>6. BytesOf(c)'
    BY <1>0, <2>1, <2>3 DEF BytesOf, ServerAt, Want, ReleaseTypeOK, Server, Publication
  <2> QED BY <1>4, <2>5, <2>6 DEF Load, AnswersMatchDigest
<1>5. ASSUME Generate(c)
      PROVE  /\ ReleaseTypeOK' /\ \A e \in Containers \ {c} : server'[e] = server[e]
             /\ BytesOf(c)' /\ AnswersMatchDigest'
  <2>1. server[c].loaded[Want(c)] = Want(c) /\ Want(c) \in Bytes
    BY <1>0, <1>5, SomeRelease DEF Generate, BytesOf
  <2>2. answered' = answered \cup {<<Want(c), Want(c)>>}
    BY <1>5, <2>1 DEF Generate
  <2> DEFINE f == ServerIdle(c)
             d == Want(c)
  <2>3. server' = [f EXCEPT ![c] = [f[c] EXCEPT !.verified = f[c].verified \cup {d}]]
    BY <1>5 DEF Generate
  <2>4. /\ f \in [Containers -> Server] /\ f[c] \in Server
        /\ \A e \in Containers \ {c} : f[e] = server[e]
        /\ f[c].pc = "idle" /\ f[c].loaded = server[c].loaded
    BY IdleServer
  <2>5. d \in Releases
    BY <1>0
  <2>6. /\ server' \in [Containers -> Server]
        /\ server'[c].pc = "idle" /\ server'[c].loaded = server[c].loaded
        /\ \A e \in Containers \ {c} : server'[e] = server[e]
    <3> HIDE DEF f, d
    <3>1. ASSUME NEW k \in Server
          PROVE  LET s == [k EXCEPT !.verified = k.verified \cup {d}] IN
                 s \in Server /\ s.pc = k.pc /\ s.loaded = k.loaded
      BY <2>5 DEF Server
    <3> QED BY <2>3, <2>4, <3>1
  <2>7. ReleaseTypeOK'
    <3>1. answered' \subseteq Releases \X Bytes
      BY <1>0, <2>1, <2>2 DEF ReleaseTypeOK
    <3> QED BY <1>5, <2>6, <3>1 DEF Generate, ReleaseTypeOK
  <2>8. AnswersMatchDigest'
    BY <2>2 DEF AnswersMatchDigest
  <2> QED BY <2>6, <2>7, <2>8 DEF BytesOf, ServerAt
<1>6. ASSUME RequestFails(c)
      PROVE  /\ ReleaseTypeOK' /\ \A e \in Containers \ {c} : server'[e] = server[e]
             /\ BytesOf(c)' /\ AnswersMatchDigest'
  BY <1>6, BackToIdle DEF RequestFails, ReleaseTypeOK, Server, Publication, AnswersMatchDigest
<1>7. ASSUME KillContainer(c)
      PROVE  /\ ReleaseTypeOK' /\ \A e \in Containers \ {c} : server'[e] = server[e]
             /\ BytesOf(c)' /\ AnswersMatchDigest'
  <2>1. server'[c] = NewContainer /\ \A e \in Containers \ {c} : server'[e] = server[e]
    BY <1>7 DEF KillContainer, ReleaseTypeOK, Server, Publication
  <2>2. ReleaseTypeOK'
    BY <1>7, NewContainerType DEF KillContainer, ReleaseTypeOK, Server, Publication
  <2>3. BytesOf(c)'
    BY <2>1 DEF NewContainer, BytesOf, ServerAt
  <2> QED BY <1>7, <2>1, <2>2, <2>3 DEF KillContainer, AnswersMatchDigest
<1> QED BY <1>1, <1>2, <1>3, <1>4, <1>5, <1>6, <1>7

\* A step that gives a directory bytes of its own digest, or none, or takes
\* them from a directory that nobody is about to load.
LEMMA StoreStep ==
    ASSUME ReleaseInv, ReleaseTypeOK', UNCHANGED answered,
           \A e \in Containers :
              /\ server'[e].loaded = server[e].loaded
              /\ \/ server'[e] = server[e]
                 \/ server'[e].pc \in {"renamed", "verifying"},
           \A e \in Containers, d \in Releases :
              ServerAt(e, "loading") /\ Want(e) = d
                  => store'[d].bytes \in {store[d].bytes, d},
           publisher'.pc = "verified" => publisher'.copy = publisher'.want
    PROVE  ReleaseInv'
<1>1. ASSUME NEW e \in Containers PROVE BytesOf(e)'
  <2>1. Want(e) \in Releases
    BY DEF ReleaseInv, ReleaseTypeOK, Server, Publication, Want
  <2>2. CASE server'[e] = server[e]
    BY <2>1, <2>2 DEF ReleaseInv, BytesOf, ServerAt, Want
  <2>3. CASE server'[e].pc \in {"renamed", "verifying"}
    BY <2>3 DEF ReleaseInv, BytesOf, ServerAt, Want
  <2> QED BY <2>2, <2>3
<1> QED BY <1>1 DEF ReleaseInv, AnswersMatchDigest

LEMMA DirectoryStep ==
    ASSUME ReleaseInv,
           \/ \E c \in Containers : Rename(c) \/ MakeReadOnly(c)
           \/ \E d \in Published : Publish(d)
           \/ VerifyStaged \/ RenameStaged \/ KillPublisher
           \/ \E d \in Releases : SourceChanges(d) \/ Decay(d)
    PROVE  ReleaseInv'
<1> USE DEF ReleaseInv
<1>1. ASSUME NEW c \in Containers, Rename(c) PROVE ReleaseInv'
  <2>1. Want(c) \in Releases /\ server[c].copy = Want(c)
    BY <1>1 DEF Rename, BytesOf, ReleaseTypeOK, Server, Publication, Want
  <2>2. ReleaseTypeOK'
    <3> DEFINE s == [server[c] EXCEPT !.copy = Foreign, !.pc = "renamed"]
    <3>1. server[c] \in Server /\ server \in [Containers -> Server]
      BY DEF ReleaseTypeOK
    <3>2. s \in Server
      BY <3>1, SomeRelease DEF Server
    <3>3. server' = [server EXCEPT ![c] = s]
      BY <1>1, <3>1 DEF Rename
    <3>4. store' \in [Releases -> Directory]
      <4>1. [state |-> "open", bytes |-> server[c].copy] \in Directory
        BY <2>1, SomeRelease DEF Directory
      <4>2. store \in [Releases -> Directory]
        BY DEF ReleaseTypeOK
      <4> QED BY <1>1, <2>1, <4>1, <4>2 DEF Rename
    <3> QED BY <1>1, <3>1, <3>2, <3>3, <3>4 DEF Rename, ReleaseTypeOK
  <2>3. \A e \in Containers : /\ server'[e].loaded = server[e].loaded
                              /\ server'[e] = server[e] \/ server'[e].pc = "renamed"
    BY <1>1 DEF Rename, ReleaseTypeOK, Server, Publication
  <2>4. \A d \in Releases : store'[d].bytes \in {store[d].bytes, d}
    BY <1>1, <2>1 DEF Rename, ReleaseTypeOK, Server, Publication
  <2> QED BY <1>1, <2>2, <2>3, <2>4, StoreStep DEF Rename
<1>2. ASSUME NEW c \in Containers, MakeReadOnly(c) PROVE ReleaseInv'
  <2>1. Want(c) \in Releases
    BY DEF ReleaseTypeOK, Server, Publication, Want
  <2>2. ReleaseTypeOK'
    <3>1. /\ server \in [Containers -> Server] /\ server[c] \in Server
          /\ store \in [Releases -> Directory] /\ store[Want(c)] \in Directory
      BY <2>1 DEF ReleaseTypeOK
    <3>2. [server[c] EXCEPT !.pc = "verifying"] \in Server
      BY <3>1 DEF Server
    <3>3. [store[Want(c)] EXCEPT !.state = "sealed"] \in Directory
      BY <3>1 DEF Directory
    <3> QED BY <1>2, <2>1, <3>1, <3>2, <3>3 DEF MakeReadOnly, ServerTo, ReleaseTypeOK
  <2>3. \A e \in Containers : /\ server'[e].loaded = server[e].loaded
                              /\ server'[e] = server[e] \/ server'[e].pc = "verifying"
    BY <1>2, GoesOn DEF MakeReadOnly
  <2>4. \A d \in Releases : store'[d].bytes = store[d].bytes
    BY <1>2, <2>1 DEF MakeReadOnly, ReleaseTypeOK, Directory
  <2> QED BY <1>2, <2>2, <2>3, <2>4, StoreStep DEF MakeReadOnly
<1>3. ASSUME NEW d \in Published, Publish(d) PROVE ReleaseInv'
  <2>1. ReleaseTypeOK'
    BY <1>3, SomeRelease, NoPublicationType DEF Publish, ReleaseTypeOK, Server, Publication, Releases
  <2>2. publisher'.pc # "verified"
    BY <1>3 DEF Publish, NoPublication
  <2> QED BY <1>3, <2>1, <2>2, StoreStep DEF Publish
<1>4. ASSUME VerifyStaged PROVE ReleaseInv'
  <2>1. ReleaseTypeOK'
    BY <1>4, NoPublicationType DEF VerifyStaged, ReleaseTypeOK, Server, Publication
  <2>2. publisher'.pc = "verified" => publisher'.copy = publisher'.want
    BY <1>4 DEF VerifyStaged, Verifies, NoPublication, ReleaseTypeOK, Server, Publication
  <2> QED BY <1>4, <2>1, <2>2, StoreStep DEF VerifyStaged
<1>5. ASSUME RenameStaged PROVE ReleaseInv'
  <2>1. ReleaseTypeOK'
    BY <1>5, NoPublicationType DEF RenameStaged, ReleaseTypeOK, Server, Publication, Directory
  <2>2. \A d \in Releases : store'[d].bytes \in {store[d].bytes, d}
    BY <1>5 DEF RenameStaged, ReleaseTypeOK, Server, Publication
  <2>3. publisher'.pc # "verified"
    BY <1>5 DEF RenameStaged, NoPublication
  <2> QED BY <1>5, <2>1, <2>2, <2>3, StoreStep DEF RenameStaged
<1>6. ASSUME KillPublisher PROVE ReleaseInv'
  <2>1. ReleaseTypeOK' /\ publisher'.pc # "verified"
    BY <1>6, NoPublicationType DEF KillPublisher, ReleaseTypeOK, Server, Publication, NoPublication
  <2> QED BY <1>6, <2>1, StoreStep DEF KillPublisher
<1>7. ASSUME NEW d \in Releases, SourceChanges(d) PROVE ReleaseInv'
  <2>1. ReleaseTypeOK'
    BY <1>7, SomeRelease DEF SourceChanges, ReleaseTypeOK, Server, Publication
  <2> QED BY <1>7, <2>1, StoreStep DEF SourceChanges
<1>8. ASSUME NEW d \in Releases, Decay(d) PROVE ReleaseInv'
  <2>1. ReleaseTypeOK'
    BY <1>8, SomeRelease DEF Decay, ReleaseTypeOK, Server, Publication, Directory
  <2>2. \A e \in Releases : e # d => store'[e].bytes = store[e].bytes
    BY <1>8 DEF Decay, ReleaseTypeOK, Server, Publication
  <2> QED BY <1>8, <2>1, <2>2, StoreStep DEF Decay
<1> QED BY <1>1, <1>2, <1>3, <1>4, <1>5, <1>6, <1>7, <1>8

LEMMA ReleaseStutter ==
    ASSUME ReleaseInv, UNCHANGED releaseVars
    PROVE  ReleaseInv'
  BY DEF releaseVars, ReleaseInv, ReleaseTypeOK, Server, Publication, BytesOf,
         ServerAt, Want, AnswersMatchDigest

\* What a copy, a verified directory and the memory of a container hold, in
\* every state.
THEOREM ReleaseInvariant == ReleaseSpec => []ReleaseInv
<1>1. ReleaseInv /\ [ReleaseNext]_releaseVars => ReleaseInv'
  BY ServingStep, DirectoryStep, ReleaseStutter DEF ReleaseNext
<1> QED BY <1>1, ReleaseStart, PTL DEF ReleaseSpec

\* Whatever the sources hold, whichever containers copy, publish, die and are
\* replaced, and however stored files decay before they are verified and after
\* they are loaded (not between the two, where nothing guards them): an answer
\* comes from the bytes of the digest its request approves (infer_one).
THEOREM AnswersAreOfTheirRelease == ReleaseSpec => []AnswersMatchDigest
<1>1. ReleaseInv => AnswersMatchDigest
  BY DEF ReleaseInv
<1> QED BY <1>1, ReleaseInvariant, PTL

-----------------------------------------------------------------------------
(***************************************************************************)
(* What EvalRun pays for and what its readers may rely on, for any number  *)
(* of calls, samples, recipes and changed images.                          *)
(***************************************************************************)

Terminal == {"completed", "interrupted", "input_error"}

\* A ledger without a recipe has no rows, and one with a recipe has all of them.
RowsOf(l) ==
    /\ l.recipe = NoRecipe => \A s \in Samples : l.state[s] = "none"
    /\ l.recipe # NoRecipe => \A s \in Samples : l.state[s] # "none"

\* What the committed ledger knows: each paid sample, and the rows compared.
VolumeInv ==
    /\ RowsOf(eval_volume)
    /\ \A s \in Samples :
          bought[s] \in {0, 1} /\ (bought[s] = 1 => eval_volume.state[s] \in Paid)
    /\ compared # NoRecipe =>
          eval_volume.state = compared /\ \A s \in Samples : compared[s] \in Terminal

\* What the copy of call c knows while the call may write: at least as much as
\* the volume.  The row of a call to the provider is there before the call.
Copy(c) ==
    /\ At(c, "opening") => eval_view[c] = eval_volume
    /\ eval_call[c].pc \in Writing =>
          /\ eval_view[c].recipe # NoRecipe /\ RowsOf(eval_view[c])
          /\ \A s \in Samples :
                /\ eval_volume.state[s] \in Terminal =>
                       eval_view[c].state[s] = eval_volume.state[s]
                /\ bought[s] = 1 => eval_view[c].state[s] \in Paid
    /\ eval_call[c].pc \in {"dispatching", "calling", "answered"} =>
          /\ eval_call[c].sample \in Samples
          /\ eval_view[c].state[eval_call[c].sample] = "dispatched"
    /\ eval_call[c].pc \in {"dispatching", "calling"} => bought[eval_call[c].sample] = 0
    /\ At(c, "calling") => eval_volume.state[eval_call[c].sample] \in Paid

\* Whoever works on the directory holds its claim.
Holds(c) ==
    /\ eval_call[c].pc \in Working => eval_owner = c
    /\ eval_call[c].pc \in {"started"} \cup Working => eval_call[c].recipe \in Recipes

EvalInv ==
    /\ EvalTypeOK
    /\ VolumeInv
    /\ \A c \in Calls : Holds(c) /\ Copy(c)

PCs == {"new", "started", "refused", "done"} \cup Working \cup Over

LEMMA NoLedgerType == NoLedger \in Ledger
  BY EvalAssumption DEF NoLedger, Ledger, State

LEMMA EvalStart == EvalInit => EvalInv
<1> SUFFICES ASSUME EvalInit PROVE EvalInv
  OBVIOUS
<1>1. 1 \in 0 .. MaxChanges + 1
  BY EvalAssumption
<1>2. EvalTypeOK
  BY <1>1, NoLedgerType, EvalAssumption
  DEF EvalInit, EvalTypeOK, EvalCall, NewCall
<1>3. VolumeInv
  BY DEF EvalInit, VolumeInv, RowsOf, NoLedger
<1>4. \A c \in Calls : eval_call[c].pc = "new"
  BY DEF EvalInit, NewCall
<1>5. \A c \in Calls : Holds(c) /\ Copy(c)
  BY <1>4 DEF Holds, Copy, At, Working, Writing
<1> QED BY <1>2, <1>3, <1>5 DEF EvalInv

-----------------------------------------------------------------------------
(* What a step of one call leaves of the others                            *)

\* Only the holder of the claim works, so no step of another call can disturb
\* the copy of one that does.
LEMMA CallStep ==
    ASSUME EvalInv, NEW c \in Calls, EvalTypeOK', VolumeInv', Holds(c)', Copy(c)',
           \A e \in Calls \ {c} : eval_call'[e] = eval_call[e] /\ eval_view'[e] = eval_view[e],
           UNCHANGED <<eval_volume, bought>> \/ eval_call[c].pc \in Working,
           eval_owner' = eval_owner \/ eval_owner \in {NoCall, c}
    PROVE  EvalInv'
<1>1. ASSUME NEW e \in Calls \ {c} PROVE Holds(e)' /\ Copy(e)'
  <2>1. CASE eval_call[e].pc \in Working
    <3>1. eval_owner = e /\ eval_owner # NoCall /\ eval_owner # c
      BY <2>1, EvalAssumption DEF EvalInv, Holds
    <3>2. eval_call[c].pc \notin Working /\ eval_owner' = e
      BY <3>1 DEF EvalInv, Holds
    <3>3. UNCHANGED <<eval_volume, bought>>
      BY <3>2
    <3> QED BY <3>1, <3>2, <3>3 DEF EvalInv, Holds, Copy, At
  <2>2. CASE eval_call[e].pc \notin Working
    BY <2>2 DEF EvalInv, Holds, Copy, At, Working, Writing
  <2> QED BY <2>1, <2>2
<1> QED BY <1>1 DEF EvalInv

LEMMA GotoStep ==
    ASSUME EvalTypeOK, NEW c \in Calls, NEW p \in PCs, Goto(c, p)
    PROVE  /\ eval_call' \in [Calls -> EvalCall]
           /\ \A e \in Calls \ {c} : eval_call'[e] = eval_call[e]
           /\ eval_call'[c].pc = p
           /\ eval_call'[c].recipe = eval_call[c].recipe
           /\ eval_call'[c].sample = eval_call[c].sample
<1>1. eval_call \in [Calls -> EvalCall] /\ eval_call[c] \in EvalCall
  BY DEF EvalTypeOK
<1>2. [eval_call[c] EXCEPT !.pc = p] \in EvalCall
  BY <1>1 DEF EvalCall, PCs
<1> QED BY <1>1, <1>2 DEF Goto, EvalCall

LEMMA EndStep ==
    ASSUME EvalTypeOK, NEW c \in Calls, NEW p \in PCs, End(c, p)
    PROVE  /\ eval_call' \in [Calls -> EvalCall] /\ eval_view' \in [Calls -> Ledger]
           /\ \A e \in Calls \ {c} :
                 eval_call'[e] = eval_call[e] /\ eval_view'[e] = eval_view[e]
           /\ eval_call'[c].pc = p
<1>1. [NewCall EXCEPT !.pc = p] \in EvalCall /\ [NewCall EXCEPT !.pc = p].pc = p
  BY DEF NewCall, EvalCall, PCs
<1> QED BY <1>1, NoLedgerType DEF End, EvalTypeOK

\* A call that has ended holds nothing and knows nothing.
LEMMA EndedCall ==
    ASSUME NEW c \in Calls, eval_call'[c].pc \in {"refused", "done", "failed", "dead"}
    PROVE  Holds(c)' /\ Copy(c)'
  BY DEF Holds, Copy, At, Working, Writing

\* A row of the copy of call c gets a new state.
LEMMA LedgerRowStep ==
    ASSUME EvalTypeOK, NEW c \in Calls, NEW s \in Samples, NEW x \in State, Row(c, s, x)
    PROVE  /\ eval_view' \in [Calls -> Ledger]
           /\ \A e \in Calls \ {c} : eval_view'[e] = eval_view[e]
           /\ eval_view'[c].recipe = eval_view[c].recipe
           /\ eval_view'[c].state[s] = x
           /\ \A t \in Samples \ {s} : eval_view'[c].state[t] = eval_view[c].state[t]
<1> DEFINE state == [eval_view[c].state EXCEPT ![s] = x]
           l == [eval_view[c] EXCEPT !.state = state]
<1>1. eval_view \in [Calls -> Ledger] /\ eval_view[c] \in Ledger
  BY DEF EvalTypeOK
<1>2. state \in [Samples -> State]
  BY <1>1 DEF Ledger
<1>3. l \in Ledger /\ l.state = state /\ l.recipe = eval_view[c].recipe
  BY <1>1, <1>2 DEF Ledger
<1>4. eval_view' = [eval_view EXCEPT ![c] = l]
  BY <1>1 DEF Row
<1>5. eval_view'[c] = l /\ eval_view' \in [Calls -> Ledger]
      /\ \A e \in Calls \ {c} : eval_view'[e] = eval_view[e]
  BY <1>1, <1>3, <1>4
<1>6. eval_view[c].state \in [Samples -> State]
  BY <1>1 DEF Ledger
<1>7. state[s] = x /\ \A t \in Samples \ {s} : state[t] = eval_view[c].state[t]
  BY <1>6
<1> QED BY <1>3, <1>5, <1>7

-----------------------------------------------------------------------------
(* The steps of a call, in three groups: those that leave the volume alone, *)
(* those that carry the call's copy to it, and the call of the provider     *)

\* The rows of a copy are functions of the samples.
LEMMA Types ==
    ASSUME EvalTypeOK, NEW c \in Calls
    PROVE  /\ eval_call[c] \in EvalCall
           /\ eval_view[c] \in Ledger /\ eval_view[c].state \in [Samples -> State]
           /\ eval_volume \in Ledger /\ eval_volume.state \in [Samples -> State]
<1>1. eval_view[c] \in Ledger /\ eval_volume \in Ledger /\ eval_call[c] \in EvalCall
  BY DEF EvalTypeOK
<1> QED BY <1>1 DEF Ledger

LEMMA StartEvalStep ==
    ASSUME EvalInv, NEW c \in Calls, StartEval(c) PROVE EvalInv'
<1>1. PICK r \in Recipes :
          eval_call' = [eval_call EXCEPT ![c].pc = "started", ![c].recipe = r]
  BY DEF StartEval
<1>2. eval_call[c] \in EvalCall /\ eval_volume \in Ledger
  BY Types DEF EvalInv
<1>3. [eval_call[c] EXCEPT !.pc = "started", !.recipe = r] \in EvalCall
  BY <1>2 DEF EvalCall
<1>4. /\ eval_call' \in [Calls -> EvalCall]
      /\ eval_call'[c].pc = "started" /\ eval_call'[c].recipe = r
      /\ \A e \in Calls \ {c} : eval_call'[e] = eval_call[e]
  BY <1>1, <1>2, <1>3 DEF EvalInv, EvalTypeOK, EvalCall
<1>5. eval_view' \in [Calls -> Ledger]
      /\ \A e \in Calls \ {c} : eval_view'[e] = eval_view[e]
  BY <1>2 DEF StartEval, EvalInv, EvalTypeOK
<1>6. EvalTypeOK'
  BY <1>4, <1>5 DEF StartEval, EvalInv, EvalTypeOK
<1>7. VolumeInv'
  BY DEF StartEval, EvalInv, VolumeInv, RowsOf
<1>8. Holds(c)' /\ Copy(c)'
  BY <1>4 DEF Holds, Copy, At, Working, Writing
<1> QED BY <1>4, <1>5, <1>6, <1>7, <1>8, CallStep DEF StartEval

LEMMA ClaimDirectoryStep ==
    ASSUME EvalInv, NEW c \in Calls, ClaimDirectory(c) PROVE EvalInv'
<1>1. EvalTypeOK
  BY DEF EvalInv
<1>2. VolumeInv'
  BY DEF ClaimDirectory, EvalInv, VolumeInv, RowsOf
<1>3. CASE eval_owner = NoCall
  <2>1. eval_owner' = c /\ Goto(c, "claimed") /\ UNCHANGED eval_view
    BY <1>3 DEF ClaimDirectory
  <2>2. "claimed" \in PCs
    BY DEF PCs, Working
  <2>3. /\ eval_call' \in [Calls -> EvalCall] /\ eval_call'[c].pc = "claimed"
        /\ \A e \in Calls \ {c} : eval_call'[e] = eval_call[e]
        /\ eval_call'[c].recipe = eval_call[c].recipe
    BY <1>1, <2>1, <2>2, GotoStep
  <2>4. EvalTypeOK'
    BY <2>1, <2>3 DEF ClaimDirectory, EvalInv, EvalTypeOK
  <2>5. Holds(c)' /\ Copy(c)'
    BY <2>1, <2>3 DEF ClaimDirectory, EvalInv, Holds, Copy, At, Working, Writing
  <2> QED BY <1>2, <1>3, <2>1, <2>3, <2>4, <2>5, CallStep DEF ClaimDirectory
<1>4. CASE eval_owner # NoCall
  <2>1. End(c, "refused") /\ UNCHANGED eval_owner
    BY <1>4 DEF ClaimDirectory
  <2>2. "refused" \in PCs
    BY DEF PCs
  <2>3. /\ eval_call' \in [Calls -> EvalCall] /\ eval_view' \in [Calls -> Ledger]
        /\ \A e \in Calls \ {c} :
              eval_call'[e] = eval_call[e] /\ eval_view'[e] = eval_view[e]
        /\ eval_call'[c].pc = "refused"
    BY <1>1, <2>1, <2>2, EndStep
  <2>4. EvalTypeOK'
    BY <2>1, <2>3 DEF ClaimDirectory, EvalInv, EvalTypeOK
  <2>5. Holds(c)' /\ Copy(c)'
    BY <2>3, EndedCall
  <2> QED BY <1>2, <2>1, <2>3, <2>4, <2>5, CallStep DEF ClaimDirectory
<1> QED BY <1>3, <1>4

LEMMA ReloadStep ==
    ASSUME EvalInv, NEW c \in Calls, Reload(c) PROVE EvalInv'
<1>1. "opening" \in PCs
  BY DEF PCs, Working
<1>2. EvalTypeOK /\ eval_volume \in Ledger
  BY Types DEF EvalInv
<1>3. /\ eval_call' \in [Calls -> EvalCall] /\ eval_call'[c].pc = "opening"
      /\ \A e \in Calls \ {c} : eval_call'[e] = eval_call[e]
      /\ eval_call'[c].recipe = eval_call[c].recipe
  BY <1>1, <1>2, GotoStep DEF Reload
<1>4. /\ eval_view' \in [Calls -> Ledger] /\ eval_view'[c] = eval_volume
      /\ \A e \in Calls \ {c} : eval_view'[e] = eval_view[e]
  BY <1>2 DEF Reload, EvalTypeOK
<1>5. EvalTypeOK' /\ VolumeInv'
  BY <1>3, <1>4 DEF Reload, EvalInv, EvalTypeOK, VolumeInv, RowsOf
<1>6. Holds(c)' /\ Copy(c)'
  BY <1>3, <1>4 DEF Reload, EvalInv, Holds, Copy, At, Working, Writing
<1> QED BY <1>3, <1>4, <1>5, <1>6, CallStep DEF Reload

\* The ledger of a call that has just opened it.
LEMMA Opened ==
    ASSUME EvalInv, NEW c \in Calls, At(c, "opening"),
           Goto(c, "publishing"), NEW l \in Ledger,
           eval_view' = [eval_view EXCEPT ![c] = l],
           UNCHANGED <<eval_owner, eval_volume, image, bought, compared>>,
           l.recipe # NoRecipe, RowsOf(l),
           \A s \in Samples :
              /\ eval_volume.state[s] \in Terminal => l.state[s] = eval_volume.state[s]
              /\ bought[s] = 1 => l.state[s] \in Paid
    PROVE  EvalInv'
<1>1. "publishing" \in PCs
  BY DEF PCs, Working, Writing
<1>2. EvalTypeOK
  BY DEF EvalInv
<1>3. /\ eval_call' \in [Calls -> EvalCall] /\ eval_call'[c].pc = "publishing"
      /\ \A e \in Calls \ {c} : eval_call'[e] = eval_call[e]
      /\ eval_call'[c].recipe = eval_call[c].recipe
  BY <1>1, <1>2, GotoStep
<1>4. /\ eval_view' \in [Calls -> Ledger] /\ eval_view'[c] = l
      /\ \A e \in Calls \ {c} : eval_view'[e] = eval_view[e]
  BY <1>2 DEF EvalTypeOK
<1>5. EvalTypeOK' /\ VolumeInv'
  BY <1>3, <1>4 DEF EvalInv, EvalTypeOK, VolumeInv, RowsOf
<1>6. Holds(c)'
  BY <1>3 DEF EvalInv, Holds, At, Working, Writing
<1>7. Copy(c)'
  BY <1>3, <1>4 DEF Copy, At, Writing, RowsOf
<1> QED BY <1>3, <1>4, <1>5, <1>6, <1>7, CallStep DEF At

LEMMA OpenLedgerStep ==
    ASSUME EvalInv, NEW c \in Calls, OpenLedger(c) PROVE EvalInv'
<1> DEFINE l == eval_view[c]
           r == eval_call[c].recipe
<1>1. /\ EvalTypeOK /\ At(c, "opening") /\ l = eval_volume /\ r \in Recipes
      /\ UNCHANGED <<eval_owner, eval_volume, image, bought, compared>>
  BY DEF OpenLedger, EvalInv, Copy, Holds, At, Working
<1>2. r # NoRecipe
  BY <1>1, EvalAssumption
<1>3. CASE /\ l.recipe = NoRecipe
           /\ eval_view' = [eval_view EXCEPT ![c] = Scheduled(r)]
           /\ Goto(c, "publishing")
  <2>1. /\ Scheduled(r) \in Ledger /\ Scheduled(r).recipe = r
        /\ \A s \in Samples : Scheduled(r).state[s] = "pending"
    BY <1>1 DEF EvalTypeOK, Scheduled, Ledger, State
  <2>2. RowsOf(Scheduled(r))
    BY <1>2, <2>1 DEF RowsOf
  <2>3. \A s \in Samples : eval_volume.state[s] = "none"
    BY <1>1, <1>3 DEF EvalInv, VolumeInv, RowsOf
  <2>4. \A s \in Samples : eval_volume.state[s] \notin Terminal /\ bought[s] # 1
    BY <2>3 DEF EvalInv, VolumeInv, Terminal, Paid
  <2> QED BY <1>1, <1>2, <1>3, <2>1, <2>2, <2>4, Opened
<1>4. CASE /\ l.recipe = r /\ l.images = image
           /\ eval_view' = [eval_view EXCEPT ![c] = Recovered(l)]
           /\ Goto(c, "publishing")
  <2>1. l \in Ledger /\ l.state \in [Samples -> State]
    BY <1>1, Types
  <2>2. /\ Recovered(l) \in Ledger /\ Recovered(l).recipe = r
        /\ \A s \in Samples : Recovered(l).state[s] =
              IF l.state[s] = "dispatched" THEN "interrupted" ELSE l.state[s]
    BY <1>4, <2>1 DEF Recovered, Ledger, State
  <2>3. \A s \in Samples : l.state[s] # "none"
    BY <1>1, <1>2, <1>4 DEF EvalInv, VolumeInv, RowsOf
  <2>4. RowsOf(Recovered(l))
    BY <1>2, <2>2, <2>3 DEF RowsOf
  <2>5. \A s \in Samples :
           /\ eval_volume.state[s] \in Terminal =>
                  Recovered(l).state[s] = eval_volume.state[s]
           /\ bought[s] = 1 => Recovered(l).state[s] \in Paid
    BY <1>1, <2>2 DEF EvalInv, VolumeInv, Terminal, Paid
  <2> QED BY <1>1, <1>2, <1>4, <2>2, <2>4, <2>5, Opened
<1>5. CASE End(c, "failed")
  <2>1. "failed" \in PCs
    BY DEF PCs, Over
  <2>2. /\ eval_call' \in [Calls -> EvalCall] /\ eval_view' \in [Calls -> Ledger]
        /\ \A e \in Calls \ {c} :
              eval_call'[e] = eval_call[e] /\ eval_view'[e] = eval_view[e]
        /\ eval_call'[c].pc = "failed"
    BY <1>1, <1>5, <2>1, EndStep
  <2>3. EvalTypeOK' /\ VolumeInv'
    BY <1>1, <2>2 DEF EvalInv, EvalTypeOK, VolumeInv, RowsOf
  <2>4. Holds(c)' /\ Copy(c)'
    BY <2>2, EndedCall
  <2> QED BY <1>1, <2>2, <2>3, <2>4, CallStep
<1> QED BY <1>3, <1>4, <1>5 DEF OpenLedger

LEMMA NextSampleStep ==
    ASSUME EvalInv, NEW c \in Calls, NextSample(c) PROVE EvalInv'
<1>1. EvalTypeOK /\ At(c, "next")
      /\ UNCHANGED <<eval_owner, eval_volume, image, bought, compared>>
  BY DEF EvalInv, NextSample
<1>2. PICK s \in Pending(eval_view[c]) :
          \/ /\ Row(c, s, "dispatched")
             /\ eval_call' = [eval_call EXCEPT ![c].pc = "dispatching", ![c].sample = s]
          \/ /\ Row(c, s, "input_error")
             /\ Goto(c, "recording")
  BY DEF NextSample
<1>3. s \in Samples /\ eval_view[c].state[s] = "pending"
  BY <1>2 DEF Pending
<1>4. /\ eval_call[c].pc \in Working /\ eval_view[c].recipe # NoRecipe
      /\ RowsOf(eval_view[c])
      /\ \A t \in Samples :
            /\ eval_volume.state[t] \in Terminal =>
                   eval_view[c].state[t] = eval_volume.state[t]
            /\ bought[t] = 1 => eval_view[c].state[t] \in Paid
  BY <1>1 DEF EvalInv, Copy, At, Working, Writing
<1>5. eval_volume.state[s] \notin Terminal /\ bought[s] = 0
  BY <1>3, <1>4 DEF EvalInv, VolumeInv, Terminal, Paid
<1>6. CASE /\ Row(c, s, "dispatched")
           /\ eval_call' = [eval_call EXCEPT ![c].pc = "dispatching", ![c].sample = s]
  <2>1. "dispatched" \in State
    BY DEF State
  <2>2. /\ eval_view' \in [Calls -> Ledger]
        /\ \A e \in Calls \ {c} : eval_view'[e] = eval_view[e]
        /\ eval_view'[c].recipe = eval_view[c].recipe
        /\ eval_view'[c].state[s] = "dispatched"
        /\ \A t \in Samples \ {s} : eval_view'[c].state[t] = eval_view[c].state[t]
    BY <1>1, <1>3, <1>6, <2>1, LedgerRowStep
  <2>3. [eval_call[c] EXCEPT !.pc = "dispatching", !.sample = s] \in EvalCall
    BY <1>1, <1>3 DEF EvalTypeOK, EvalCall, Working, Writing
  <2>4. /\ eval_call' \in [Calls -> EvalCall]
        /\ eval_call'[c].pc = "dispatching" /\ eval_call'[c].sample = s
        /\ eval_call'[c].recipe = eval_call[c].recipe
        /\ \A e \in Calls \ {c} : eval_call'[e] = eval_call[e]
    BY <1>1, <1>6, <2>3 DEF EvalTypeOK, EvalCall
  <2>5. EvalTypeOK' /\ VolumeInv'
    BY <1>1, <2>2, <2>4 DEF EvalInv, EvalTypeOK, VolumeInv, RowsOf
  <2>6. Holds(c)'
    BY <1>1, <1>4, <2>4 DEF EvalInv, Holds
  <2>7. RowsOf(eval_view'[c])
    BY <1>4, <2>2 DEF RowsOf
  <2>8. Copy(c)'
    BY <1>1, <1>3, <1>4, <1>5, <2>2, <2>4, <2>7 DEF Copy, At, Writing, Paid, RowsOf
  <2> QED BY <1>1, <2>2, <2>4, <2>5, <2>6, <2>8, CallStep
<1>7. CASE Row(c, s, "input_error") /\ Goto(c, "recording")
  <2>1. "input_error" \in State /\ "recording" \in PCs
    BY DEF State, PCs, Working, Writing
  <2>2. /\ eval_view' \in [Calls -> Ledger]
        /\ \A e \in Calls \ {c} : eval_view'[e] = eval_view[e]
        /\ eval_view'[c].recipe = eval_view[c].recipe
        /\ eval_view'[c].state[s] = "input_error"
        /\ \A t \in Samples \ {s} : eval_view'[c].state[t] = eval_view[c].state[t]
    BY <1>1, <1>3, <1>7, <2>1, LedgerRowStep
  <2>3. /\ eval_call' \in [Calls -> EvalCall] /\ eval_call'[c].pc = "recording"
        /\ \A e \in Calls \ {c} : eval_call'[e] = eval_call[e]
        /\ eval_call'[c].recipe = eval_call[c].recipe
    BY <1>1, <1>7, <2>1, GotoStep
  <2>4. EvalTypeOK' /\ VolumeInv'
    BY <1>1, <2>2, <2>3 DEF EvalInv, EvalTypeOK, VolumeInv, RowsOf
  <2>5. Holds(c)'
    BY <1>1, <1>4, <2>3 DEF EvalInv, Holds
  <2>6. RowsOf(eval_view'[c])
    BY <1>4, <2>2 DEF RowsOf
  <2>7. Copy(c)'
    BY <1>1, <1>3, <1>4, <1>5, <2>2, <2>3, <2>6 DEF Copy, At, Writing, RowsOf
  <2> QED BY <1>1, <2>2, <2>3, <2>4, <2>5, <2>7, CallStep
<1> QED BY <1>2, <1>6, <1>7

\* The paid call: the row that says so is in the volume already.
LEMMA CallProviderStep ==
    ASSUME EvalInv, NEW c \in Calls, CallProvider(c) PROVE EvalInv'
<1> DEFINE s == eval_call[c].sample
<1>1. /\ EvalTypeOK /\ At(c, "calling") /\ bought' = [bought EXCEPT ![s] = @ + 1]
      /\ UNCHANGED <<eval_owner, eval_volume, eval_view, image, compared>>
  BY DEF EvalInv, CallProvider
<1>2. /\ s \in Samples /\ bought[s] = 0 /\ eval_volume.state[s] \in Paid
      /\ eval_view[c].state[s] = "dispatched"
  BY <1>1 DEF EvalInv, Copy, At
<1>3. "answered" \in PCs /\ eval_call[c].pc \in Working
  BY <1>1 DEF PCs, Working, Writing, At
<1>4. /\ eval_call' \in [Calls -> EvalCall] /\ eval_call'[c].pc = "answered"
      /\ \A e \in Calls \ {c} : eval_call'[e] = eval_call[e]
      /\ eval_call'[c].recipe = eval_call[c].recipe
      /\ eval_call'[c].sample = s
  BY <1>1, <1>3, GotoStep DEF CallProvider
<1>5. /\ bought' \in [Samples -> Nat] /\ bought'[s] = 1
      /\ \A t \in Samples \ {s} : bought'[t] = bought[t]
  BY <1>1, <1>2 DEF EvalTypeOK
<1>6. EvalTypeOK'
  BY <1>1, <1>4, <1>5 DEF EvalTypeOK
<1>7. VolumeInv'
  BY <1>1, <1>2, <1>5 DEF EvalInv, VolumeInv, RowsOf
<1>8. Holds(c)'
  BY <1>1, <1>3, <1>4 DEF EvalInv, Holds
<1>9. Copy(c)'
  BY <1>1, <1>2, <1>4, <1>5 DEF EvalInv, Copy, At, Writing, Paid, RowsOf
<1> QED BY <1>1, <1>3, <1>4, <1>6, <1>7, <1>8, <1>9, CallStep

LEMMA CompleteStep ==
    ASSUME EvalInv, NEW c \in Calls, Complete(c) PROVE EvalInv'
<1> DEFINE s == eval_call[c].sample
<1>1. /\ EvalTypeOK /\ At(c, "answered") /\ Row(c, s, "completed")
      /\ UNCHANGED <<eval_owner, eval_volume, image, bought, compared>>
  BY DEF EvalInv, Complete
<1>2. s \in Samples /\ eval_view[c].state[s] = "dispatched"
  BY <1>1 DEF EvalInv, Copy, At
<1>3. /\ eval_call[c].pc \in Working /\ eval_view[c].recipe # NoRecipe
      /\ RowsOf(eval_view[c])
      /\ \A t \in Samples :
            /\ eval_volume.state[t] \in Terminal =>
                   eval_view[c].state[t] = eval_volume.state[t]
            /\ bought[t] = 1 => eval_view[c].state[t] \in Paid
  BY <1>1 DEF EvalInv, Copy, At, Working, Writing
<1>4. eval_volume.state[s] \notin Terminal
  BY <1>2, <1>3 DEF Terminal
<1>5. "completed" \in State /\ "recording" \in PCs
  BY DEF State, PCs, Working, Writing
<1>6. /\ eval_view' \in [Calls -> Ledger]
      /\ \A e \in Calls \ {c} : eval_view'[e] = eval_view[e]
      /\ eval_view'[c].recipe = eval_view[c].recipe
      /\ eval_view'[c].state[s] = "completed"
      /\ \A t \in Samples \ {s} : eval_view'[c].state[t] = eval_view[c].state[t]
  BY <1>1, <1>2, <1>5, LedgerRowStep
<1>7. /\ eval_call' \in [Calls -> EvalCall] /\ eval_call'[c].pc = "recording"
      /\ \A e \in Calls \ {c} : eval_call'[e] = eval_call[e]
      /\ eval_call'[c].recipe = eval_call[c].recipe
  BY <1>1, <1>5, GotoStep DEF Complete
<1>8. EvalTypeOK' /\ VolumeInv'
  BY <1>1, <1>6, <1>7 DEF EvalInv, EvalTypeOK, VolumeInv, RowsOf
<1>9. Holds(c)'
  BY <1>1, <1>3, <1>7 DEF EvalInv, Holds
<1>10. RowsOf(eval_view'[c])
  BY <1>3, <1>6 DEF RowsOf
<1>11. Copy(c)'
  BY <1>1, <1>2, <1>3, <1>4, <1>6, <1>7, <1>10 DEF Copy, At, Writing, Paid, RowsOf
<1> QED BY <1>1, <1>6, <1>7, <1>8, <1>9, <1>11, CallStep

LEMMA FinishSamplesStep ==
    ASSUME EvalInv, NEW c \in Calls, FinishSamples(c) PROVE EvalInv'
<1>1. /\ EvalTypeOK /\ At(c, "next")
      /\ UNCHANGED <<eval_owner, eval_volume, eval_view, image, bought, compared>>
  BY DEF EvalInv, FinishSamples
<1>2. "closing" \in PCs /\ eval_call[c].pc \in Working
  BY <1>1 DEF PCs, Working, Writing, At
<1>3. /\ eval_call' \in [Calls -> EvalCall] /\ eval_call'[c].pc = "closing"
      /\ \A e \in Calls \ {c} : eval_call'[e] = eval_call[e]
      /\ eval_call'[c].recipe = eval_call[c].recipe
  BY <1>1, <1>2, GotoStep DEF FinishSamples
<1>4. EvalTypeOK' /\ VolumeInv'
  BY <1>1, <1>3 DEF EvalInv, EvalTypeOK, VolumeInv, RowsOf
<1>5. Holds(c)' /\ Copy(c)'
  BY <1>1, <1>2, <1>3 DEF EvalInv, Holds, Copy, At, Writing, RowsOf
<1> QED BY <1>1, <1>3, <1>4, <1>5, CallStep

-----------------------------------------------------------------------------
(* What reaches the volume                                                  *)

\* A copy that may be committed carries over every row a comparison has used
\* and every row that was paid for.
LEMMA Committed ==
    ASSUME EvalInv, NEW c \in Calls, eval_call[c].pc \in Writing,
           eval_volume' \in {eval_volume, eval_view[c]},
           UNCHANGED <<bought, compared>>
    PROVE  VolumeInv' /\ eval_volume' \in Ledger
<1>1. /\ eval_view[c] \in Ledger /\ eval_view[c].state \in [Samples -> State]
      /\ eval_volume \in Ledger /\ eval_volume.state \in [Samples -> State]
  BY Types DEF EvalInv
<1>2. CASE eval_volume' = eval_volume
  BY <1>1, <1>2 DEF EvalInv, VolumeInv, RowsOf
<1>3. CASE eval_volume' = eval_view[c]
  <2>1. /\ RowsOf(eval_view[c])
        /\ \A s \in Samples :
              /\ eval_volume.state[s] \in Terminal =>
                     eval_view[c].state[s] = eval_volume.state[s]
              /\ bought[s] = 1 => eval_view[c].state[s] \in Paid
    BY DEF EvalInv, Copy
  <2>2. ASSUME compared # NoRecipe PROVE eval_view[c].state = compared
    <3>1. /\ eval_volume.state = compared
          /\ \A s \in Samples : eval_volume.state[s] \in Terminal
      BY <2>2 DEF EvalInv, VolumeInv
    <3>2. \A s \in Samples : eval_view[c].state[s] = eval_volume.state[s]
      BY <2>1, <3>1
    <3> QED BY <1>1, <3>1, <3>2
  <2>3. RowsOf(eval_volume)'
    BY <1>3, <2>1 DEF RowsOf
  <2> QED BY <1>1, <1>3, <2>1, <2>2, <2>3 DEF EvalInv, VolumeInv
<1> QED BY <1>2, <1>3

\* A call that goes on after what it wrote has, or may have, been committed.
LEMMA CommittedStep ==
    ASSUME EvalInv, NEW c \in Calls, eval_call[c].pc \in Writing, NEW p \in Writing,
           Goto(c, p), eval_volume' \in {eval_volume, eval_view[c]},
           UNCHANGED <<eval_owner, eval_view, image, bought, compared>>,
           p \notin {"dispatching", "answered"},
           p = "calling" => At(c, "dispatching") /\ eval_volume' = eval_view[c]
    PROVE  EvalInv'
<1>1. EvalTypeOK /\ p \in PCs /\ eval_call[c].pc \in Working
  BY DEF EvalInv, PCs, Working
<1>2. /\ eval_call' \in [Calls -> EvalCall] /\ eval_call'[c].pc = p
      /\ \A e \in Calls \ {c} : eval_call'[e] = eval_call[e]
      /\ eval_call'[c].recipe = eval_call[c].recipe
      /\ eval_call'[c].sample = eval_call[c].sample
  BY <1>1, GotoStep
<1>3. VolumeInv' /\ eval_volume' \in Ledger
  BY Committed
<1>4. EvalTypeOK'
  BY <1>1, <1>2, <1>3 DEF EvalTypeOK
<1>5. Holds(c)'
  BY <1>1, <1>2 DEF EvalInv, Holds
<1>6. Copy(c)'
  <2>1. /\ eval_view[c].recipe # NoRecipe /\ RowsOf(eval_view[c])
        /\ \A s \in Samples :
              /\ eval_volume.state[s] \in Terminal =>
                     eval_view[c].state[s] = eval_volume.state[s]
              /\ bought[s] = 1 => eval_view[c].state[s] \in Paid
    BY DEF EvalInv, Copy
  <2>2. eval_view'[c].recipe # NoRecipe /\ RowsOf(eval_view[c])'
        /\ \A s \in Samples :
              /\ eval_volume'.state[s] \in Terminal =>
                     eval_view'[c].state[s] = eval_volume'.state[s]
              /\ bought'[s] = 1 => eval_view'[c].state[s] \in Paid
    BY <2>1 DEF RowsOf
  <2>3. p # "opening"
    BY DEF Writing
  <2>4. CASE p # "calling"
    BY <1>2, <2>2, <2>3, <2>4 DEF Copy, At
  <2>5. CASE p = "calling"
    <3>1. /\ eval_call[c].sample \in Samples /\ bought[eval_call[c].sample] = 0
          /\ eval_view[c].state[eval_call[c].sample] = "dispatched"
      BY <2>5 DEF EvalInv, Copy, At
    <3> QED BY <1>2, <2>2, <2>5, <3>1 DEF Copy, At, Paid
  <2> QED BY <2>4, <2>5
<1> QED BY <1>1, <1>2, <1>3, <1>4, <1>5, <1>6, CallStep

\* A call that ends after what it wrote has, or may have, been committed.
LEMMA CommittedEnd ==
    ASSUME EvalInv, NEW c \in Calls, eval_call[c].pc \in Writing,
           NEW p \in {"done", "failed"}, End(c, p),
           eval_volume' \in {eval_volume, eval_view[c]},
           eval_owner' = eval_owner \/ (eval_owner = c /\ eval_owner' = NoCall),
           UNCHANGED <<image, bought, compared>>
    PROVE  EvalInv'
<1>1. EvalTypeOK /\ p \in PCs /\ eval_call[c].pc \in Working
  BY DEF EvalInv, PCs, Over, Working
<1>2. /\ eval_call' \in [Calls -> EvalCall] /\ eval_view' \in [Calls -> Ledger]
      /\ \A e \in Calls \ {c} :
            eval_call'[e] = eval_call[e] /\ eval_view'[e] = eval_view[e]
      /\ eval_call'[c].pc = p
  BY <1>1, EndStep
<1>3. VolumeInv' /\ eval_volume' \in Ledger
  BY Committed
<1>4. EvalTypeOK'
  BY <1>1, <1>2, <1>3 DEF EvalTypeOK
<1>5. Holds(c)' /\ Copy(c)'
  BY <1>2, EndedCall
<1> QED BY <1>1, <1>2, <1>3, <1>4, <1>5, CallStep

LEMMA CommitStep ==
    ASSUME EvalInv, NEW c \in Calls, Commit(c) PROVE EvalInv'
<1>1. /\ eval_call[c].pc \in {"publishing", "dispatching", "recording", "closing", "aborting"}
      /\ eval_volume' = eval_view[c]
      /\ UNCHANGED <<eval_owner, image, bought, compared>>
  BY DEF Commit, AfterCommit
<1>2. eval_call[c].pc \in Writing
  BY <1>1 DEF Writing
<1>3. CASE eval_call[c].pc = "aborting"
  BY <1>1, <1>2, <1>3, CommittedEnd DEF Commit, AfterCommit
<1>4. CASE eval_call[c].pc # "aborting"
  <2> DEFINE p == AfterCommit[eval_call[c].pc]
  <2>1. /\ p \in {"next", "calling", "closed"}
        /\ p = "calling" => At(c, "dispatching")
    BY <1>1, <1>4 DEF AfterCommit, At
  <2>2. Goto(c, p) /\ UNCHANGED eval_view
    BY <2>1 DEF Commit
  <2>3. p \in Writing /\ p \notin {"dispatching", "answered"}
    BY <2>1 DEF Writing
  <2> HIDE DEF p
  <2> QED BY <1>1, <1>2, <2>1, <2>2, <2>3, CommittedStep
<1> QED BY <1>3, <1>4

LEMMA CommitFailsStep ==
    ASSUME EvalInv, NEW c \in Calls, CommitFails(c) PROVE EvalInv'
<1>1. /\ eval_call[c].pc \in {"publishing", "dispatching", "recording", "closing", "aborting"}
      /\ eval_volume' \in {eval_volume, eval_view[c]}
      /\ UNCHANGED <<eval_owner, image, bought, compared>>
  BY DEF CommitFails, AfterCommit
<1>2. eval_call[c].pc \in Writing
  BY <1>1 DEF Writing
<1>3. CASE eval_call[c].pc \in {"closing", "aborting"}
  BY <1>1, <1>2, <1>3, CommittedEnd DEF CommitFails
<1>4. CASE eval_call[c].pc \notin {"closing", "aborting"}
  <2>1. Goto(c, "aborting") /\ UNCHANGED eval_view
    BY <1>4 DEF CommitFails
  <2>2. "aborting" \in Writing
    BY DEF Writing
  <2> QED BY <1>1, <1>2, <2>1, <2>2, CommittedStep
<1> QED BY <1>3, <1>4

LEMMA ReleaseDirectoryStep ==
    ASSUME EvalInv, NEW c \in Calls, ReleaseDirectory(c) PROVE EvalInv'
<1>1. eval_call[c].pc \in Writing
  BY DEF ReleaseDirectory, At, Writing
<1> QED BY <1>1, CommittedEnd DEF ReleaseDirectory

LEMMA WriteThroughStep ==
    ASSUME EvalInv, NEW c \in Calls, WriteThrough(c) PROVE EvalInv'
<1>1. /\ eval_call[c].pc \in Writing /\ eval_volume' = eval_view[c]
      /\ UNCHANGED <<eval_owner, eval_view, eval_call, image, bought, compared>>
  BY DEF WriteThrough
<1>2. EvalTypeOK /\ eval_call[c].pc \in Working
  BY <1>1 DEF EvalInv, Working
<1>3. VolumeInv' /\ eval_volume' \in Ledger
  BY <1>1, Committed
<1>4. EvalTypeOK'
  BY <1>1, <1>2, <1>3 DEF EvalTypeOK
<1>5. Holds(c)'
  BY <1>1 DEF EvalInv, Holds
<1>6. Copy(c)'
  BY <1>1 DEF EvalInv, Copy, At, Paid, RowsOf
<1> QED BY <1>1, <1>2, <1>4, <1>3, <1>5, <1>6, CallStep

-----------------------------------------------------------------------------
(* What happens to a call, and around it                                    *)

LEMMA KillEvalStep ==
    ASSUME EvalInv, NEW c \in Calls, KillEval(c) PROVE EvalInv'
<1>1. /\ EvalTypeOK /\ End(c, "dead") /\ "dead" \in PCs
      /\ UNCHANGED <<eval_owner, eval_volume, image, bought, compared>>
  BY DEF EvalInv, KillEval, PCs, Over
<1>2. /\ eval_call' \in [Calls -> EvalCall] /\ eval_view' \in [Calls -> Ledger]
      /\ \A e \in Calls \ {c} :
            eval_call'[e] = eval_call[e] /\ eval_view'[e] = eval_view[e]
      /\ eval_call'[c].pc = "dead"
  BY <1>1, EndStep
<1>3. EvalTypeOK' /\ VolumeInv'
  BY <1>1, <1>2 DEF EvalInv, EvalTypeOK, VolumeInv, RowsOf
<1>4. Holds(c)' /\ Copy(c)'
  BY <1>2, EndedCall
<1> QED BY <1>1, <1>2, <1>3, <1>4, CallStep

LEMMA ClearClaimStep ==
    ASSUME EvalInv, ClearClaim PROVE EvalInv'
<1>1. \A c \in Calls : eval_call[c].pc \notin Working
  BY DEF ClearClaim, EvalInv, Holds, Working, Writing, Over
<1>2. EvalTypeOK' /\ VolumeInv'
  BY DEF ClearClaim, EvalInv, EvalTypeOK, VolumeInv, RowsOf
<1>3. ASSUME NEW c \in Calls PROVE Holds(c)' /\ Copy(c)'
  BY <1>1 DEF ClearClaim, EvalInv, Holds, Copy, At, RowsOf
<1> QED BY <1>2, <1>3 DEF EvalInv

LEMMA ChangeImageStep ==
    ASSUME EvalInv, NEW s \in Samples, ChangeImage(s) PROVE EvalInv'
<1>1. PICK v \in {0, image[s] + 1} :
          v <= MaxChanges + 1 /\ image' = [image EXCEPT ![s] = v]
  BY DEF ChangeImage
<1>2. image \in [Samples -> 0 .. MaxChanges + 1] /\ image[s] \in 0 .. MaxChanges + 1
  BY DEF EvalInv, EvalTypeOK
<1>3. v \in 0 .. MaxChanges + 1
  BY <1>1, <1>2, EvalAssumption
<1>4. image' \in [Samples -> 0 .. MaxChanges + 1]
  BY <1>1, <1>2, <1>3
<1>5. EvalTypeOK' /\ VolumeInv'
  BY <1>4 DEF ChangeImage, EvalInv, EvalTypeOK, VolumeInv, RowsOf
<1>6. ASSUME NEW c \in Calls PROVE Holds(c)' /\ Copy(c)'
  BY DEF ChangeImage, EvalInv, Holds, Copy, At, RowsOf
<1> QED BY <1>5, <1>6 DEF EvalInv

LEMMA CompareStep ==
    ASSUME EvalInv, Compare PROVE EvalInv'
<1>1. eval_volume.state \in [Samples -> State] /\ eval_volume.recipe # NoRecipe
  BY DEF EvalInv, EvalTypeOK, Ledger, Compare, TerminalAttempts
<1>2. \A s \in Samples : eval_volume.state[s] \in Terminal
  BY <1>1 DEF Compare, TerminalAttempts, State, Terminal, EvalInv, VolumeInv, RowsOf
<1>3. EvalTypeOK' /\ VolumeInv'
  BY <1>1, <1>2 DEF Compare, EvalInv, EvalTypeOK, VolumeInv, RowsOf
<1>4. ASSUME NEW c \in Calls PROVE Holds(c)' /\ Copy(c)'
  BY DEF Compare, EvalInv, Holds, Copy, At, RowsOf
<1> QED BY <1>3, <1>4 DEF EvalInv

LEMMA EvalStep == EvalInv /\ [EvalNext]_evalVars => EvalInv'
<1> SUFFICES ASSUME EvalInv, [EvalNext]_evalVars PROVE EvalInv'
  OBVIOUS
<1>1. CASE EvalNext
  BY <1>1, StartEvalStep, ClaimDirectoryStep, ReloadStep, OpenLedgerStep, CommitStep,
     CommitFailsStep, NextSampleStep, CallProviderStep, CompleteStep,
     FinishSamplesStep, ReleaseDirectoryStep, WriteThroughStep, KillEvalStep,
     ChangeImageStep, ClearClaimStep, CompareStep DEF EvalNext
<1>2. CASE UNCHANGED evalVars
  <2>1. UNCHANGED <<eval_owner, eval_volume, eval_view, eval_call, image, bought, compared>>
    BY <1>2 DEF evalVars
  <2>2. EvalTypeOK' /\ VolumeInv'
    BY <2>1 DEF EvalInv, EvalTypeOK, VolumeInv, RowsOf
  <2>3. ASSUME NEW c \in Calls PROVE Holds(c)' /\ Copy(c)'
    BY <2>1 DEF EvalInv, Holds, Copy, At, RowsOf
  <2> QED BY <2>2, <2>3 DEF EvalInv
<1> QED BY <1>1, <1>2

-----------------------------------------------------------------------------
(* The theorems                                                            *)

\* In every state of every run the types hold, only the holder of the claim
\* writes, and its copy knows at least what the volume knows.
THEOREM EvalInvariant == EvalSpec => []EvalInv
  BY EvalStart, EvalStep, PTL DEF EvalSpec

\* However the calls of run_baselines.py are killed, resumed and raced, no
\* scheduled sample is sent to the paid provider twice, and the committed
\* ledger shows each one that was sent.
THEOREM EverySampleBoughtOnce == EvalSpec => []SamplesBoughtOnce
<1>1. EvalInv => SamplesBoughtOnce
  BY DEF EvalInv, VolumeInv, SamplesBoughtOnce
<1> QED BY <1>1, EvalInvariant, PTL

\* The rows that a comparison of complete runs has read are the rows every
\* later reader of the ledger finds.
THEOREM ComparisonsStand == EvalSpec => []ComparisonStands
<1>1. EvalInv => ComparisonStands
  BY DEF EvalInv, VolumeInv, ComparisonStands
<1> QED BY <1>1, EvalInvariant, PTL

-----------------------------------------------------------------------------
(***************************************************************************)
(* What training reads of SourceReview, for any number of writers and of   *)
(* versions.                                                               *)
(***************************************************************************)

\* No version was used before it is drawn.
Drawn ==
    /\ bundle.artifacts <= fresh /\ bundle.manifest <= fresh
    /\ bundle.rows.id <= fresh /\ bundle.split.rows <= fresh
    /\ gate.judged <= fresh
    /\ \A w \in Writers : writer[w].manifest <= fresh /\ writer[w].rows.id <= fresh

\* A claim has one owner, and what it makes is not there yet.
Claims ==
    /\ \A w \in Writers :
          /\ writer[w].pc \in {"generating", "drawn"} => bundle.generation.status = "working"
          /\ WriterAt(w, "split") =>
                /\ bundle.split.status = "working"
                /\ bundle.split.manifest = writer[w].manifest
                /\ bundle.split.rows = writer[w].rows.id
          /\ writer[w].pc \in {"splitting", "split"} =>
                /\ writer[w].rows.images = writer[w].manifest
                /\ writer[w].rows.id # 0
    /\ \A v, w \in Writers : v # w =>
          /\ ~(WriterAt(v, "split") /\ WriterAt(w, "split"))
          /\ ~({writer[v].pc, writer[w].pc} \subseteq {"generating", "drawn"})

\* Each set of rows has its own number, in the bundle or before it gets there.
RowsNumbered ==
    /\ \A v, w \in Writers :
          v # w /\ {writer[v].pc, writer[w].pc} \subseteq {"splitting", "split"}
             => writer[v].rows.id # writer[w].rows.id
    /\ \A w \in Writers : WriterAt(w, "splitting") => writer[w].rows.id # bundle.rows.id

\* The stages of a bundle follow each other: rows belong to the manifest of the
\* split receipt, a packet to a complete split, a decision to a complete packet.
Stages ==
    /\ bundle.rows # NoRows =>
          /\ bundle.rows.id # 0
          /\ bundle.rows.images = bundle.split.manifest
          /\ bundle.split.status # "none"
    /\ bundle.split.status = "complete" => bundle.rows # NoRows
    /\ bundle.packet.status # "none" =>
          bundle.generation.status = "complete" /\ bundle.split.status = "complete"
    /\ bundle.review.eligible => bundle.packet.status = "complete"

\* What a reviewer calls eligible, and nobody has touched, was seen as it is.
EligibleIsApproved ==
    /\ bundle.review.eligible
    /\ bundle.rows.id = bundle.split.rows
    /\ bundle.artifacts = bundle.manifest
    => [rows |-> bundle.rows.id, artifacts |-> bundle.artifacts] \in approved

\* A check is under way, or the training relies on one.
Judging == gate.check # "none" \/ gate.pc \in {"checked", "loaded", "training"}

\* What the call knows of the rows it has judged, while they are there: they
\* belong to their split and no writer will bring them back; once the decisions
\* are read, they were approved with the artifacts of their manifest; and rows
\* that were loaded are these, if the receipt names them.
JudgedStands ==
    /\ Judging =>
          /\ gate.judged # 0
          /\ \A w \in Writers :
                /\ WriterAt(w, "splitting") => writer[w].rows.id # gate.judged
                /\ WriterAt(w, "split") /\ bundle.rows = NoRows
                      => writer[w].rows.id # gate.judged
          /\ bundle.rows.id = gate.judged =>
                bundle.split.rows = gate.judged /\ bundle.generation.status = "complete"
    /\ gate.check = "review" \/ gate.pc \in {"checked", "loaded"} =>
          (bundle.rows.id = gate.judged /\ bundle.artifacts = bundle.manifest
             => [rows |-> gate.judged, artifacts |-> bundle.artifacts] \in approved)
    /\ gate.receipt.rows = gate.judged =>
          /\ GateAt("loaded") /\ bundle.rows.id = gate.judged =>
                /\ gate.rows = bundle.rows
                /\ [rows |-> gate.rows.id, artifacts |-> gate.rows.images] \in approved
          /\ GateAt("training") =>
                [rows |-> gate.rows.id, artifacts |-> gate.rows.images] \in approved

SourceInv ==
    /\ SourceTypeOK
    /\ Drawn /\ Claims /\ RowsNumbered /\ Stages
    /\ EligibleIsApproved /\ JudgedStands
    /\ ConsumedWasReviewed

LEMMA FileVersions == Version \subseteq Nat /\ {0, 1, 2} \subseteq Version /\ MaxVersions \in Nat
  BY SourceAssumption DEF Version

\* The numbers in the files, in memory and in the receipt.
LEMMA Numbers ==
    ASSUME SourceTypeOK
    PROVE  /\ fresh \in Nat
           /\ bundle.artifacts \in Version /\ bundle.manifest \in Version
           /\ bundle.generation.manifest \in Version
           /\ bundle.rows \in Rows /\ bundle.rows.id \in Version /\ bundle.rows.images \in Version
           /\ bundle.split.rows \in Version /\ bundle.split.manifest \in Version
           /\ gate.judged \in Version /\ gate.receipt.rows \in Version /\ gate.rows \in Rows
           /\ \A w \in Writers : /\ writer[w].manifest \in Version
                                 /\ writer[w].rows \in Rows /\ writer[w].rows.id \in Version
  BY FileVersions DEF SourceTypeOK, Bundle, Gate, Rows, Receipt

\* The writer that moves, and the others.
LEMMA WriterMoves ==
    ASSUME SourceTypeOK, NEW w \in Writers, NEW x, writer' = [writer EXCEPT ![w] = x]
    PROVE  /\ writer'[w] = x
           /\ \A v \in Writers : v # w => writer'[v] = writer[v]
  BY DEF SourceTypeOK

\* A call that has not begun, or has ended, knows nothing.
LEMMA NoCallShape ==
    /\ NoCallYet \in Gate
    /\ NoCallYet.pc = "idle" /\ NoCallYet.check = "none" /\ NoCallYet.judged = 0
<1>1. NoPacket \in Packet /\ NoReceipt \in Receipt /\ NoRows \in Rows
  BY FileVersions DEF NoPacket, NoReceipt, NoRows, Packet, Receipt, Rows
<1>2. QED  BY <1>1, FileVersions DEF NoCallYet, Gate

LEMMA SourceStart == SourceInit => SourceInv
<1> SUFFICES ASSUME SourceInit PROVE SourceInv
  OBVIOUS
<1>1. /\ writer = [w \in Writers |-> Idle] /\ gate = NoCallYet
      /\ approved = {} /\ consumed = {}
      /\ Idle = [pc |-> "idle", rows |-> NoRows, manifest |-> 0] /\ NoRows.id = 0
  BY DEF SourceInit, Idle, NoRows
<1>2. /\ fresh \in {0, 2} /\ bundle \in Bundle
      /\ bundle.artifacts <= fresh /\ bundle.manifest <= fresh
      /\ bundle.rows.id <= fresh /\ bundle.split.rows <= fresh
      /\ ~bundle.review.eligible /\ bundle.packet.status = "none"
      /\ bundle.split.status = "complete" => bundle.rows # NoRows
      /\ bundle.rows # NoRows =>
            /\ bundle.rows.id # 0 /\ bundle.rows.images = bundle.split.manifest
            /\ bundle.split.status # "none"
  <2>1. CASE bundle = NoBundle /\ fresh = 0
    BY <2>1, FileVersions DEF NoBundle, NoRows, NoPacket, Bundle, Rows, Packet, Status
  <2>2. CASE bundle = MadeBefore /\ fresh = 2
    <3>1. /\ bundle \in Bundle /\ bundle.artifacts = 1 /\ bundle.manifest = 1
          /\ bundle.rows = [id |-> 2, images |-> 1]
          /\ bundle.split = [status |-> "complete", manifest |-> 1, rows |-> 2]
          /\ ~bundle.review.eligible /\ bundle.packet.status = "none"
      BY <2>2, FileVersions
         DEF MadeBefore, NoBundle, NoRows, NoPacket, Bundle, Rows, Packet, Status
    <3>2. QED  BY <2>2, <3>1 DEF NoRows
  <2>3. QED  BY <2>1, <2>2 DEF SourceInit
<1>3. SourceTypeOK
  BY <1>1, <1>2, FileVersions, NoCallShape DEF SourceTypeOK, NoRows, Rows
<1>4. Drawn
  BY <1>1, <1>2, NoCallShape DEF Drawn
<1>5. Claims /\ RowsNumbered /\ Stages
  BY <1>1, <1>2 DEF Claims, RowsNumbered, Stages, WriterAt
<1>6. EligibleIsApproved /\ JudgedStands /\ ConsumedWasReviewed
  BY <1>1, <1>2, NoCallShape DEF EligibleIsApproved, JudgedStands, Judging, GateAt,
     ConsumedWasReviewed
<1>7. QED  BY <1>3, <1>4, <1>5, <1>6 DEF SourceInv

LEMMA ClaimGenerationStep ==
    ASSUME SourceInv, NEW w \in Writers, ClaimGeneration(w)
    PROVE  SourceInv'
<1> USE FileVersions DEF SourceInv, ClaimGeneration, WriterAt, GateAt, NoRows, WriterTo
<1> DEFINE g == [status |-> "working", manifest |-> bundle.generation.manifest]
           x == writer'[w]
<1>1. /\ bundle'.artifacts = bundle.artifacts /\ bundle'.manifest = bundle.manifest
      /\ bundle'.rows = bundle.rows /\ bundle'.split = bundle.split
      /\ bundle'.packet = bundle.packet /\ bundle'.review = bundle.review
      /\ x \in [pc : {"idle", "generating"}, rows : {writer[w].rows}, manifest : {writer[w].manifest}]
      /\ \/ x.pc = "idle" /\ bundle' = bundle
         \/ /\ x.pc = "generating"
            /\ bundle.generation.status = "none" /\ bundle'.generation.status = "working"
            /\ bundle' = [bundle EXCEPT !.generation = g]
  <2>1. CASE bundle.generation.status = "none"
    <3>1. /\ bundle' = [bundle EXCEPT !.generation = g]
          /\ writer' = [writer EXCEPT ![w] = [writer[w] EXCEPT !.pc = "generating"]]
      BY <2>1 DEF SourceTypeOK, Bundle
    <3>2. QED  BY <2>1, <3>1 DEF SourceTypeOK, Bundle
  <2>2. CASE bundle.generation.status # "none"
    <3>1. bundle' = bundle /\ writer' = [writer EXCEPT ![w] = [writer[w] EXCEPT !.pc = "idle"]]
      BY <2>2
    <3>2. QED  BY <3>1 DEF SourceTypeOK
  <2>3. QED  BY <2>1, <2>2
<1>2. /\ writer' = [writer EXCEPT ![w] = x]
      /\ \A v \in Writers : v # w => writer'[v] = writer[v]
  BY DEF SourceTypeOK
<1>3. x.rows = writer[w].rows /\ x.manifest = writer[w].manifest /\ x.pc \in {"idle", "generating"}
  BY <1>1
<1>4. x \in [pc: {"idle", "empty", "generating", "drawn", "splitting", "split"}, rows: Rows, manifest: Version]
  BY <1>1, Numbers
<1>5. bundle' \in Bundle
  BY <1>1, Numbers DEF SourceTypeOK, Bundle, Status
<1> HIDE DEF ClaimGeneration, NoRows, x
<1>6. SourceTypeOK'
  BY <1>2, <1>4, <1>5 DEF ClaimGeneration, SourceTypeOK
<1>7. Drawn'
  BY <1>1, <1>2, <1>3 DEF ClaimGeneration, Drawn
<1>8. Claims'
  BY <1>1, <1>2, <1>3 DEF Claims
<1>9. RowsNumbered'
  BY <1>1, <1>2, <1>3 DEF RowsNumbered
<1>10. Stages'
  BY <1>1 DEF Stages
<1>11. EligibleIsApproved'
  BY <1>1 DEF ClaimGeneration, EligibleIsApproved
<1>12. JudgedStands'
  BY <1>1, <1>2, <1>3 DEF ClaimGeneration, JudgedStands, Judging
<1>13. ConsumedWasReviewed'
  BY DEF ClaimGeneration, ConsumedWasReviewed
<1>14. QED  BY <1>6, <1>7, <1>8, <1>9, <1>10, <1>11, <1>12, <1>13

LEMMA WriteArtifactsStep ==
    ASSUME SourceInv, NEW w \in Writers, WriteArtifacts(w)
    PROVE  SourceInv'
<1> USE FileVersions DEF SourceInv, WriteArtifacts, WriterAt, GateAt, NoRows, NewVersion
<1>1. writer' = [writer EXCEPT ![w] = [writer[w] EXCEPT !.pc = "drawn", !.manifest = fresh']]
  BY DEF SourceTypeOK
<1>2. fresh' \in Version
  BY DEF SourceTypeOK, Version
<1>3. bundle' \in Bundle
  BY <1>2 DEF SourceTypeOK, Bundle
<1>4. writer' \in [Writers -> [pc: {"idle", "empty", "generating", "drawn", "splitting", "split"}, rows: Rows, manifest: Version]]
  BY <1>1, <1>2 DEF SourceTypeOK
<1>5. SourceTypeOK'
  BY <1>2, <1>3, <1>4 DEF SourceTypeOK
<1>6. Drawn'
  BY DEF Drawn, SourceTypeOK, Bundle, Rows, Packet, Receipt, Status, Version
<1>7. Claims'
  BY DEF Claims, SourceTypeOK, Bundle, Rows, Packet, Receipt, Status
<1>8. RowsNumbered'
  BY DEF RowsNumbered, Claims, Drawn, SourceTypeOK, Bundle, Rows, Packet, Receipt, Status
<1>9. Stages'
  BY DEF Stages, Claims, SourceTypeOK, Bundle, Rows, Packet, Receipt, Status, ReadSplit
<1>10. EligibleIsApproved'
  BY DEF EligibleIsApproved, Drawn, Claims, Stages, SourceTypeOK, Bundle, Rows, Packet, Receipt,
     Status
<1>11. JudgedStands'
  BY DEF JudgedStands, Judging, SourceTypeOK, Bundle, Rows, Packet, Receipt, Status, Drawn, Claims, Stages, RowsNumbered, EligibleIsApproved
<1>12. ConsumedWasReviewed'
  BY DEF ConsumedWasReviewed, JudgedStands, Judging
<1>13. QED  BY <1>5, <1>6, <1>7, <1>8, <1>9, <1>10, <1>11, <1>12

LEMMA CompleteGenerationStep ==
    ASSUME SourceInv, NEW w \in Writers, CompleteGeneration(w)
    PROVE  SourceInv'
<1> USE FileVersions DEF SourceInv, CompleteGeneration, WriterAt, GateAt, NoRows, Idle
<1> DEFINE v == writer[w].manifest
           g == [status |-> "complete", manifest |-> bundle.manifest]
<1>1. CASE bundle.manifest = 0
  <2>1. bundle' = [bundle EXCEPT !.manifest = v] /\ UNCHANGED <<writer, gate, fresh, approved, consumed>>
    BY <1>1
  <2>2. /\ bundle'.manifest = v /\ bundle'.artifacts = bundle.artifacts
        /\ bundle'.rows = bundle.rows /\ bundle'.split = bundle.split
        /\ bundle'.packet = bundle.packet /\ bundle'.review = bundle.review
        /\ bundle'.generation = bundle.generation
        /\ bundle' \in Bundle /\ bundle.generation.status = "working"
    BY <2>1, Numbers DEF SourceTypeOK, Bundle, Claims
  <2> HIDE DEF CompleteGeneration, NoRows
  <2>3. QED
    BY <2>1, <2>2 DEF SourceTypeOK, Drawn, Claims, RowsNumbered, Stages, EligibleIsApproved,
       JudgedStands, Judging,
         ConsumedWasReviewed, ReadSplit, VerifyDataset
<1>2. CASE bundle.manifest # 0
  <2>1. bundle' = [bundle EXCEPT !.generation = g] /\ writer' = [writer EXCEPT ![w] = Idle]
        /\ UNCHANGED <<gate, fresh, approved, consumed>>
    BY <1>2
  <2>2. /\ bundle'.manifest = bundle.manifest /\ bundle'.artifacts = bundle.artifacts
        /\ bundle'.rows = bundle.rows /\ bundle'.split = bundle.split
        /\ bundle'.packet = bundle.packet /\ bundle'.review = bundle.review
        /\ bundle'.generation = g
        /\ bundle' \in Bundle /\ bundle.generation.status = "working"
    BY <2>1, Numbers DEF SourceTypeOK, Bundle, Claims, Status
  <2>3. /\ \A u \in Writers : u # w => writer'[u] = writer[u]
        /\ writer'[w] = Idle
    BY <2>1 DEF SourceTypeOK
  <2>4. writer' \in [Writers -> [pc: {"idle", "empty", "generating", "drawn", "splitting", "split"}, rows: Rows, manifest: Version]]
    BY <2>1 DEF SourceTypeOK, Rows
  <2>5. writer'[w].pc = "idle" /\ writer'[w].manifest = 0 /\ writer'[w].rows.id = 0
    BY <2>3
  <2> HIDE DEF Idle, NoRows
  <2>6. SourceTypeOK' /\ Drawn'
    BY <2>1, <2>2, <2>3, <2>4, <2>5, Numbers DEF SourceTypeOK, Drawn
  <2>7. Claims' /\ RowsNumbered' /\ Stages'
    BY <2>1, <2>2, <2>3, <2>5 DEF Claims, RowsNumbered, Stages
  <2>8. EligibleIsApproved' /\ JudgedStands' /\ ConsumedWasReviewed'
    BY <2>1, <2>2, <2>3, <2>5
       DEF EligibleIsApproved, Stages, JudgedStands, Judging, ConsumedWasReviewed
  <2>9. QED  BY <2>6, <2>7, <2>8
<1>3. QED  BY <1>1, <1>2
LEMMA StartSplitStep ==
    ASSUME SourceInv, NEW w \in Writers, StartSplit(w)
    PROVE  SourceInv'
<1> USE FileVersions DEF SourceInv, StartSplit, WriterAt, GateAt, NoRows, NewVersion
<1> DEFINE x == [pc |-> "splitting", manifest |-> bundle.generation.manifest,
                 rows |-> [id |-> fresh', images |-> bundle.manifest]]
<1>1. /\ \A u \in Writers : u # w => writer'[u] = writer[u]
      /\ writer'[w] = x
  BY DEF SourceTypeOK
<1>2. /\ fresh' \in Version /\ fresh' = fresh + 1
      /\ x.rows.id = fresh' /\ x.manifest \in Version /\ x.rows.images = x.manifest
  BY Numbers DEF SourceTypeOK, VerifyDataset, Version
<1>3. x.manifest <= fresh
  BY DEF VerifyDataset, Drawn
<1>4. SourceTypeOK'
  BY DEF SourceTypeOK, Bundle, Rows, Packet, Receipt, Status, Version, ReadSplit, VerifyDataset
<1>5. Drawn'
  BY <1>1, <1>2, <1>3, Numbers DEF Drawn, Version
<1>6. Claims'
  BY <1>1, <1>2, Numbers DEF Claims, Version
<1>7. RowsNumbered'
  BY DEF RowsNumbered, Claims, Drawn, SourceTypeOK, Bundle, Rows, Packet, Receipt, Status
<1>8. Stages'
  BY DEF Stages, Claims, SourceTypeOK, Bundle, Rows, Packet, Receipt, Status, ReadSplit
<1>9. EligibleIsApproved'
  BY DEF EligibleIsApproved, Drawn, Claims, Stages, SourceTypeOK, Bundle, Rows, Packet, Receipt,
     Status
<1>10. JudgedStands'
  BY DEF JudgedStands, Judging, SourceTypeOK, Bundle, Rows, Packet, Receipt, Status, Drawn, Claims, Stages, RowsNumbered, EligibleIsApproved
<1>11. ConsumedWasReviewed'
  BY DEF ConsumedWasReviewed, JudgedStands, Judging
<1>12. QED  BY <1>4, <1>5, <1>6, <1>7, <1>8, <1>9, <1>10, <1>11

LEMMA ClaimSplitStep ==
    ASSUME SourceInv, NEW w \in Writers, ClaimSplit(w)
    PROVE  SourceInv'
<1> USE FileVersions DEF SourceInv, ClaimSplit, WriterAt, GateAt, NoRows, WriterTo, Idle
<1> DEFINE n == [status |-> "working", manifest |-> writer[w].manifest, rows |-> writer[w].rows.id]
<1>1. CASE bundle.split.status = "none"
  <2>1. /\ bundle' = [bundle EXCEPT !.split = n]
        /\ writer' = [writer EXCEPT ![w] = [writer[w] EXCEPT !.pc = "split"]]
        /\ UNCHANGED <<gate, fresh, approved, consumed>>
    BY <1>1 DEF SourceTypeOK
  <2>2. /\ bundle'.manifest = bundle.manifest /\ bundle'.artifacts = bundle.artifacts
        /\ bundle'.rows = bundle.rows /\ bundle'.split = n
        /\ bundle'.packet = bundle.packet /\ bundle'.review = bundle.review
        /\ bundle'.generation = bundle.generation
        /\ bundle' \in Bundle
    BY <2>1, Numbers DEF SourceTypeOK, Bundle, Status
  <2>3. /\ \A u \in Writers : u # w => writer'[u] = writer[u]
        /\ writer'[w].pc = "split" /\ writer'[w].rows = writer[w].rows
        /\ writer'[w].manifest = writer[w].manifest
    BY <2>1 DEF SourceTypeOK
  <2>4. writer' \in [Writers -> [pc: {"idle", "empty", "generating", "drawn", "splitting", "split"}, rows: Rows, manifest: Version]]
    BY <2>1 DEF SourceTypeOK
  <2>5. bundle.rows = NoRows /\ WriterAt(w, "splitting")
    BY <1>1 DEF Stages
  <2>6. SourceTypeOK' /\ Drawn'
    BY <2>1, <2>2, <2>3, <2>4, Numbers DEF SourceTypeOK, Drawn
  <2> HIDE DEF NoRows
  <2>7. Claims'
    BY <1>1, <2>2, <2>3, <2>5 DEF Claims
  <2>8. RowsNumbered'
    BY <2>2, <2>3, <2>5 DEF RowsNumbered
  <2>9. Stages'
    BY <1>1, <2>2, <2>5 DEF Stages
  <2>10. EligibleIsApproved' /\ ConsumedWasReviewed'
    BY <1>1, <2>1, <2>2 DEF EligibleIsApproved, Stages, ConsumedWasReviewed
  <2>11. JudgedStands'
    <3>1. ~Judging \/ bundle.rows.id # gate.judged
      BY <1>1, <2>5 DEF JudgedStands, Stages, NoRows
    <3>2. QED  BY <2>1, <2>2, <2>3, <2>5, <3>1 DEF JudgedStands, Judging
  <2>12. QED  BY <2>6, <2>7, <2>8, <2>9, <2>10, <2>11
<1>2. CASE bundle.split.status # "none"
  <2>1. bundle' = bundle /\ writer' = [writer EXCEPT ![w] = Idle]
        /\ UNCHANGED <<gate, fresh, approved, consumed>>
    BY <1>2
  <2>3. /\ \A u \in Writers : u # w => writer'[u] = writer[u]
        /\ writer'[w].pc = "idle" /\ writer'[w].manifest = 0 /\ writer'[w].rows.id = 0
        /\ writer' \in [Writers -> [pc: {"idle", "empty", "generating", "drawn", "splitting", "split"}, rows: Rows, manifest: Version]]
    BY <2>1 DEF SourceTypeOK, Rows
  <2> HIDE DEF Idle, NoRows
  <2>6. SourceTypeOK' /\ Drawn' /\ EligibleIsApproved' /\ Stages' /\ ConsumedWasReviewed'
    BY <2>1, <2>3, Numbers
       DEF SourceTypeOK, Drawn, EligibleIsApproved, Stages, ConsumedWasReviewed
  <2>7. Claims' /\ RowsNumbered' /\ JudgedStands'
    BY <2>1, <2>3 DEF Claims, RowsNumbered, JudgedStands, Judging
  <2>11. QED  BY <2>6, <2>7
<1>3. QED  BY <1>1, <1>2

LEMMA WriteSplitStep ==
    ASSUME SourceInv, NEW w \in Writers, WriteSplit(w)
    PROVE  SourceInv'
<1> USE FileVersions DEF SourceInv, WriteSplit, WriterAt, GateAt, NoRows, Idle
<1>1. /\ \A u \in Writers : u # w => writer'[u] = writer[u]
      /\ writer'[w] \in {writer[w], Idle}
      /\ bundle'.rows \in {bundle.rows, writer[w].rows} /\ (bundle.rows # NoRows => bundle'.rows = bundle.rows)
      /\ bundle'.artifacts = bundle.artifacts /\ bundle'.manifest = bundle.manifest
      /\ bundle'.split.rows = bundle.split.rows
  BY DEF SourceTypeOK, Bundle
<1>2. /\ bundle'.split.manifest = bundle.split.manifest
      /\ bundle'.split.status = bundle.split.status \/ (bundle'.split.status = "complete" /\ bundle.rows # NoRows)
      /\ bundle'.packet = bundle.packet /\ bundle'.review = bundle.review
      /\ bundle'.generation = bundle.generation
      /\ bundle.split.status = "working" /\ bundle.split.manifest = writer[w].rows.images
      /\ writer[w].rows.id # 0 /\ writer[w].rows # NoRows
  BY DEF SourceTypeOK, Bundle, Claims
<1>3. SourceTypeOK'
  <2>1. bundle \in Bundle /\ writer[w].rows \in Rows /\ Idle.rows \in Rows
    BY DEF SourceTypeOK, Rows, Version
  <2>2. bundle' \in Bundle
    <3>1. \/ bundle' = bundle
          \/ bundle' = [bundle EXCEPT !.rows = writer[w].rows]
          \/ bundle' = [bundle EXCEPT !.split.status = "complete"]
      OBVIOUS
    <3> HIDE DEF WriteSplit
    <3>2. QED  BY <2>1, <3>1 DEF Bundle, Status
  <2>3. writer' = writer \/ writer' = [writer EXCEPT ![w] = Idle]
    OBVIOUS
  <2>4. UNCHANGED <<gate, fresh, approved, consumed>>
    OBVIOUS
  <2> HIDE DEF WriteSplit
  <2>5. QED  BY <2>1, <2>2, <2>3, <2>4 DEF SourceTypeOK, Version
<1>4. Drawn'
  BY <1>1, Numbers DEF Drawn, Version
<1>5. Claims'
  <2>1. Claims
    OBVIOUS
  <2>2. WriterAt(w, "split") /\ bundle'.generation = bundle.generation
    BY <1>2
  <2>3. bundle'.split.status = bundle.split.status \/ writer'[w] = Idle
    BY DEF SourceTypeOK, Bundle
  <2> HIDE DEF WriteSplit, SourceInv
  <2>4. QED  BY <1>1, <1>2, <2>1, <2>2, <2>3 DEF Claims
<1>6. RowsNumbered'
  BY <1>1 DEF RowsNumbered, Claims
<1>7. Stages'
  BY <1>1, <1>2 DEF Stages
<1>8. EligibleIsApproved' /\ ConsumedWasReviewed'
  <2>1. UNCHANGED <<gate, fresh, approved, consumed>>
    OBVIOUS
  <2> HIDE DEF WriteSplit
  <2>2. QED  BY <1>1, <1>2, <2>1 DEF EligibleIsApproved, Stages, ConsumedWasReviewed
<1>9. JudgedStands'
  <2>1. UNCHANGED <<gate, fresh, approved, consumed>> /\ WriterAt(w, "split")
    OBVIOUS
  <2>2. Judging /\ bundle.rows = NoRows => writer[w].rows.id # gate.judged
    BY <2>1 DEF JudgedStands
  <2>3. Judging /\ bundle'.rows.id = gate.judged => bundle'.rows = bundle.rows
    BY <1>1, <2>2
  <2>4. writer'[w] = writer[w] \/ writer'[w].pc = "idle"
    BY <1>1
  <2> HIDE DEF WriteSplit, Idle
  <2>5. QED  BY <1>1, <1>2, <2>1, <2>3, <2>4 DEF JudgedStands, Judging
<1>10. QED  BY <1>3, <1>4, <1>5, <1>6, <1>7, <1>8, <1>9

LEMMA DecideStep ==
    ASSUME SourceInv, NEW e \in BOOLEAN, Decide(e)
    PROVE  SourceInv'
<1> USE FileVersions DEF SourceInv, Decide, WriterAt, GateAt, NoRows, NewVersion
<1>1. fresh' \in Version
  BY DEF SourceTypeOK, Version
<1> DEFINE judged == [bundle EXCEPT !.review.eligible = e]
<1>2. bundle' = [judged EXCEPT !.review.id = fresh']
  OBVIOUS
<1>3. bundle' \in Bundle
  <2>1. judged \in Bundle
    BY DEF SourceTypeOK, Bundle
  <2> HIDE DEF judged
  <2>2. QED  BY <1>1, <1>2, <2>1 DEF Bundle
<1>4. SourceTypeOK'
  BY <1>1, <1>3, Numbers DEF SourceTypeOK
<1>5. Drawn'
  <2>1. /\ bundle'.artifacts = bundle.artifacts /\ bundle'.manifest = bundle.manifest
        /\ bundle'.rows = bundle.rows /\ bundle'.split = bundle.split
        /\ fresh' = fresh + 1 /\ writer' = writer /\ gate' = gate
    BY DEF SourceTypeOK, Bundle
  <2> HIDE DEF Decide
  <2>2. QED  BY <2>1, Numbers DEF Drawn, Version
<1>6. Claims'
  BY DEF Claims, SourceTypeOK, Bundle, Rows, Packet, Receipt, Status
<1>7. RowsNumbered'
  BY DEF RowsNumbered, Claims, Drawn, SourceTypeOK, Bundle, Rows, Packet, Receipt, Status
<1>8. Stages'
  BY DEF Stages, Claims, SourceTypeOK, Bundle, Rows, Packet, Receipt, Status, ReadSplit
<1>9. EligibleIsApproved'
  BY DEF EligibleIsApproved, Drawn, Claims, Stages, SourceTypeOK, Bundle, Rows, Packet, Receipt,
     Status
<1>10. JudgedStands'
  BY DEF JudgedStands, Judging, SourceTypeOK, Bundle, Rows, Packet, Receipt, Status, Drawn, Claims, Stages, RowsNumbered, EligibleIsApproved
<1>11. ConsumedWasReviewed'
  BY DEF ConsumedWasReviewed, JudgedStands, Judging
<1>12. QED  BY <1>4, <1>5, <1>6, <1>7, <1>8, <1>9, <1>10, <1>11

LEMMA PrepareStep ==
    ASSUME SourceInv, Prepare
    PROVE  SourceInv'
<1> USE FileVersions DEF SourceInv, Prepare, WriterAt, GateAt, NoRows
<1>1. /\ bundle'.rows = bundle.rows /\ bundle'.split = bundle.split /\ bundle'.generation = bundle.generation
      /\ bundle'.review.eligible = bundle.review.eligible
      /\ bundle.packet.status = "none"
      /\ bundle.split.status = "complete" /\ bundle.generation.status = "complete"
  BY DEF SourceTypeOK, Bundle, ReadSplit, VerifyDataset
<1>2. SourceTypeOK'
  BY DEF SourceTypeOK, Bundle, Rows, Packet, Receipt, Status, Version, ReadSplit, VerifyDataset
<1>3. Drawn'
  BY DEF Drawn, SourceTypeOK, Bundle, Rows, Packet, Receipt, Status, Version
<1>4. Claims'
  BY DEF Claims, SourceTypeOK, Bundle, Rows, Packet, Receipt, Status
<1>5. RowsNumbered'
  BY DEF RowsNumbered, Claims, Drawn, SourceTypeOK, Bundle, Rows, Packet, Receipt, Status
<1>6. Stages'
  BY <1>1 DEF Stages
<1>7. EligibleIsApproved'
  BY DEF EligibleIsApproved, Drawn, Claims, Stages, SourceTypeOK, Bundle, Rows, Packet, Receipt,
     Status
<1>8. JudgedStands'
  BY DEF JudgedStands, Judging, SourceTypeOK, Bundle, Rows, Packet, Receipt, Status, Drawn, Claims, Stages, RowsNumbered, EligibleIsApproved
<1>9. ConsumedWasReviewed'
  BY DEF ConsumedWasReviewed, JudgedStands, Judging
<1>10. QED  BY <1>2, <1>3, <1>4, <1>5, <1>6, <1>7, <1>8, <1>9

LEMMA StartGenerateStep ==
    ASSUME SourceInv, NEW w \in Writers, StartGenerate(w)
    PROVE  SourceInv'
<1> USE FileVersions DEF SourceInv, StartGenerate, WriterAt, GateAt, NoRows, WriterTo, NoBundle,
    NoPacket
<1>1. SourceTypeOK'
  BY DEF SourceTypeOK, Bundle, Rows, Packet, Receipt, Status, Version
<1>2. Drawn'
  BY Numbers DEF Drawn, SourceTypeOK, Bundle, Rows, Packet, Receipt, Status, Version
<1>3. Claims' /\ RowsNumbered' /\ Stages'
  BY DEF Claims, RowsNumbered, Stages, Drawn, SourceTypeOK, Bundle, Rows, Packet, Receipt, Status
<1>4. EligibleIsApproved' /\ ConsumedWasReviewed'
  BY DEF EligibleIsApproved, ConsumedWasReviewed, Drawn, Stages, SourceTypeOK, Bundle, Rows, Packet,
     Receipt, Status
<1>5. JudgedStands'
  BY DEF JudgedStands, Judging, Drawn, SourceTypeOK, Bundle, Rows, Packet, Receipt, Status
<1>6. QED  BY <1>1, <1>2, <1>3, <1>4, <1>5

LEMMA KillWriterStep ==
    ASSUME SourceInv, NEW w \in Writers, KillWriter(w)
    PROVE  SourceInv'
<1> USE FileVersions DEF SourceInv, KillWriter, WriterAt, GateAt, NoRows, Idle
<1>1. SourceTypeOK'
  BY DEF SourceTypeOK, Bundle, Rows, Packet, Receipt, Status, Version
<1>2. Drawn'
  BY Numbers DEF Drawn, SourceTypeOK, Bundle, Rows, Packet, Receipt, Status, Version
<1>3. Claims' /\ RowsNumbered' /\ Stages'
  BY DEF Claims, RowsNumbered, Stages, Drawn, SourceTypeOK, Bundle, Rows, Packet, Receipt, Status
<1>4. EligibleIsApproved' /\ ConsumedWasReviewed'
  BY DEF EligibleIsApproved, ConsumedWasReviewed, Drawn, Stages, SourceTypeOK, Bundle, Rows, Packet,
     Receipt, Status
<1>5. JudgedStands'
  BY DEF JudgedStands, Judging, Drawn, SourceTypeOK, Bundle, Rows, Packet, Receipt, Status
<1>6. QED  BY <1>1, <1>2, <1>3, <1>4, <1>5

LEMMA FinishPacketStep ==
    ASSUME SourceInv, FinishPacket
    PROVE  SourceInv'
<1> USE FileVersions DEF SourceInv, FinishPacket, WriterAt, GateAt, NoRows
<1>1. SourceTypeOK'
  BY DEF SourceTypeOK, Bundle, Rows, Packet, Receipt, Status, Version
<1>2. Drawn'
  BY Numbers DEF Drawn, SourceTypeOK, Bundle, Rows, Packet, Receipt, Status, Version
<1>3. Claims' /\ RowsNumbered' /\ Stages'
  BY DEF Claims, RowsNumbered, Stages, Drawn, SourceTypeOK, Bundle, Rows, Packet, Receipt, Status
<1>4. EligibleIsApproved' /\ ConsumedWasReviewed'
  BY DEF EligibleIsApproved, ConsumedWasReviewed, Drawn, Stages, SourceTypeOK, Bundle, Rows, Packet,
     Receipt, Status
<1>5. JudgedStands'
  BY DEF JudgedStands, Judging, Drawn, SourceTypeOK, Bundle, Rows, Packet, Receipt, Status
<1>6. QED  BY <1>1, <1>2, <1>3, <1>4, <1>5

LEMMA EditArtifactsStep ==
    ASSUME SourceInv, EditArtifacts
    PROVE  SourceInv'
<1> USE FileVersions DEF SourceInv, EditArtifacts, WriterAt, GateAt, NoRows, NewVersion
<1>1. SourceTypeOK'
  BY DEF SourceTypeOK, Bundle, Rows, Packet, Receipt, Status, Version
<1>2. Drawn'
  BY Numbers DEF Drawn, SourceTypeOK, Bundle, Rows, Packet, Receipt, Status, Version
<1>3. Claims' /\ RowsNumbered' /\ Stages'
  BY DEF Claims, RowsNumbered, Stages, Drawn, SourceTypeOK, Bundle, Rows, Packet, Receipt, Status
<1>4. EligibleIsApproved' /\ ConsumedWasReviewed'
  BY DEF EligibleIsApproved, ConsumedWasReviewed, Drawn, Stages, SourceTypeOK, Bundle, Rows, Packet,
     Receipt, Status
<1>5. JudgedStands'
  BY DEF JudgedStands, Judging, Drawn, SourceTypeOK, Bundle, Rows, Packet, Receipt, Status
<1>6. QED  BY <1>1, <1>2, <1>3, <1>4, <1>5

LEMMA EditRowsStep ==
    ASSUME SourceInv, EditRows
    PROVE  SourceInv'
<1> USE FileVersions DEF SourceInv, EditRows, WriterAt, GateAt, NoRows, NewVersion
<1>1. SourceTypeOK'
  <2>1. /\ bundle \in Bundle /\ fresh' \in Version
        /\ bundle' = [bundle EXCEPT !.rows.id = fresh']
        /\ UNCHANGED <<writer, gate, approved, consumed>>
    BY DEF SourceTypeOK, Version
  <2>2. ASSUME NEW v \in Version PROVE [bundle.rows EXCEPT !.id = v] \in Rows
    BY <2>1 DEF Bundle, Rows
  <2>3. bundle' \in Bundle
    <3> HIDE DEF EditRows
    <3>1. QED  BY <2>1, <2>2 DEF Bundle
  <2>4. QED  BY <2>1, <2>3 DEF SourceTypeOK
<1>2. Drawn'
  BY Numbers DEF Drawn, SourceTypeOK, Bundle, Rows, Packet, Receipt, Status, Version
<1>3. Claims' /\ RowsNumbered' /\ Stages'
  BY DEF Claims, RowsNumbered, Stages, Drawn, SourceTypeOK, Bundle, Rows, Packet, Receipt, Status
<1>4. EligibleIsApproved' /\ ConsumedWasReviewed'
  BY DEF EligibleIsApproved, ConsumedWasReviewed, Drawn, Stages, SourceTypeOK, Bundle, Rows, Packet,
     Receipt, Status
<1>5. JudgedStands'
  BY DEF JudgedStands, Judging, Drawn, SourceTypeOK, Bundle, Rows, Packet, Receipt, Status
<1>6. QED  BY <1>1, <1>2, <1>3, <1>4, <1>5

LEMMA RemoveBundleStep ==
    ASSUME SourceInv, RemoveBundle
    PROVE  SourceInv'
<1> USE FileVersions DEF SourceInv, RemoveBundle, WriterAt, GateAt, NoRows, NoBundle, NoPacket
<1>1. SourceTypeOK'
  BY DEF SourceTypeOK, Bundle, Rows, Packet, Receipt, Status, Version
<1>2. Drawn'
  BY Numbers DEF Drawn, SourceTypeOK, Bundle, Rows, Packet, Receipt, Status, Version
<1>3. Claims' /\ RowsNumbered' /\ Stages'
  BY DEF Claims, RowsNumbered, Stages, Drawn, SourceTypeOK, Bundle, Rows, Packet, Receipt, Status
<1>4. EligibleIsApproved' /\ ConsumedWasReviewed'
  BY DEF EligibleIsApproved, ConsumedWasReviewed, Drawn, Stages, SourceTypeOK, Bundle, Rows, Packet,
     Receipt, Status
<1>5. JudgedStands'
  BY DEF JudgedStands, Judging, Drawn, SourceTypeOK, Bundle, Rows, Packet, Receipt, Status
<1>6. QED  BY <1>1, <1>2, <1>3, <1>4, <1>5

\* A call that ends knows nothing any more.
LEMMA CallIsOver ==
    ASSUME gate' = NoCallYet
    PROVE  gate' \in Gate /\ gate'.judged = 0 /\ JudgedStands'
  BY NoCallShape DEF JudgedStands, Judging, GateAt

\* A step of the call touches only what it knows and what it has consumed.
LEMMA CallMoves ==
    ASSUME SourceInv, UNCHANGED <<bundle, writer, fresh, approved>>,
           gate' \in Gate, gate'.judged \in {gate.judged, bundle.rows.id, 0}, JudgedStands',
           consumed' \in SUBSET Consumed, ConsumedWasReviewed'
    PROVE  SourceInv'
<1>1. SourceTypeOK'
  BY DEF SourceInv, SourceTypeOK
<1>2. Drawn'
  BY Numbers DEF SourceInv, Drawn
<1>3. Claims' /\ RowsNumbered' /\ Stages' /\ EligibleIsApproved'
  BY DEF SourceInv, Claims, RowsNumbered, Stages, EligibleIsApproved, WriterAt
<1>4. QED  BY <1>1, <1>2, <1>3 DEF SourceInv

\* What is consumed stays as it is in every step but ReadImages.
LEMMA NothingIsRead ==
    ASSUME SourceInv, UNCHANGED <<approved, consumed>>
    PROVE  consumed' \in SUBSET Consumed /\ ConsumedWasReviewed'
  BY DEF SourceInv, SourceTypeOK, ConsumedWasReviewed

\* The rows that are judged are in a split that is complete: no writer makes
\* them again.
LEMMA JudgeRowsStep ==
    ASSUME SourceInv, JudgeRows
    PROVE  SourceInv'
<1>1. UNCHANGED <<bundle, writer, fresh, approved, consumed>>
  BY DEF JudgeRows
<1>2. CASE ReadSplit(bundle)
  <2>1. gate' = [gate EXCEPT !.check = "rows", !.judged = bundle.rows.id] /\ gate \in Gate
    BY <1>2 DEF JudgeRows, CheckedStep, SourceInv, SourceTypeOK
  <2>2. gate' \in Gate
    BY <2>1, Numbers DEF SourceInv, Gate
  <2>3. /\ gate'.pc = gate.pc /\ gate'.check = "rows" /\ gate'.judged = bundle.rows.id
        /\ gate.pc \in {"idle", "submitted", "claimed"}
    BY <2>1 DEF Gate, JudgeRows
  <2>4. bundle.rows # NoRows /\ bundle.rows.id # 0
        /\ bundle.split.rows = bundle.rows.id /\ bundle.generation.status = "complete"
    BY <1>2 DEF ReadSplit, VerifyDataset, SourceInv, Stages
  <2>5. JudgedStands'
    BY <1>1, <2>3, <2>4 DEF JudgedStands, Judging, GateAt, WriterAt, SourceInv, RowsNumbered
  <2>6. QED  BY <1>1, <2>2, <2>3, <2>5, NothingIsRead, CallMoves
<1>3. CASE ~ReadSplit(bundle)
  <2>1. gate' = NoCallYet
    BY <1>3 DEF JudgeRows, CheckedStep
  <2>2. QED  BY <1>1, <2>1, CallIsOver, NothingIsRead, CallMoves
<1>4. QED  BY <1>2, <1>3

LEMMA ReadPacketStep ==
    ASSUME SourceInv, ReadPacket
    PROVE  SourceInv'
<1>1. UNCHANGED <<bundle, writer, fresh, approved, consumed>>
  BY DEF ReadPacket
<1>2. CASE PacketStands(bundle)
  <2>1. gate' = [gate EXCEPT !.check = "packet", !.packet = bundle.packet.value] /\ gate \in Gate
        /\ bundle.packet.value \in Packet
    BY <1>2 DEF ReadPacket, CheckedStep, SourceInv, SourceTypeOK, Bundle
  <2>2. gate' \in Gate
    BY <2>1 DEF Gate
  <2>3. /\ gate'.pc = gate.pc /\ gate'.check = "packet" /\ gate'.judged = gate.judged
        /\ gate'.receipt = gate.receipt /\ gate'.rows = gate.rows /\ gate.check = "rows"
    BY <2>1 DEF Gate, ReadPacket
  <2>4. JudgedStands'
    BY <1>1, <2>3 DEF JudgedStands, Judging, GateAt, WriterAt, SourceInv
  <2>5. QED  BY <1>1, <2>2, <2>3, <2>4, NothingIsRead, CallMoves
<1>3. CASE ~PacketStands(bundle)
  <2>1. gate' = NoCallYet
    BY <1>3 DEF ReadPacket, CheckedStep
  <2>2. QED  BY <1>1, <2>1, CallIsOver, NothingIsRead, CallMoves
<1>4. QED  BY <1>2, <1>3

\* The decisions that are read are those of the rows that are judged, if these
\* are still there.
LEMMA ReadReviewStep ==
    ASSUME SourceInv, ReadReview
    PROVE  SourceInv'
<1>1. UNCHANGED <<bundle, writer, fresh, approved, consumed>>
  BY DEF ReadReview
<1>2. CASE ReviewAccepts(bundle, gate.packet)
  <2>1. gate' = [gate EXCEPT !.check = "review", !.review = bundle.review.id] /\ gate \in Gate
        /\ bundle.review.id \in Version
    BY <1>2 DEF ReadReview, CheckedStep, SourceInv, SourceTypeOK, Bundle
  <2>2. gate' \in Gate
    BY <2>1 DEF Gate
  <2>3. /\ gate'.pc = gate.pc /\ gate'.check = "review" /\ gate'.judged = gate.judged
        /\ gate'.receipt = gate.receipt /\ gate'.rows = gate.rows /\ gate.check = "packet"
    BY <2>1 DEF Gate, ReadReview
  <2>4. bundle.review.eligible
    BY <1>2 DEF ReviewAccepts
  <2>5. JudgedStands'
    BY <1>1, <2>3, <2>4 DEF JudgedStands, Judging, GateAt, WriterAt, SourceInv, EligibleIsApproved
  <2>6. QED  BY <1>1, <2>2, <2>3, <2>5, NothingIsRead, CallMoves
<1>3. CASE ~ReviewAccepts(bundle, gate.packet)
  <2>1. gate' = NoCallYet
    BY <1>3 DEF ReadReview, CheckedStep
  <2>2. QED  BY <1>1, <2>1, CallIsOver, NothingIsRead, CallMoves
<1>4. QED  BY <1>2, <1>3

\* The call with the receipt of a check.
LEMMA ReviewedShape ==
    ASSUME NEW pc \in {"submitted", "claimed", "checked"}, NEW r \in Receipt, NEW j \in Version
    PROVE  /\ Reviewed(pc, r, j) \in Gate
           /\ Reviewed(pc, r, j).pc = pc /\ Reviewed(pc, r, j).check = "none"
           /\ Reviewed(pc, r, j).judged = j
  BY FileVersions DEF Reviewed, NoCallYet, NoPacket, NoRows, Gate, Packet, Rows

LEMMA NewReceiptShape == SourceInv => NewReceipt \in Receipt
  BY Numbers DEF NewReceipt, SourceInv, SourceTypeOK, Gate, Receipt

\* The last read of a check: the receipt may name rows that were not judged, and
\* what is known of those that were still stands.
LEMMA CheckEndsStep ==
    ASSUME SourceInv, Preflight \/ CheckExpected \/ CheckSources
    PROVE  SourceInv'
<1>1. UNCHANGED <<bundle, writer, fresh, approved, consumed>> /\ gate.check = "review"
  BY DEF Preflight, CheckExpected, CheckSources
<1>2. NewReceipt \in Receipt /\ gate.receipt \in Receipt /\ gate.judged \in Version
  BY NewReceiptShape, Numbers DEF SourceInv, SourceTypeOK, Gate
<1>3. \/ gate' = NoCallYet
      \/ gate' \in {Reviewed("submitted", NewReceipt, 0), Reviewed("claimed", gate.receipt, 0)}
      \/ gate' = Reviewed("checked", NewReceipt, gate.judged)
  BY DEF Preflight, CheckExpected, CheckSources, CheckedStep
<1>4. CASE gate' = NoCallYet
  BY <1>1, <1>4, CallIsOver, NothingIsRead, CallMoves
<1>5. CASE gate' \in {Reviewed("submitted", NewReceipt, 0), Reviewed("claimed", gate.receipt, 0)}
  <2>1. /\ gate' \in Gate /\ gate'.pc \in {"submitted", "claimed"} /\ gate'.check = "none"
        /\ gate'.judged = 0
    BY <1>2, <1>5, FileVersions, ReviewedShape
  <2>2. JudgedStands'
    BY <2>1 DEF JudgedStands, Judging, GateAt
  <2>3. QED  BY <1>1, <2>1, <2>2, NothingIsRead, CallMoves
<1>6. CASE gate' = Reviewed("checked", NewReceipt, gate.judged)
  <2>1. /\ gate' \in Gate /\ gate'.pc = "checked" /\ gate'.check = "none"
        /\ gate'.judged = gate.judged
    BY <1>2, <1>6, ReviewedShape
  <2>2. JudgedStands'
    BY <1>1, <2>1 DEF JudgedStands, Judging, GateAt, WriterAt, SourceInv
  <2>3. QED  BY <1>1, <2>1, <2>2, NothingIsRead, CallMoves
<1>7. QED  BY <1>3, <1>4, <1>5, <1>6

\* The rows that are loaded verify: if they are those that were judged, they
\* were approved with the artifacts they name.
LEMMA LoadRecordsStep ==
    ASSUME SourceInv, LoadRecords
    PROVE  SourceInv'
<1>1. UNCHANGED <<bundle, writer, fresh, approved, consumed>> /\ gate.pc = "checked"
  BY DEF LoadRecords, GateAt
<1>2. CASE ReadSplit(bundle)
  <2>1. gate' = [gate EXCEPT !.pc = "loaded", !.rows = bundle.rows] /\ gate \in Gate
    BY <1>2 DEF LoadRecords, CheckedStep, SourceInv, SourceTypeOK
  <2>2. gate' \in Gate
    BY <2>1, Numbers DEF SourceInv, Gate
  <2>3. /\ gate'.pc = "loaded" /\ gate'.check = gate.check /\ gate'.judged = gate.judged
        /\ gate'.receipt = gate.receipt /\ gate'.rows = bundle.rows
    BY <2>1 DEF Gate
  <2>4. /\ bundle.artifacts = bundle.manifest
        /\ bundle.rows.images = bundle.artifacts
    BY <1>2 DEF ReadSplit, VerifyDataset, SourceInv, Stages
  <2>5. JudgedStands'
    BY <1>1, <2>3, <2>4 DEF JudgedStands, Judging, GateAt, WriterAt, SourceInv
  <2>6. QED  BY <1>1, <2>2, <2>3, <2>5, NothingIsRead, CallMoves
<1>3. CASE ~ReadSplit(bundle)
  <2>1. gate' = NoCallYet
    BY <1>3 DEF LoadRecords, CheckedStep
  <2>2. QED  BY <1>1, <2>1, CallIsOver, NothingIsRead, CallMoves
<1>4. QED  BY <1>2, <1>3

LEMMA RecheckStep ==
    ASSUME SourceInv, Recheck
    PROVE  SourceInv'
<1>1. UNCHANGED <<bundle, writer, fresh, approved, consumed>> /\ gate.pc = "loaded"
  BY DEF Recheck, GateAt
<1>2. CASE bundle.rows.id = gate.receipt.rows
  <2>1. gate' = [gate EXCEPT !.pc = "training"] /\ gate \in Gate
    BY <1>2 DEF Recheck, CheckedStep, SourceInv, SourceTypeOK
  <2>2. /\ gate' \in Gate
        /\ gate'.pc = "training" /\ gate'.check = gate.check /\ gate'.judged = gate.judged
        /\ gate'.receipt = gate.receipt /\ gate'.rows = gate.rows
    BY <2>1 DEF Gate
  <2>3. JudgedStands'
    BY <1>1, <1>2, <2>2 DEF JudgedStands, Judging, GateAt, WriterAt, SourceInv
  <2>4. QED  BY <1>1, <2>2, <2>3, NothingIsRead, CallMoves
<1>3. CASE bundle.rows.id # gate.receipt.rows
  <2>1. gate' = NoCallYet
    BY <1>3 DEF Recheck, CheckedStep
  <2>2. QED  BY <1>1, <2>1, CallIsOver, NothingIsRead, CallMoves
<1>4. QED  BY <1>2, <1>3

LEMMA ReadImagesStep ==
    ASSUME SourceInv, ReadImages
    PROVE  SourceInv'
<1>1. UNCHANGED <<bundle, writer, fresh, approved>> /\ gate.pc = "training"
  BY DEF ReadImages, GateAt
<1>2. CASE bundle.artifacts = gate.rows.images
  <2> DEFINE c == [judged |-> gate.receipt.rows = gate.judged,
                   rows |-> gate.rows.id, artifacts |-> bundle.artifacts]
  <2>1. gate' = gate /\ consumed' = consumed \cup {c}
    BY <1>2 DEF ReadImages, CheckedStep
  <2>2. gate.rows.id \in Version /\ bundle.artifacts \in Version
    BY Numbers DEF SourceInv, Rows
  <2>3. c \in Consumed
    BY <2>2 DEF Consumed
  <2>4. c.judged => [rows |-> c.rows, artifacts |-> c.artifacts] \in approved
    BY <1>1, <1>2 DEF SourceInv, JudgedStands, Judging, GateAt
  <2> HIDE DEF c
  <2>5. consumed' \in SUBSET Consumed /\ ConsumedWasReviewed'
    BY <1>1, <2>1, <2>3, <2>4 DEF SourceInv, SourceTypeOK, ConsumedWasReviewed
  <2>6. gate' \in Gate /\ gate'.judged = gate.judged /\ JudgedStands'
    BY <1>1, <2>1 DEF SourceInv, SourceTypeOK, JudgedStands, Judging, GateAt, WriterAt
  <2>7. QED  BY <1>1, <2>5, <2>6, CallMoves
<1>3. CASE bundle.artifacts # gate.rows.images
  <2>1. gate' = NoCallYet /\ consumed' = consumed
    BY <1>3 DEF ReadImages, CheckedStep
  <2>2. QED  BY <1>1, <2>1, CallIsOver, NothingIsRead, CallMoves
<1>4. QED  BY <1>2, <1>3

LEMMA CallEndsStep ==
    ASSUME SourceInv, CallEnds
    PROVE  SourceInv'
<1>1. UNCHANGED <<bundle, writer, fresh, approved, consumed>> /\ gate' = NoCallYet
  BY DEF CallEnds
<1>2. QED  BY <1>1, CallIsOver, NothingIsRead, CallMoves

LEMMA SourceStep == SourceInv /\ [SourceNext]_sourceVars => SourceInv'
<1> SUFFICES ASSUME SourceInv, [SourceNext]_sourceVars PROVE SourceInv'
  OBVIOUS
<1>1. CASE UNCHANGED sourceVars
  BY <1>1 DEF sourceVars, SourceInv, SourceTypeOK, Drawn, Claims, RowsNumbered, Stages,
     EligibleIsApproved,
     ReadSplit, VerifyDataset, JudgedStands, Judging, ConsumedWasReviewed, WriterAt, GateAt
<1>2. CASE SourceNext
  BY <1>2, StartGenerateStep, ClaimGenerationStep, WriteArtifactsStep, CompleteGenerationStep,
     StartSplitStep, ClaimSplitStep, WriteSplitStep, KillWriterStep, PrepareStep, FinishPacketStep,
     DecideStep, JudgeRowsStep, ReadPacketStep, ReadReviewStep, CheckEndsStep, LoadRecordsStep,
     RecheckStep, ReadImagesStep, CallEndsStep, EditArtifactsStep, EditRowsStep,
     RemoveBundleStep
  DEF SourceNext
<1>3. QED  BY <1>1, <1>2

\* The invariant: the stages of a dataset follow each other whoever writes, and
\* what a call knows of the rows it has judged stands while they are there.
THEOREM SourceInvariant == SourceSpec => []SourceInv
<1>1. QED  BY SourceStart, SourceStep, PTL DEF SourceSpec

\* Under a receipt that names the rows its check has judged, training reads only
\* rows and images that were found eligible together, whatever is edited,
\* replaced or written by another process between any two of its reads.
THEOREM OnlyReviewedIsConsumed == SourceSpec => []ConsumedWasReviewed
<1>1. SourceInv => ConsumedWasReviewed
  BY DEF SourceInv
<1>2. QED  BY <1>1, SourceInvariant, PTL

-----------------------------------------------------------------------------
(***************************************************************************)
(* The saves of TrainingRun, for any number of calls that are submitted    *)
(* one after the other, any number of steps and any limit of saves.        *)
(***************************************************************************)

\* n is the newest sealed save of d, 0 if it has none.
IsNewest(d, n) ==
    /\ n \in {0} \cup Steps
    /\ n # 0 => d.save[n].state = "sealed"
    /\ \A m \in Steps : m > n => d.save[m].state # "sealed"

\* d has the training that was sealed up to s, and the weights that go with it.
Carries(d, s) ==
    \E n \in {0} \cup Steps : /\ IsNewest(d, n) /\ n >= s
                              /\ n # 0 => BestExists(d, n)

\* Calls follow each other, and only the owner is at work.
Alone ==
    \A c \in Trainers :
        /\ TrainAt(c, "started") =>
              /\ train_owner = NoTrainer
              /\ \A d \in Trainers : TrainAt(d, "started") => d = c
        /\ train_call[c].pc \in Training => train_owner = c

\* What retention would remove of directory d for call k.
Spare(k, d) == {n \in Steps : d.save[n].state # "none" /\ n \notin Kept(d, k.best)}

Saving == {"training", "open", "sealed", "rotating", "exported", "persisted"}

\* What call k at work knows of its directory d: it carries the training and is
\* the volume's, v, but for what the call has touched; once it trains, its last
\* save is the newest and sealed, and what retention tears is neither that save
\* nor the best one.
InStep(k, d, v, s) ==
    /\ Carries(d, s)
    /\ \A n \in Steps \ k.touched : d.save[n] = v.save[n]
    /\ k.pc \in Saving =>
          /\ \A m \in Steps : m > k.step => d.save[m].state = "none"
          /\ k.pc = "open" =>
                /\ k.step # 0 /\ k.step \in k.touched
                /\ d.save[k.step].state = "open"
          /\ k.pc # "open" /\ k.step # 0 => d.save[k.step].state = "sealed"
          /\ k.pc \in {"open", "sealed", "rotating"} =>
                k.step # 0 /\ k.best = d.save[k.step].best
          /\ k.pc # "rotating" => Saved(d, "torn") = {}
          /\ k.pc \in {"sealed", "rotating"} => BestExists(d, k.step)
          /\ k.pc = "rotating" =>
                /\ Saved(d, "torn") \subseteq Spare(k, d) \cap k.touched
                /\ \A m, n \in Saved(d, "torn") : m = n

TrainInv ==
    /\ TrainTypeOK
    /\ Alone
    /\ Carries(train_volume, safe)
    /\ \A c \in Trainers :
          train_call[c].pc \in {"started"} \cup Training =>
             InStep(train_call[c], train_view[c], train_volume, safe)

-----------------------------------------------------------------------------
LEMMA StepNumbers ==
    /\ Steps \subseteq Nat \ {0} /\ LastStep \in Nat /\ SaveLimit \in Nat \ {0}
    /\ \A n \in {0} \cup Steps : n + 1 \in Steps \/ n = LastStep
  BY TrainingAssumption DEF Steps

LEMMA StepOrder ==
    /\ \A n \in {0} \cup Steps : n \in Nat
    /\ \A m, n \in {0} \cup Steps : (m > n \/ m <= n) /\ ~(m > n /\ m <= n)
  <1>1. \A n \in {0} \cup Steps : n \in Nat
    BY StepNumbers
  <1>2. QED  BY <1>1

\* A sealed save that nothing above is sealed is at least as new as any.
LEMMA NewestIsLast ==
    ASSUME NEW d, NEW n \in Steps, NEW s \in {0} \cup Steps, Carries(d, s),
           \A m \in Steps : m > n => d.save[m].state = "none"
    PROVE  n >= s
<1>1. PICK x \in {0} \cup Steps : IsNewest(d, x) /\ x >= s
  BY DEF Carries
<1>2. x # 0 => d.save[x].state = "sealed"
  BY <1>1 DEF IsNewest
<1>3. x = 0 \/ ~(x > n)
  BY <1>2
<1>4. x \in Nat /\ n \in Nat /\ s \in Nat
  BY StepOrder
<1>5. QED  BY <1>1, <1>3, <1>4

LEMMA NewestIs ==
    ASSUME NEW d, NEW n, IsNewest(d, n)
    PROVE  NewestSealed(d) = n
<1> DEFINE sealed == Saved(d, "sealed")
<1>1. sealed \subseteq Steps /\ \A m \in Steps : m \in sealed <=> d.save[m].state = "sealed"
  BY DEF Saved
<1>2. \A m \in Steps : m \in Nat /\ m > 0
  BY StepNumbers
<1> HIDE DEF sealed
<1>3. CASE n = 0
  <2>1. sealed = {}
    BY <1>1, <1>2, <1>3 DEF IsNewest
  <2>2. QED  BY <1>3, <2>1 DEF NewestSealed, sealed
<1>4. CASE n # 0
  <2>1. n \in Steps /\ n \in sealed
    BY <1>1, <1>4 DEF IsNewest
  <2>2. \A m \in sealed : n >= m
    BY <1>1, <1>2, <2>1 DEF IsNewest
  <2>3. \A x \in sealed : (\A m \in sealed : x >= m) => x = n
    BY <1>1, <1>2, <2>1, <2>2
  <2>4. Max(sealed) = n
    BY <2>1, <2>2, <2>3 DEF Max
  <2>5. QED  BY <2>1, <2>4 DEF NewestSealed, sealed
<1>5. QED  BY <1>3, <1>4

LEMMA CarriesMeans ==
    ASSUME NEW d, NEW s, Carries(d, s)
    PROVE  /\ NewestSealed(d) \in {0} \cup Steps /\ NewestSealed(d) >= s
           /\ IsNewest(d, NewestSealed(d))
           /\ NewestSealed(d) # 0 => BestExists(d, NewestSealed(d))
<1>1. PICK n \in {0} \cup Steps : IsNewest(d, n) /\ n >= s /\ (n # 0 => BestExists(d, n))
  BY DEF Carries
<1>2. NewestSealed(d) = n
  BY <1>1, NewestIs
<1>3. QED  BY <1>1, <1>2

\* Retention keeps the last save and the best one, whatever the limit.
LEMMA RetentionKeeps ==
    ASSUME NEW d, NEW n \in Steps, NEW best \in {0} \cup Steps,
           d.save[n].state # "none",
           \A m \in Steps : m > n => d.save[m].state = "none",
           best # 0 => best <= n /\ d.save[best].state # "none"
    PROVE  n \in Kept(d, best) /\ (best # 0 => best \in Kept(d, best))
<1> USE StepNumbers
<1> DEFINE saves == Steps \ Saved(d, "none")
           limit == IF SaveLimit = 1 /\ best # Max(saves) THEN 2 ELSE SaveLimit
           Rank(m) == IF m = best /\ m # Max(saves) THEN Max(saves) ELSE m
           newer(m) == {x \in saves \ {m} : Rank(x) > Rank(m) \/ (Rank(x) = Rank(m) /\ x > m)}
<1>1. saves \subseteq Steps /\ n \in saves /\ \A m \in saves : m <= n
  BY DEF Saved
<1>2. Max(saves) = n
  <2>1. \A x \in saves : (\A m \in saves : x >= m) => x = n
    BY <1>1
  <2> HIDE DEF saves
  <2>2. QED  BY <1>1, <2>1 DEF Max
<1>3. best # 0 => best \in saves
  BY DEF Saved
<1>4. Kept(d, best) = {m \in saves : Cardinality(newer(m)) < limit}
  BY DEF Kept
<1> HIDE DEF saves
<1>5. newer(n) = {}
  <2> SUFFICES ASSUME NEW x \in newer(n) PROVE FALSE
    OBVIOUS
  <2>1. x \in saves /\ x # n /\ (Rank(x) > Rank(n) \/ (Rank(x) = Rank(n) /\ x > n))
    OBVIOUS
  <2>2. Rank(n) = n /\ Rank(x) \in {x, n}
    BY <1>2
  <2>3. x \in Nat /\ n \in Nat /\ x <= n
    BY <1>1, <2>1
  <2> HIDE DEF Rank
  <2>4. QED  BY <2>1, <2>2, <2>3
<1>6. Cardinality(newer(n)) < limit
  <2>1. Cardinality(newer(n)) = 0
    BY <1>5, FS_EmptySet
  <2>2. limit > 0
    OBVIOUS
  <2>3. QED  BY <2>1, <2>2
<1>7. ASSUME best # 0, best # n PROVE Cardinality(newer(best)) < limit
  <2>1. newer(best) \subseteq {n}
    <3> SUFFICES ASSUME NEW x \in newer(best) PROVE x = n
      OBVIOUS
    <3>1. x \in saves /\ x # best /\ x <= n
      BY <1>1
    <3>2. Rank(best) = n /\ Rank(x) = x
      BY <1>2, <1>7, <3>1
    <3>3. x >= n
      BY <3>2, <1>1, <3>1
    <3>4. QED  BY <1>1, <3>1, <3>3
  <2>2. Cardinality(newer(best)) \in {0, 1}
    <3>1. CASE newer(best) = {}
      BY <3>1, FS_EmptySet
    <3>2. CASE newer(best) = {n}
      BY <3>2, FS_Singleton
    <3>3. QED  BY <2>1, <3>1, <3>2
  <2>3. limit >= 2
    BY <1>2, <1>7
  <2>4. QED  BY <2>2, <2>3
<1>8. QED  BY <1>1, <1>3, <1>4, <1>6, <1>7

-----------------------------------------------------------------------------
LEMMA EmptyRunType == EmptyRun \in RunDirectory /\ NewTrainCall \in TrainCall
  BY DEF EmptyRun, RunDirectory, Save, NoSave, NewTrainCall, TrainCall

LEMMA TrainStart == TrainInit => TrainInv
<1> SUFFICES ASSUME TrainInit PROVE TrainInv
  OBVIOUS
<1>1. TrainTypeOK
  BY EmptyRunType DEF TrainInit, TrainTypeOK
<1>2. \A c \in Trainers : train_call[c].pc = "new"
  BY DEF TrainInit, NewTrainCall
<1>3. Carries(EmptyRun, 0)
  BY DEF Carries, IsNewest, EmptyRun, NoSave
<1>4. QED  BY <1>1, <1>2, <1>3 DEF TrainInv, Alone, TrainAt, Training, TrainInit

\* Only the saves of a directory matter.
LEMMA SameSaves ==
    ASSUME NEW d, NEW e, NEW s, d.save = e.save
    PROVE  Carries(d, s) <=> Carries(e, s)
  BY DEF Carries, IsNewest, BestExists

LEMMA NobodyElse ==
    ASSUME TrainInv, NEW c \in Trainers, train_call[c].pc \in {"started"} \cup Training,
           NEW d \in Trainers, d # c
    PROVE  train_call[d].pc \notin Training /\ (train_call[d].pc = "started" => FALSE)
  BY TrainingAssumption DEF TrainInv, Alone, TrainAt, Training

\* A step of a call that leaves the volume and the claim alone.
LEMMA TrainCallStep ==
    ASSUME TrainInv, NEW c \in Trainers, NEW k \in TrainCall, NEW d \in RunDirectory,
           train_call' = [train_call EXCEPT ![c] = k], train_view' = [train_view EXCEPT ![c] = d],
           UNCHANGED <<train_owner, train_volume, safe>>,
           k.pc \notin {"started"} \cup Training
             \/ /\ train_call[c].pc \in Training /\ k.pc \in Training
                /\ InStep(k, d, train_volume, safe)
    PROVE  TrainInv'
<1>1. /\ train_call'[c] = k /\ train_view'[c] = d
      /\ \A x \in Trainers : x # c => train_call'[x] = train_call[x] /\ train_view'[x] = train_view[x]
      /\ train_call' \in [Trainers -> TrainCall] /\ train_view' \in [Trainers -> RunDirectory]
  BY DEF TrainInv, TrainTypeOK
<1>2. TrainTypeOK'
  BY <1>1 DEF TrainInv, TrainTypeOK
<1>3. Alone'
  BY <1>1 DEF TrainInv, Alone, TrainAt, Training
<1>4. Carries(train_volume, safe)'
  BY DEF TrainInv, Carries, IsNewest, BestExists
<1>5. \A x \in Trainers :
          train_call'[x].pc \in {"started"} \cup Training =>
             InStep(train_call'[x], train_view'[x], train_volume', safe')
  <2> TAKE x \in Trainers
  <2> HAVE train_call'[x].pc \in {"started"} \cup Training
  <2>1. CASE x = c
    BY <1>1, <2>1 DEF Training
  <2>2. CASE x # c
    BY <1>1, <2>2 DEF TrainInv
  <2>3. QED  BY <2>1, <2>2
<1>6. QED  BY <1>2, <1>3, <1>4, <1>5 DEF TrainInv

LEMMA TrainEndStep ==
    ASSUME TrainInv, NEW c \in Trainers, NEW pc \in {"refused", "done", "failed", "dead"},
           TrainEnd(c, pc), UNCHANGED <<train_owner, train_volume, safe>>
    PROVE  TrainInv'
<1> DEFINE k == [NewTrainCall EXCEPT !.pc = pc]
<1>1. k \in TrainCall /\ k.pc = pc
  BY DEF NewTrainCall, TrainCall
<1>2. train_call' = [train_call EXCEPT ![c] = k] /\ train_view' = [train_view EXCEPT ![c] = EmptyRun]
  BY DEF TrainEnd
<1> HIDE DEF k
<1>3. QED  BY <1>1, <1>2, EmptyRunType, TrainCallStep DEF Training

\* The directory that a call at work publishes is its own.
LEMMA MergedIs ==
    ASSUME TrainInv, NEW c \in Trainers, train_call[c].pc \in Training
    PROVE  /\ Merged(c) \in RunDirectory /\ Merged(c).save = train_view[c].save
           /\ Carries(Merged(c), safe)
<1> DEFINE d == train_view[c]
           k == train_call[c]
           both == [n \in Steps |-> IF n \in k.touched THEN d.save[n] ELSE train_volume.save[n]]
<1>1. d \in RunDirectory /\ train_volume \in RunDirectory /\ k \in TrainCall
  BY DEF TrainInv, TrainTypeOK
<1>2. InStep(k, d, train_volume, safe)
  BY DEF TrainInv
<1>3. d.save \in [Steps -> Save]
  BY <1>1 DEF RunDirectory
<1>4. \A n \in Steps : both[n] = d.save[n]
  BY <1>2 DEF InStep
<1>5. both = d.save
  BY <1>3, <1>4
<1>6. Merged(c) = [d EXCEPT !.save = both]
  BY DEF Merged
<1> HIDE DEF both
<1>7. Merged(c) = d
  BY <1>1, <1>5, <1>6 DEF RunDirectory
<1>8. QED  BY <1>1, <1>2, <1>7 DEF InStep

LEMMA LaterOf ==
    ASSUME NEW a \in Nat, NEW b \in Nat, b >= a
    PROVE  Max({a, b}) = b
<1>1. \A x \in {a, b} : (\A y \in {a, b} : x >= y) => x = b
  OBVIOUS
<1>2. b \in {a, b} /\ \A y \in {a, b} : b >= y
  OBVIOUS
<1>3. QED  BY <1>1, <1>2 DEF Max

LEMMA PublishStep ==
    ASSUME TrainInv, NEW c \in Trainers, train_call[c].pc \in Training, Publishes(Merged(c))
    PROVE  /\ train_volume' \in RunDirectory /\ safe' \in {0} \cup Steps
           /\ train_volume'.save = train_view[c].save
           /\ \A e : e.save = train_view[c].save => Carries(e, safe')
<1> DEFINE d == Merged(c)
           n == NewestSealed(d)
<1>1. d \in RunDirectory /\ d.save = train_view[c].save /\ Carries(d, safe)
  BY MergedIs
<1>2. n \in {0} \cup Steps /\ n >= safe /\ IsNewest(d, n) /\ (n # 0 => BestExists(d, n))
  BY <1>1, CarriesMeans
<1>3. safe' = Max({safe, n}) /\ train_volume' = d
  BY DEF Publishes
<1> HIDE DEF d, n
<1>4. safe' = n /\ n \in Nat
  <2>1. safe \in Nat /\ n \in Nat
    BY <1>2, StepNumbers DEF TrainInv, TrainTypeOK
  <2>2. QED  BY <1>2, <1>3, <2>1, LaterOf
<1>5. n >= safe'
  BY <1>4
<1>6. Carries(d, safe')
  BY <1>2, <1>5 DEF Carries
<1>7. \A e : e.save = d.save => Carries(e, safe')
  BY <1>6, SameSaves
<1>8. QED  BY <1>1, <1>2, <1>3, <1>4, <1>7

\* A step of the call at work that may publish.
LEMMA VolumeStep ==
    ASSUME TrainInv, NEW c \in Trainers, train_call[c].pc \in Training,
           NEW k \in TrainCall, NEW d \in RunDirectory,
           train_call' = [train_call EXCEPT ![c] = k], train_view' = [train_view EXCEPT ![c] = d],
           Publishes(Merged(c)), UNCHANGED train_owner,
           k.pc \in {"started"} \cup Training
              => k.pc \in Training /\ InStep(k, d, train_volume', safe')
    PROVE  TrainInv'
<1>1. /\ train_call'[c] = k /\ train_view'[c] = d
      /\ \A x \in Trainers : x # c => train_call'[x] = train_call[x] /\ train_view'[x] = train_view[x]
      /\ train_call' \in [Trainers -> TrainCall] /\ train_view' \in [Trainers -> RunDirectory]
  BY DEF TrainInv, TrainTypeOK
<1>2. /\ train_volume' \in RunDirectory /\ safe' \in {0} \cup Steps
      /\ Carries(train_volume', safe')
  BY PublishStep
<1>3. TrainTypeOK'
  BY <1>1, <1>2 DEF TrainInv, TrainTypeOK
<1>4. Alone'
  BY <1>1 DEF TrainInv, Alone, TrainAt, Training
<1>5. \A x \in Trainers : x # c => train_call'[x].pc \notin {"started"} \cup Training
  BY <1>1, NobodyElse
<1>6. \A x \in Trainers :
          train_call'[x].pc \in {"started"} \cup Training =>
             InStep(train_call'[x], train_view'[x], train_volume', safe')
  BY <1>1, <1>5
<1>7. QED  BY <1>2, <1>3, <1>4, <1>6 DEF TrainInv

-----------------------------------------------------------------------------
(* The steps                                                               *)

LEMMA StartTrainStep ==
    ASSUME OneAtATime = TRUE, TrainInv, NEW c \in Trainers, StartTrain(c)
    PROVE  TrainInv'
<1>1. PICK r \in TrainRecipes :
          train_call' = [train_call EXCEPT ![c].pc = "started", ![c].recipe = r]
  BY DEF StartTrain
<1> DEFINE k == [train_call[c] EXCEPT !.pc = "started", !.recipe = r]
<1>2. /\ train_call[c] \in TrainCall /\ train_volume \in RunDirectory
      /\ train_call \in [Trainers -> TrainCall] /\ train_view \in [Trainers -> RunDirectory]
  BY DEF TrainInv, TrainTypeOK
<1>3. k \in TrainCall /\ k.pc = "started"
  BY <1>2 DEF TrainCall
<1>4. /\ train_call'[c] = k /\ train_view'[c] = train_volume
      /\ \A x \in Trainers : x # c => train_call'[x] = train_call[x] /\ train_view'[x] = train_view[x]
      /\ train_call' \in [Trainers -> TrainCall] /\ train_view' \in [Trainers -> RunDirectory]
  BY <1>1, <1>2, <1>3 DEF StartTrain
<1> HIDE DEF k
<1>5. UNCHANGED <<train_owner, train_volume, safe>> /\ train_owner = NoTrainer
      /\ \A d \in Trainers : train_call[d].pc # "started"
  BY DEF StartTrain
<1>6. TrainTypeOK'
  BY <1>4, <1>5 DEF TrainInv, TrainTypeOK
<1>7. Alone'
  BY <1>3, <1>4, <1>5 DEF TrainInv, Alone, TrainAt, Training
<1>8. Carries(train_volume', safe')
  BY <1>5 DEF TrainInv
<1>9. InStep(k, train_volume', train_volume', safe')
  BY <1>3, <1>8 DEF InStep, Saving
<1>10. \A x \in Trainers :
          train_call'[x].pc \in {"started"} \cup Training =>
             InStep(train_call'[x], train_view'[x], train_volume', safe')
  BY <1>4, <1>5, <1>9 DEF TrainInv
<1>11. QED  BY <1>6, <1>7, <1>8, <1>10 DEF TrainInv

LEMMA ClaimRunStep ==
    ASSUME TrainInv, NEW c \in Trainers, ClaimRun(c)
    PROVE  TrainInv'
<1>1. CASE train_owner # NoTrainer
  BY <1>1, TrainEndStep DEF ClaimRun
<1>2. CASE train_owner = NoTrainer
  <2> DEFINE k == [train_call[c] EXCEPT !.pc = "claimed"]
  <2>1. /\ train_call[c] \in TrainCall /\ train_call[c].pc = "started"
        /\ train_call \in [Trainers -> TrainCall]
    BY DEF TrainInv, TrainTypeOK, ClaimRun, TrainAt
  <2>2. k \in TrainCall /\ k.pc = "claimed" /\ k.touched = train_call[c].touched
    BY <2>1 DEF TrainCall, Training
  <2>3. /\ train_call'[c] = k /\ train_call' \in [Trainers -> TrainCall]
        /\ \A x \in Trainers : x # c => train_call'[x] = train_call[x]
        /\ train_owner' = c /\ UNCHANGED <<train_view, train_volume, safe>>
    BY <1>2, <2>1, <2>2 DEF ClaimRun, TrainGoto
  <2> HIDE DEF k
  <2>4. TrainTypeOK'
    BY <2>3 DEF TrainInv, TrainTypeOK
  <2>5. \A x \in Trainers : x # c => train_call[x].pc \notin {"started"} \cup Training
    BY <2>1, NobodyElse
  <2>6. Alone'
    BY <2>2, <2>3, <2>5 DEF Alone, TrainAt
  <2>7. InStep(k, train_view[c], train_volume, safe)
    BY <2>1, <2>2 DEF TrainInv, InStep, Saving
  <2>8. \A x \in Trainers :
          train_call'[x].pc \in {"started"} \cup Training =>
             InStep(train_call'[x], train_view'[x], train_volume', safe')
    BY <2>3, <2>5, <2>7
  <2>9. QED  BY <2>3, <2>4, <2>6, <2>8 DEF TrainInv
<1>3. QED  BY <1>1, <1>2

\* What is known of the call at work.
LEMMA AtWork ==
    ASSUME TrainInv, NEW c \in Trainers, train_call[c].pc \in Training
    PROVE  /\ train_call[c] \in TrainCall /\ train_view[c] \in RunDirectory
           /\ train_view[c].save \in [Steps -> Save]
           /\ train_call[c].step \in {0} \cup Steps /\ train_call[c].touched \in SUBSET Steps
           /\ train_call[c].best \in {0} \cup Steps
           /\ train_call[c].recipe \in TrainRecipes \cup {NoIdentity}
           /\ train_volume.save \in [Steps -> Save]
           /\ InStep(train_call[c], train_view[c], train_volume, safe)
  BY DEF TrainInv, TrainTypeOK, TrainCall, RunDirectory

LEMMA RecordIdentityStep ==
    ASSUME TrainInv, NEW c \in Trainers, RecordIdentity(c)
    PROVE  TrainInv'
<1> DEFINE d == train_view[c]
           r == train_call[c].recipe
           k == [train_call[c] EXCEPT !.pc = "recorded"]
           e == [d EXCEPT !.recipe = r]
<1>1. train_call[c].pc = "claimed" /\ UNCHANGED <<train_owner, train_volume, safe>>
  BY DEF RecordIdentity, TrainAt
<1>2. /\ train_call[c] \in TrainCall /\ d \in RunDirectory
      /\ r \in TrainRecipes \cup {NoIdentity}
      /\ InStep(train_call[c], d, train_volume, safe)
  BY <1>1, AtWork DEF Training
<1>3. k \in TrainCall /\ k.pc = "recorded" /\ k.touched = train_call[c].touched
  BY <1>2 DEF TrainCall, Training
<1>4. e \in RunDirectory /\ e.save = d.save
  BY <1>2 DEF RunDirectory
<1>5. InStep(k, d, train_volume, safe) /\ InStep(k, e, train_volume, safe)
  BY <1>2, <1>3, <1>4, SameSaves DEF InStep, Saving
<1>6. CASE TrainEnd(c, "failed")
  BY <1>1, <1>6, TrainEndStep
<1>7. CASE TrainGoto(c, "recorded") /\ train_view' = [train_view EXCEPT ![c].recipe = r]
  <2>1. train_call' = [train_call EXCEPT ![c] = k] /\ train_view' = [train_view EXCEPT ![c] = e]
    BY <1>7 DEF TrainGoto
  <2> HIDE DEF k, e
  <2>2. QED  BY <1>1, <1>3, <1>4, <1>5, <2>1, TrainCallStep DEF Training
<1>8. CASE TrainGoto(c, "recorded") /\ UNCHANGED train_view
  <2>1. train_call' = [train_call EXCEPT ![c] = k] /\ train_view' = [train_view EXCEPT ![c] = d]
    BY <1>8 DEF TrainGoto, TrainInv, TrainTypeOK
  <2> HIDE DEF k
  <2>2. QED  BY <1>1, <1>2, <1>3, <1>5, <2>1, TrainCallStep DEF Training
<1>9. QED  BY <1>6, <1>7, <1>8 DEF RecordIdentity

LEMMA SelectSaveStep ==
    ASSUME TrainInv, NEW c \in Trainers, SelectSave(c)
    PROVE  TrainInv'
<1> DEFINE d == train_view[c]
           n == NewestSealed(d)
           best == IF n = 0 THEN 0 ELSE d.save[n].best
           k == [train_call[c] EXCEPT !.pc = "training", !.step = n, !.best = best]
<1>1. train_call[c].pc = "identified" /\ UNCHANGED <<train_owner, train_volume, safe>>
  BY DEF SelectSave, TrainAt
<1>2. /\ train_call[c] \in TrainCall /\ d \in RunDirectory /\ d.save \in [Steps -> Save]
      /\ InStep(train_call[c], d, train_volume, safe)
  BY <1>1, AtWork DEF Training
<1>3. CASE ~Resumable(d)
  BY <1>1, <1>3, TrainEndStep DEF SelectSave
<1>4. CASE Resumable(d)
  <2>1. n \in {0} \cup Steps /\ IsNewest(d, n)
    BY <1>2, CarriesMeans DEF InStep
  <2>2. best \in {0} \cup Steps
    BY <1>2, <2>1 DEF Save
  <2>3. k \in TrainCall /\ k.pc = "training" /\ k.step = n /\ k.touched = train_call[c].touched
    <3> HIDE DEF n, best
    <3>1. QED  BY <1>2, <2>1, <2>2 DEF TrainCall, Training
  <2>4. train_call' = [train_call EXCEPT ![c] = k] /\ train_view' = [train_view EXCEPT ![c] = d]
    BY <1>4 DEF SelectSave, TrainInv, TrainTypeOK
  <2>5. \A m \in Steps : m > n => d.save[m].state = "none"
    BY <1>2, <1>4, <2>1 DEF Resumable, Saved, IsNewest, Save
  <2>6. Saved(d, "torn") = {} /\ (n # 0 => d.save[n].state = "sealed")
    BY <1>4, <2>1 DEF Resumable, IsNewest
  <2> HIDE DEF k, n
  <2>7. InStep(k, d, train_volume, safe)
    BY <1>2, <2>3, <2>5, <2>6 DEF InStep, Saving
  <2>8. QED  BY <1>1, <1>2, <2>3, <2>4, <2>7, TrainCallStep DEF Training
<1>5. QED  BY <1>3, <1>4

\* A save is written above all others, with no receipt: what the directory
\* carried it still carries.
LEMMA WriteSaveStep ==
    ASSUME TrainInv, NEW c \in Trainers, WriteSave(c)
    PROVE  TrainInv'
<1> DEFINE d == train_view[c]
           n == train_call[c].step + 1
           touched == train_call[c].touched \cup {n}
<1>1. /\ train_call[c].pc = "training" /\ n \in Steps
      /\ UNCHANGED <<train_owner, train_volume, safe>>
  BY DEF WriteSave, TrainAt
<1>2. PICK b \in {n} \cup ({train_call[c].best} \ {0}) :
         /\ train_view' = [train_view EXCEPT ![c].save[n] = [state |-> "open", best |-> b]]
         /\ train_call' = [train_call EXCEPT ![c].pc = "open", ![c].step = n, ![c].best = b,
                                             ![c].touched = @ \cup {n}]
  BY DEF WriteSave
<1> DEFINE k == [train_call[c] EXCEPT !.pc = "open", !.step = n, !.best = b, !.touched = touched]
           new == [state |-> "open", best |-> b]
           e == [d EXCEPT !.save = [d.save EXCEPT ![n] = new]]
<1>3. /\ train_call[c] \in TrainCall /\ d \in RunDirectory /\ d.save \in [Steps -> Save]
      /\ train_call[c].step \in {0} \cup Steps /\ train_call[c].touched \in SUBSET Steps
      /\ b \in {0} \cup Steps /\ n \in Nat
      /\ InStep(train_call[c], d, train_volume, safe)
  BY <1>1, AtWork, StepNumbers DEF Training
<1>4. train_call' = [train_call EXCEPT ![c] = k] /\ train_view' = [train_view EXCEPT ![c] = e]
  BY <1>2
<1> HIDE DEF n
<1>5. /\ k \in TrainCall /\ k.pc = "open" /\ k.step = n /\ k.best = b
      /\ k.touched = train_call[c].touched \cup {n}
  BY <1>1, <1>3 DEF TrainCall, Training
<1>6. e \in RunDirectory /\ e.save = [d.save EXCEPT ![n] = new] /\ new \in Save
  BY <1>1, <1>3 DEF RunDirectory, Save
<1>7. /\ e.save[n].state = "open" /\ e.save[n].best = b
      /\ \A m \in Steps : m # n => e.save[m] = d.save[m]
  BY <1>1, <1>3, <1>6
<1> HIDE DEF k, e
<1>8. \A m \in Steps : m > train_call[c].step => d.save[m].state = "none"
  BY <1>1, <1>3 DEF InStep, Saving
<1>9. n > train_call[c].step /\ \A m \in Steps : m > n => m > train_call[c].step
  <2>1. train_call[c].step \in Nat /\ n = train_call[c].step + 1
    BY <1>3, StepOrder DEF n
  <2>2. \A m \in Steps : m \in Nat
    BY StepOrder
  <2>3. QED  BY <2>1, <2>2
<1>10. Carries(e, safe)
  <2>1. PICK x \in {0} \cup Steps : IsNewest(d, x) /\ x >= safe /\ (x # 0 => BestExists(d, x))
    BY <1>3 DEF InStep, Carries
  <2>2. x # n
    BY <1>1, <1>8, <1>9, <2>1, StepNumbers DEF IsNewest
  <2>3. IsNewest(e, x)
    BY <1>7, <2>1, <2>2 DEF IsNewest
  <2>4. x # 0 => BestExists(e, x)
    <3> SUFFICES ASSUME x # 0 PROVE BestExists(e, x)
      OBVIOUS
    <3>1. x \in Steps /\ e.save[x] = d.save[x] /\ d.save[x].best \in {0} \cup Steps
      BY <1>3, <1>7, <2>1, <2>2 DEF Save
    <3>2. d.save[x].best \in Steps /\ d.save[d.save[x].best].state = "sealed"
             => e.save[d.save[x].best] = d.save[d.save[x].best]
      BY <1>1, <1>7, <1>8, <1>9
    <3>3. QED  BY <2>1, <3>1, <3>2, StepNumbers DEF BestExists
  <2>5. QED  BY <2>1, <2>3, <2>4 DEF Carries
<1>11. Saved(e, "torn") = {}
  <2>1. Saved(d, "torn") = {}
    BY <1>1, <1>3 DEF InStep, Saving
  <2>2. QED  BY <1>7, <2>1 DEF Saved
<1>12. \A m \in Steps \ k.touched : e.save[m] = train_volume.save[m]
  BY <1>3, <1>5, <1>7 DEF InStep
<1>13. /\ \A m \in Steps : m > n => e.save[m].state = "none"
       /\ n # 0
  BY <1>1, <1>7, <1>8, <1>9, StepNumbers
<1>14. InStep(k, e, train_volume, safe)
  BY <1>5, <1>7, <1>10, <1>11, <1>12, <1>13 DEF InStep, Saving
<1>15. QED  BY <1>1, <1>4, <1>5, <1>6, <1>14, TrainCallStep DEF Training

\* The receipt makes the last save the newest.
LEMMA SealSaveStep ==
    ASSUME TrainInv, NEW c \in Trainers, SealSave(c)
    PROVE  TrainInv'
<1> DEFINE d == train_view[c]
           n == train_call[c].step
           k == [train_call[c] EXCEPT !.pc = "sealed"]
           sealed == [d.save[n] EXCEPT !.state = "sealed"]
           e == [d EXCEPT !.save = [d.save EXCEPT ![n] = sealed]]
<1>1. train_call[c].pc = "open" /\ UNCHANGED <<train_owner, train_volume, safe>>
  BY DEF SealSave, TrainAt
<1>2. /\ train_call[c] \in TrainCall /\ d \in RunDirectory /\ d.save \in [Steps -> Save]
      /\ InStep(train_call[c], d, train_volume, safe)
      /\ n \in Steps /\ n \in train_call[c].touched /\ d.save[n].state = "open"
      /\ train_call[c].best = d.save[n].best /\ Saved(d, "torn") = {}
      /\ \A m \in Steps : m > n => d.save[m].state = "none"
  BY <1>1, AtWork DEF Training, InStep, Saving
<1>3. CASE ~BestExists(d, n)
  BY <1>1, <1>3, TrainEndStep DEF SealSave
<1>4. CASE BestExists(d, n)
  <2>1. train_call' = [train_call EXCEPT ![c] = k] /\ train_view' = [train_view EXCEPT ![c] = e]
    BY <1>4 DEF SealSave, TrainGoto
  <2>2. /\ k \in TrainCall /\ k.pc = "sealed" /\ k.step = n /\ k.best = train_call[c].best
        /\ k.touched = train_call[c].touched
    BY <1>2 DEF TrainCall, Training
  <2>3. sealed \in Save /\ sealed.state = "sealed" /\ sealed.best = d.save[n].best
    BY <1>2 DEF Save
  <2> HIDE DEF k, sealed
  <2>4. e \in RunDirectory /\ e.save = [d.save EXCEPT ![n] = sealed]
    BY <1>2, <2>3 DEF RunDirectory
  <2>5. e.save[n] = sealed /\ \A m \in Steps : m # n => e.save[m] = d.save[m]
    BY <1>2, <2>4
  <2> HIDE DEF e
  <2>6. IsNewest(e, n) /\ \A m \in Steps : m > n => e.save[m].state = "none"
    BY <1>2, <2>3, <2>5, StepNumbers DEF IsNewest
  <2>7. n >= safe
    <3>1. safe \in {0} \cup Steps /\ Carries(d, safe)
      BY <1>2 DEF InStep, TrainInv, TrainTypeOK
    <3>2. QED  BY <1>2, <3>1, NewestIsLast
  <2>8. BestExists(e, n)
    <3>1. e.save[n].best = d.save[n].best
      BY <2>3, <2>5
    <3>2. d.save[n].best \in Steps => (d.save[n].best < n => e.save[d.save[n].best] = d.save[d.save[n].best])
      BY <1>2, <2>5, StepNumbers
    <3>3. d.save[n].best \in {0} \cup Steps
      BY <1>2 DEF Save
    <3>4. QED  BY <1>4, <3>1, <3>2, <3>3, StepNumbers DEF BestExists
  <2>9. Carries(e, safe)
    BY <1>2, <2>6, <2>7, <2>8 DEF Carries
  <2>10. Saved(e, "torn") = {}
    BY <1>2, <2>3, <2>5 DEF Saved
  <2>11. \A m \in Steps \ k.touched : e.save[m] = train_volume.save[m]
    BY <1>2, <2>2, <2>5 DEF InStep
  <2>12. n # 0 /\ e.save[n].state = "sealed" /\ k.best = e.save[n].best
    BY <1>2, <2>2, <2>3, <2>5, StepNumbers
  <2>13. InStep(k, e, train_volume, safe)
    BY <2>2, <2>6, <2>8, <2>9, <2>10, <2>11, <2>12 DEF InStep, Saving
  <2>14. QED  BY <1>1, <2>1, <2>2, <2>4, <2>13, TrainCallStep DEF Training
<1>5. QED  BY <1>3, <1>4

\* Neither the last save nor the one with the best weights is surplus.
LEMMA SurplusIsOther ==
    ASSUME TrainInv, NEW c \in Trainers, train_call[c].pc = "rotating",
           NEW m \in Spare(train_call[c], train_view[c])
    PROVE  /\ m \in Steps /\ m < train_call[c].step
           /\ m # train_view[c].save[train_call[c].step].best
<1> DEFINE d == train_view[c]
           n == train_call[c].step
           b == d.save[n].best
<1>1. /\ d.save \in [Steps -> Save] /\ n \in Steps /\ train_call[c].best = b
      /\ \A x \in Steps : x > n => d.save[x].state = "none"
      /\ d.save[n].state = "sealed" /\ BestExists(d, n)
  BY AtWork DEF Training, InStep, Saving
<1>2. b \in {0} \cup Steps /\ (b # 0 => b <= n /\ d.save[b].state # "none")
  <2>1. b \in {0} \cup Steps /\ n \in Nat /\ b \in Nat
    BY <1>1, StepOrder DEF Save
  <2>2. b \in {0, n} \/ (b < n /\ d.save[b].state = "sealed")
    BY <1>1 DEF BestExists
  <2>3. d.save[n].state = "sealed"
    BY <1>1
  <2> HIDE DEF b, n, d
  <2>4. QED  BY <2>1, <2>2, <2>3
<1>3. n \in Kept(d, b) /\ (b # 0 => b \in Kept(d, b))
  BY <1>1, <1>2, RetentionKeeps
<1>4. m \in Steps /\ m \notin Kept(d, b) /\ d.save[m].state # "none"
  BY <1>1 DEF Spare
<1>5. m # n /\ m # b
  BY <1>3, <1>4, StepNumbers
<1>6. QED  BY <1>1, <1>4, <1>5, StepNumbers

\* Retention changes a save that is neither.
LEMMA RetentionStep ==
    ASSUME TrainInv, NEW c \in Trainers, train_call[c].pc = "rotating",
           NEW m \in Spare(train_call[c], train_view[c]), NEW e \in RunDirectory,
           \A y \in Steps : y # m => e.save[y] = train_view[c].save[y]
    PROVE  /\ Carries(e, safe) /\ BestExists(e, train_call[c].step)
           /\ e.save[train_call[c].step] = train_view[c].save[train_call[c].step]
           /\ \A y \in Steps : y > train_call[c].step => e.save[y].state = "none"
<1> DEFINE d == train_view[c]
           n == train_call[c].step
           b == d.save[n].best
<1>1. /\ d.save \in [Steps -> Save] /\ n \in Steps
      /\ \A y \in Steps : y > n => d.save[y].state = "none"
      /\ d.save[n].state = "sealed" /\ BestExists(d, n) /\ Carries(d, safe)
  BY AtWork DEF Training, InStep, Saving
<1>2. m \in Steps /\ m < n /\ m # b
  BY SurplusIsOther
<1>3. \A y \in Steps : y # m => e.save[y] = d.save[y]
  OBVIOUS
<1>4. e.save[n] = d.save[n] /\ \A y \in Steps : y > n => e.save[y].state = "none"
  <2>1. m \in Nat /\ n \in Nat /\ m # n
    BY <1>1, <1>2, StepOrder
  <2>2. \A y \in Steps : y > n => y # m
    BY <1>2, <2>1
  <2>3. QED  BY <1>1, <1>3, <2>1, <2>2
<1>5. b \in {0} \cup Steps
  BY <1>1 DEF Save
<1>6. BestExists(e, n)
  BY <1>1, <1>2, <1>3, <1>4, <1>5, StepNumbers DEF BestExists
<1>7. IsNewest(e, n)
  BY <1>1, <1>4, StepNumbers DEF IsNewest
<1>8. n >= safe
  <2>1. safe \in {0} \cup Steps
    BY DEF TrainInv, TrainTypeOK
  <2>2. QED  BY <1>1, <2>1, NewestIsLast
<1>9. QED  BY <1>1, <1>3, <1>4, <1>6, <1>7, <1>8 DEF Carries

\* Retention looks at which saves are there, and at nothing else of them.
LEMMA SameKept ==
    ASSUME NEW d, NEW e, NEW b, Saved(d, "none") = Saved(e, "none")
    PROVE  Kept(d, b) = Kept(e, b)
  BY DEF Kept

LEMMA RemoveSomeStep ==
    ASSUME TrainInv, NEW c \in Trainers, RemoveSome(c)
    PROVE  TrainInv'
<1> DEFINE d == train_view[c]
           n == train_call[c].step
           m == Min(Surplus(c))
           touched == train_call[c].touched \cup {m}
           k == [train_call[c] EXCEPT !.touched = touched]
           x == [d.save[m] EXCEPT !.state = "torn"]
           e == [d EXCEPT !.save = [d.save EXCEPT ![m] = x]]
<1>1. /\ train_call[c].pc = "rotating" /\ UNCHANGED <<train_owner, train_volume, safe>>
      /\ Saved(d, "torn") = {} /\ Surplus(c) # {}
  BY DEF RemoveSome, TrainAt
<1>2. /\ train_call[c] \in TrainCall /\ d \in RunDirectory /\ d.save \in [Steps -> Save]
      /\ train_call[c].touched \in SUBSET Steps
      /\ InStep(train_call[c], d, train_volume, safe)
  BY <1>1, AtWork DEF Training
<1>3. m \in Spare(train_call[c], d)
  <2>1. Surplus(c) = Spare(train_call[c], d) /\ Surplus(c) \in SUBSET Nat
    BY StepNumbers DEF Surplus, Spare
  <2>2. QED  BY <1>1, <2>1, LeastIsMin
<1>4. train_call' = [train_call EXCEPT ![c] = k] /\ train_view' = [train_view EXCEPT ![c] = e]
  BY DEF RemoveSome
<1> HIDE DEF m
<1>5. m \in Steps /\ d.save[m].state # "none" /\ m \notin Kept(d, train_call[c].best)
  BY <1>3 DEF Spare
<1>6. /\ k \in TrainCall /\ k.pc = "rotating" /\ k.step = n /\ k.best = train_call[c].best
      /\ k.touched = touched
  BY <1>1, <1>2, <1>5 DEF TrainCall
<1>7. x \in Save /\ x.state = "torn"
  BY <1>2, <1>5 DEF Save
<1> HIDE DEF k, x
<1>8. e \in RunDirectory /\ e.save = [d.save EXCEPT ![m] = x]
  BY <1>2, <1>5, <1>7 DEF RunDirectory
<1> HIDE DEF e
<1>9. /\ Carries(e, safe) /\ BestExists(e, n)
      /\ e.save[n] = d.save[n] /\ e.save[m] = x
      /\ \A y \in Steps : y # m => e.save[y] = d.save[y]
      /\ \A y \in Steps : y > n => e.save[y].state = "none"
  <2>1. e.save[m] = x /\ \A y \in Steps : y # m => e.save[y] = d.save[y]
    BY <1>2, <1>5, <1>8
  <2>2. /\ Carries(e, safe) /\ BestExists(e, train_call[c].step)
        /\ e.save[train_call[c].step] = train_view[c].save[train_call[c].step]
        /\ \A y \in Steps : y > train_call[c].step => e.save[y].state = "none"
    <3>1. m \in Spare(train_call[c], train_view[c]) /\ train_call[c].pc = "rotating"
      BY <1>1, <1>3
    <3>2. e \in RunDirectory
      BY <1>8
    <3>3. \A y \in Steps : y # m => e.save[y] = train_view[c].save[y]
      BY <2>1
    <3> HIDE DEF d, n
    <3>4. QED  BY <3>1, <3>2, <3>3, RetentionStep
  <2>3. QED  BY <2>1, <2>2
<1>10. Saved(e, "torn") = {m}
  BY <1>1, <1>5, <1>7, <1>9 DEF Saved
<1>11. m \in Spare(k, e)
  <2>1. Saved(e, "none") = Saved(d, "none")
    BY <1>5, <1>7, <1>9 DEF Saved
  <2>2. Kept(e, k.best) = Kept(d, train_call[c].best)
    BY <1>6, <2>1, SameKept
  <2>3. QED  BY <1>5, <1>7, <1>9, <2>2 DEF Spare
<1>12. \A y \in Steps \ k.touched : e.save[y] = train_volume.save[y]
  BY <1>2, <1>6, <1>9 DEF InStep
<1>13. n # 0 /\ d.save[n].state = "sealed" /\ k.best = d.save[n].best
  BY <1>1, <1>2, <1>6 DEF InStep, Saving
<1>14. InStep(k, e, train_volume, safe)
  BY <1>6, <1>9, <1>10, <1>11, <1>12, <1>13 DEF InStep, Saving
<1>15. QED  BY <1>1, <1>4, <1>6, <1>8, <1>14, TrainCallStep DEF Training

LEMMA RemoveRestStep ==
    ASSUME TrainInv, NEW c \in Trainers, RemoveRest(c)
    PROVE  TrainInv'
<1> DEFINE d == train_view[c]
           k == train_call[c]
           n == k.step
<1>1. PICK m \in Saved(d, "torn") : train_view' = [train_view EXCEPT ![c].save[m] = NoSave]
  BY DEF RemoveRest
<1> DEFINE e == [d EXCEPT !.save = [d.save EXCEPT ![m] = NoSave]]
<1>2. k.pc = "rotating" /\ UNCHANGED <<train_owner, train_volume, train_call, safe>>
  BY DEF RemoveRest, TrainAt
<1>3. /\ k \in TrainCall /\ d \in RunDirectory /\ d.save \in [Steps -> Save]
      /\ InStep(k, d, train_volume, safe)
  BY <1>2, AtWork DEF Training
<1>4. /\ m \in Spare(k, d) /\ m \in k.touched /\ m \in Steps
      /\ \A y \in Saved(d, "torn") : y = m
  BY <1>2, <1>3 DEF InStep, Saving, Spare
<1>5. train_call' = [train_call EXCEPT ![c] = k] /\ train_view' = [train_view EXCEPT ![c] = e]
  BY <1>1, <1>2 DEF TrainInv, TrainTypeOK
<1>6. NoSave \in Save /\ NoSave.state = "none"
  BY DEF NoSave, Save
<1>7. e \in RunDirectory /\ e.save = [d.save EXCEPT ![m] = NoSave]
  BY <1>3, <1>4, <1>6 DEF RunDirectory
<1> HIDE DEF e
<1>8. /\ Carries(e, safe) /\ BestExists(e, n)
      /\ e.save[n] = d.save[n] /\ e.save[m] = NoSave
      /\ \A y \in Steps : y # m => e.save[y] = d.save[y]
      /\ \A y \in Steps : y > n => e.save[y].state = "none"
  <2>1. e.save[m] = NoSave /\ \A y \in Steps : y # m => e.save[y] = d.save[y]
    BY <1>3, <1>4, <1>7
  <2>2. /\ Carries(e, safe) /\ BestExists(e, train_call[c].step)
        /\ e.save[train_call[c].step] = train_view[c].save[train_call[c].step]
        /\ \A y \in Steps : y > train_call[c].step => e.save[y].state = "none"
    <3>1. m \in Spare(train_call[c], train_view[c]) /\ train_call[c].pc = "rotating"
      BY <1>2, <1>4
    <3>2. e \in RunDirectory
      BY <1>7
    <3>3. \A y \in Steps : y # m => e.save[y] = train_view[c].save[y]
      BY <2>1
    <3> HIDE DEF d, k, n
    <3>4. QED  BY <3>1, <3>2, <3>3, RetentionStep
  <2>3. QED  BY <2>1, <2>2
<1>9. Saved(e, "torn") = {}
  BY <1>4, <1>6, <1>8 DEF Saved
<1>10. \A y \in Steps \ k.touched : e.save[y] = train_volume.save[y]
  BY <1>3, <1>4, <1>8 DEF InStep
<1>11. n # 0 /\ d.save[n].state = "sealed" /\ k.best = d.save[n].best
  BY <1>2, <1>3 DEF InStep, Saving
<1>12. InStep(k, e, train_volume, safe)
  BY <1>2, <1>8, <1>9, <1>10, <1>11 DEF InStep, Saving
<1>13. QED  BY <1>2, <1>3, <1>5, <1>7, <1>12, TrainCallStep DEF Training

LEMMA RotatedStep ==
    ASSUME TrainInv, NEW c \in Trainers, Rotated(c)
    PROVE  TrainInv'
<1> DEFINE d == train_view[c]
           k == [train_call[c] EXCEPT !.pc = "training"]
<1>1. /\ train_call[c].pc = "rotating" /\ Surplus(c) = {}
      /\ UNCHANGED <<train_owner, train_volume, train_view, safe>>
  BY DEF Rotated, TrainAt
<1>2. /\ train_call[c] \in TrainCall /\ d \in RunDirectory
      /\ InStep(train_call[c], d, train_volume, safe)
  BY <1>1, AtWork DEF Training
<1>3. train_call' = [train_call EXCEPT ![c] = k] /\ train_view' = [train_view EXCEPT ![c] = d]
  BY <1>1 DEF Rotated, TrainGoto, TrainInv, TrainTypeOK
<1>4. /\ k \in TrainCall /\ k.pc = "training" /\ k.step = train_call[c].step
      /\ k.touched = train_call[c].touched
  BY <1>2 DEF TrainCall, Training
<1> HIDE DEF k
<1>5. Saved(d, "torn") = {}
  BY <1>1, <1>2 DEF InStep, Saving, Spare, Surplus
<1>6. InStep(k, d, train_volume, safe)
  BY <1>1, <1>2, <1>4, <1>5 DEF InStep, Saving
<1>7. QED  BY <1>1, <1>2, <1>3, <1>4, <1>6, TrainCallStep DEF Training

LEMMA ExportModelStep ==
    ASSUME TrainInv, NEW c \in Trainers, ExportModel(c)
    PROVE  TrainInv'
<1> DEFINE d == train_view[c]
           k == [train_call[c] EXCEPT !.pc = "exported"]
           e == [d EXCEPT !.merged = TRUE]
<1>1. train_call[c].pc = "training" /\ UNCHANGED <<train_owner, train_volume, safe>>
  BY DEF ExportModel, TrainAt
<1>2. /\ train_call[c] \in TrainCall /\ d \in RunDirectory
      /\ InStep(train_call[c], d, train_volume, safe)
  BY <1>1, AtWork DEF Training
<1>3. train_call' = [train_call EXCEPT ![c] = k] /\ train_view' = [train_view EXCEPT ![c] = e]
  BY DEF ExportModel, TrainGoto
<1>4. /\ k \in TrainCall /\ k.pc = "exported" /\ k.step = train_call[c].step
      /\ k.touched = train_call[c].touched
  BY <1>2 DEF TrainCall, Training
<1>5. e \in RunDirectory /\ e.save = d.save
  BY <1>2 DEF RunDirectory
<1> HIDE DEF k, e
<1>6. Carries(e, safe)
  BY <1>2, <1>5, SameSaves DEF InStep
<1>7. Saved(e, "torn") = Saved(d, "torn")
  BY <1>5 DEF Saved
<1>8. InStep(k, e, train_volume, safe)
  BY <1>1, <1>2, <1>4, <1>5, <1>6, <1>7 DEF InStep, Saving
<1>9. QED  BY <1>1, <1>3, <1>4, <1>5, <1>8, TrainCallStep DEF Training

\* After a commit the volume has what the call has.
LEMMA TrainCommitStep ==
    ASSUME TrainInv, NEW c \in Trainers, TrainCommit(c)
    PROVE  TrainInv'
<1> DEFINE d == train_view[c]
           pc == train_call[c].pc
           k == [train_call[c] EXCEPT !.pc = AfterTrainCommit[pc], !.touched = {}]
<1>1. /\ pc \in {"recorded", "sealed", "exported"} /\ Publishes(Merged(c))
      /\ UNCHANGED <<train_owner, train_view>>
  BY DEF TrainCommit, AfterTrainCommit
<1>2. /\ train_call[c] \in TrainCall /\ d \in RunDirectory
      /\ InStep(train_call[c], d, train_volume, safe)
  BY <1>1, AtWork DEF Training
<1>3. train_call' = [train_call EXCEPT ![c] = k] /\ train_view' = [train_view EXCEPT ![c] = d]
  BY <1>1 DEF TrainCommit, TrainInv, TrainTypeOK
<1>4. AfterTrainCommit[pc] = CASE pc = "recorded" -> "identified"
                               [] pc = "sealed" -> "rotating"
                               [] pc = "exported" -> "persisted"
  BY <1>1 DEF AfterTrainCommit
<1>5. /\ k \in TrainCall /\ k.pc = AfterTrainCommit[pc] /\ k.step = train_call[c].step
      /\ k.best = train_call[c].best /\ k.touched = {}
  BY <1>1, <1>2, <1>4 DEF TrainCall, Training
<1> HIDE DEF k
<1>6. train_volume'.save = d.save /\ Carries(d, safe')
  BY <1>1, PublishStep DEF Training
<1>7. k.pc \in Training /\ k.pc # "open"
  BY <1>1, <1>4, <1>5 DEF Training
<1>8. InStep(k, d, train_volume', safe')
  <2>1. CASE pc = "recorded"
    BY <1>4, <1>5, <1>6, <2>1 DEF InStep, Saving
  <2>2. CASE pc = "sealed"
    <3>1. Saved(d, "torn") = {} /\ BestExists(d, k.step)
      BY <1>2, <1>5, <2>2 DEF InStep, Saving
    <3>2. QED  BY <1>2, <1>4, <1>5, <1>6, <2>2, <3>1 DEF InStep, Saving
  <2>3. CASE pc = "exported"
    BY <1>2, <1>4, <1>5, <1>6, <2>3 DEF InStep, Saving
  <2>4. QED  BY <1>1, <2>1, <2>2, <2>3
<1>9. QED  BY <1>1, <1>2, <1>3, <1>5, <1>7, <1>8, VolumeStep DEF Training

LEMMA TrainCommitFailsStep ==
    ASSUME TrainInv, NEW c \in Trainers, TrainCommitFails(c)
    PROVE  TrainInv'
<1>1. /\ train_call[c].pc \in Training /\ TrainEnd(c, "failed") /\ UNCHANGED train_owner
  BY DEF TrainCommitFails, AfterTrainCommit, Training
<1>2. CASE UNCHANGED <<train_volume, safe>>
  BY <1>1, <1>2, TrainEndStep
<1>3. CASE Publishes(Merged(c))
  <2> DEFINE k == [NewTrainCall EXCEPT !.pc = "failed"]
  <2>1. k \in TrainCall /\ k.pc = "failed"
    BY DEF NewTrainCall, TrainCall
  <2>2. train_call' = [train_call EXCEPT ![c] = k] /\ train_view' = [train_view EXCEPT ![c] = EmptyRun]
    BY <1>1 DEF TrainEnd
  <2> HIDE DEF k
  <2>3. k.pc \notin {"started"} \cup Training
    BY <2>1 DEF Training
  <2>4. \A d \in RunDirectory :
           train_view' = [train_view EXCEPT ![c] = d] => TrainInv'
    <3> TAKE d \in RunDirectory
    <3> HAVE train_view' = [train_view EXCEPT ![c] = d]
    <3>1. train_call' = [train_call EXCEPT ![c] = k] /\ UNCHANGED train_owner
      BY <1>1, <2>2
    <3>2. k \in TrainCall /\ train_call[c].pc \in Training
      BY <1>1, <2>1
    <3>3. QED  BY <1>3, <2>3, <3>1, <3>2, VolumeStep
  <2>5. QED  BY <2>2, <2>4, EmptyRunType
<1>4. QED  BY <1>2, <1>3 DEF TrainCommitFails

LEMMA TrainWriteThroughStep ==
    ASSUME TrainInv, NEW c \in Trainers, TrainWriteThrough(c)
    PROVE  TrainInv'
<1> DEFINE d == train_view[c]
           k == train_call[c]
<1>1. /\ k.pc \in Training /\ Publishes(Merged(c))
      /\ UNCHANGED <<train_owner, train_view, train_call>>
  BY DEF TrainWriteThrough
<1>2. /\ k \in TrainCall /\ d \in RunDirectory /\ InStep(k, d, train_volume, safe)
  BY <1>1, AtWork
<1>3. train_call' = [train_call EXCEPT ![c] = k] /\ train_view' = [train_view EXCEPT ![c] = d]
  BY <1>1 DEF TrainInv, TrainTypeOK
<1>4. train_volume'.save = d.save /\ Carries(d, safe')
  BY <1>1, PublishStep
<1>5. InStep(k, d, train_volume', safe')
  BY <1>2, <1>4 DEF InStep
<1>6. QED  BY <1>1, <1>2, <1>3, <1>5, VolumeStep

\* A claim that is given up is nobody's: its call is over.
LEMMA ReleaseRunStep ==
    ASSUME TrainInv, NEW c \in Trainers, ReleaseRun(c)
    PROVE  TrainInv'
<1>1. train_call[c].pc = "persisted" /\ UNCHANGED <<train_volume, safe>>
  BY DEF ReleaseRun, TrainAt
<1>2. train_owner = c
  BY <1>1 DEF TrainInv, Alone, Training
<1> DEFINE k == [NewTrainCall EXCEPT !.pc = "done"]
<1>3. train_owner' = NoTrainer /\ train_call' = [train_call EXCEPT ![c] = k]
      /\ train_view' = [train_view EXCEPT ![c] = EmptyRun]
  BY <1>2 DEF ReleaseRun, TrainEnd
<1>4. k \in TrainCall /\ k.pc = "done"
  BY DEF NewTrainCall, TrainCall
<1> HIDE DEF k
<1>5. /\ train_call'[c].pc = "done"
      /\ \A x \in Trainers : x # c => train_call'[x] = train_call[x] /\ train_view'[x] = train_view[x]
      /\ train_call' \in [Trainers -> TrainCall] /\ train_view' \in [Trainers -> RunDirectory]
  BY <1>3, <1>4, EmptyRunType DEF TrainInv, TrainTypeOK
<1>6. \A x \in Trainers : train_call'[x].pc \notin {"started"} \cup Training
  BY <1>1, <1>5, NobodyElse DEF Training
<1>7. TrainTypeOK'
  BY <1>1, <1>3, <1>5 DEF TrainInv, TrainTypeOK
<1>8. Carries(train_volume, safe)'
  BY <1>1 DEF TrainInv, Carries, IsNewest, BestExists
<1>9. QED  BY <1>6, <1>7, <1>8 DEF TrainInv, Alone, TrainAt

LEMMA ClearRunClaimStep ==
    ASSUME TrainInv, ClearRunClaim
    PROVE  TrainInv'
<1>1. /\ train_owner' = NoTrainer /\ train_call[train_owner].pc \in {"failed", "dead"}
      /\ UNCHANGED <<train_volume, train_view, train_call, safe>>
  BY DEF ClearRunClaim
<1>2. \A x \in Trainers : train_call[x].pc \notin Training
  BY <1>1 DEF TrainInv, Alone, Training
<1>3. Alone'
  BY <1>1, <1>2 DEF TrainInv, Alone, TrainAt
<1>4. TrainTypeOK'
  BY <1>1 DEF TrainInv, TrainTypeOK
<1>5. Carries(train_volume, safe)'
  BY <1>1 DEF TrainInv, Carries, IsNewest, BestExists
<1>6. QED  BY <1>1, <1>2, <1>3, <1>4, <1>5 DEF TrainInv

LEMMA TrainStep ==
    ASSUME OneAtATime = TRUE, TrainInv, [TrainNext]_trainVars
    PROVE  TrainInv'
<1>1. ASSUME NEW c \in Trainers, StartTrain(c) PROVE TrainInv'
  BY <1>1, StartTrainStep
<1>2. ASSUME NEW c \in Trainers, ClaimRun(c) PROVE TrainInv'
  BY <1>2, ClaimRunStep
<1>3. ASSUME NEW c \in Trainers, RecordIdentity(c) PROVE TrainInv'
  BY <1>3, RecordIdentityStep
<1>4. ASSUME NEW c \in Trainers, SelectSave(c) PROVE TrainInv'
  BY <1>4, SelectSaveStep
<1>5. ASSUME NEW c \in Trainers, WriteSave(c) PROVE TrainInv'
  BY <1>5, WriteSaveStep
<1>6. ASSUME NEW c \in Trainers, SealSave(c) PROVE TrainInv'
  BY <1>6, SealSaveStep
<1>7. ASSUME NEW c \in Trainers, RemoveSome(c) PROVE TrainInv'
  BY <1>7, RemoveSomeStep
<1>8. ASSUME NEW c \in Trainers, RemoveRest(c) PROVE TrainInv'
  BY <1>8, RemoveRestStep
<1>9. ASSUME NEW c \in Trainers, Rotated(c) PROVE TrainInv'
  BY <1>9, RotatedStep
<1>10. ASSUME NEW c \in Trainers, ExportModel(c) PROVE TrainInv'
  BY <1>10, ExportModelStep
<1>11. ASSUME NEW c \in Trainers, TrainCommit(c) PROVE TrainInv'
  BY <1>11, TrainCommitStep
<1>12. ASSUME NEW c \in Trainers, TrainCommitFails(c) PROVE TrainInv'
  BY <1>12, TrainCommitFailsStep
<1>13. ASSUME NEW c \in Trainers, ReleaseRun(c) PROVE TrainInv'
  BY <1>13, ReleaseRunStep
<1>14. ASSUME NEW c \in Trainers, TrainWriteThrough(c) PROVE TrainInv'
  BY <1>14, TrainWriteThroughStep
<1>15. ASSUME NEW c \in Trainers, KillTrain(c) PROVE TrainInv'
  BY <1>15, TrainEndStep DEF KillTrain
<1>16. CASE ClearRunClaim
  BY <1>16, ClearRunClaimStep
<1>17. CASE UNCHANGED trainVars
  BY <1>17 DEF trainVars, TrainInv, TrainTypeOK, Alone, TrainAt
<1>18. QED
  BY <1>1, <1>2, <1>3, <1>4, <1>5, <1>6, <1>7, <1>8, <1>9, <1>10, <1>11, <1>12, <1>13, <1>14,
     <1>15, <1>16, <1>17 DEF TrainNext

\* The invariant holds of every behaviour in which no call is submitted while
\* another one is not over.
THEOREM TrainInvariant == ASSUME OneAtATime = TRUE PROVE TrainSpec => []TrainInv
<1>1. TrainInit => TrainInv
  BY TrainStart
<1>2. TrainInv /\ [TrainNext]_trainVars => TrainInv'
  BY TrainStep
<1>3. QED  BY <1>1, <1>2, PTL DEF TrainSpec

\* SavesSurvive (rotate_checkpoints and the commits of sft_lora.py): training
\* that was sealed in the volume is never lost, for any number of calls and of
\* saves and any save limit, wherever a call is killed.
THEOREM SavesAreKept == ASSUME OneAtATime = TRUE PROVE TrainSpec => []SavesSurvive
<1>1. TrainInv => SavesSurvive
  <2> SUFFICES ASSUME TrainInv, safe # 0 PROVE
         /\ NewestSealed(train_volume) >= safe
         /\ BestExists(train_volume, NewestSealed(train_volume))
    BY DEF SavesSurvive
  <2>1. Carries(train_volume, safe) /\ safe \in {0} \cup Steps
    BY DEF TrainInv, TrainTypeOK
  <2>2. /\ NewestSealed(train_volume) \in {0} \cup Steps /\ NewestSealed(train_volume) >= safe
        /\ NewestSealed(train_volume) # 0
              => BestExists(train_volume, NewestSealed(train_volume))
    BY <2>1, CarriesMeans
  <2>3. NewestSealed(train_volume) # 0
    BY <2>1, <2>2, StepNumbers
  <2>4. QED  BY <2>2, <2>3
<1>2. QED  BY <1>1, TrainInvariant, PTL

-----------------------------------------------------------------------------
(* Where a call resumes                                                    *)

\* Until it trains, a call has touched no save.
Unwritten ==
    \A c \in Trainers :
        train_call[c].pc \in {"new", "started", "claimed", "recorded", "identified"}
            => train_call[c].touched = {}

\* A step of one call, to k.
LEMMA UnwrittenStep ==
    ASSUME TrainTypeOK, Unwritten, NEW c \in Trainers, NEW k,
           train_call' = [train_call EXCEPT ![c] = k],
           k.pc \in {"new", "started", "claimed", "recorded", "identified"} => k.touched = {}
    PROVE  Unwritten'
<1>1. \A x \in Trainers : train_call'[x] = IF x = c THEN k ELSE train_call[x]
  BY DEF TrainTypeOK
<1>2. QED  BY <1>1 DEF Unwritten

LEMMA UnwrittenEnd ==
    ASSUME TrainTypeOK, Unwritten, NEW c \in Trainers,
           NEW pc \in {"refused", "done", "failed", "dead"}, TrainEnd(c, pc)
    PROVE  Unwritten'
<1> DEFINE k == [NewTrainCall EXCEPT !.pc = pc]
<1>1. k.touched = {} /\ train_call' = [train_call EXCEPT ![c] = k]
  BY DEF TrainEnd, NewTrainCall
<1> HIDE DEF k
<1>2. QED  BY <1>1, UnwrittenStep

\* A step that only moves the call.
LEMMA UnwrittenGoto ==
    ASSUME TrainTypeOK, Unwritten, NEW c \in Trainers,
           NEW pc \in {"claimed", "recorded", "sealed", "training", "exported"},
           train_call' = [train_call EXCEPT ![c].pc = pc],
           pc \in {"claimed", "recorded"} => train_call[c].pc \in {"started", "claimed"}
    PROVE  Unwritten'
<1> DEFINE k == [train_call[c] EXCEPT !.pc = pc]
<1>1. train_call[c] \in TrainCall
  BY DEF TrainTypeOK
<1>2. k.pc = pc /\ k.touched = train_call[c].touched
  BY <1>1 DEF TrainCall
<1>3. train_call' = [train_call EXCEPT ![c] = k]
  OBVIOUS
<1> HIDE DEF k
<1>4. k.pc \in {"new", "started", "claimed", "recorded", "identified"} => k.touched = {}
  BY <1>2 DEF Unwritten
<1>5. QED  BY <1>3, <1>4, UnwrittenStep

\* Only select_checkpoint takes a call from its claim to training.
LEMMA OnlySelectSave ==
    ASSUME TrainTypeOK, [TrainNext]_trainVars, NEW c \in Trainers,
           train_call[c].pc = "identified", train_call'[c].pc = "training"
    PROVE  SelectSave(c) /\ train_call'[c].step = NewestSealed(train_view[c])
<1>1. /\ train_call[c] \in TrainCall /\ train_call'[c] # train_call[c]
      /\ train_call \in [Trainers -> TrainCall]
  BY DEF TrainTypeOK
<1>2. \A pc : TrainEnd(c, pc) => train_call'[c].pc = pc
  BY <1>1 DEF TrainEnd, NewTrainCall
<1>4. PICK x \in Trainers :
          \/ StartTrain(x) \/ ClaimRun(x) \/ RecordIdentity(x) \/ SelectSave(x)
          \/ WriteSave(x) \/ SealSave(x) \/ RemoveSome(x) \/ Rotated(x)
          \/ ExportModel(x) \/ TrainCommit(x) \/ TrainCommitFails(x) \/ ReleaseRun(x)
          \/ KillTrain(x)
  BY <1>1 DEF TrainNext, trainVars, ClearRunClaim, RemoveRest, TrainWriteThrough
<1>5. x = c
  <2>1. \A y \in Trainers : y # x => train_call'[y] = train_call[y]
    BY <1>1, <1>4 DEF StartTrain, ClaimRun, RecordIdentity, SelectSave, WriteSave, SealSave,
          RemoveSome, Rotated, ExportModel, TrainCommit, TrainCommitFails, ReleaseRun, KillTrain,
          TrainGoto, TrainEnd
  <2>2. QED  BY <1>1, <2>1
<1>6. ~KillTrain(c)
  BY <1>2 DEF KillTrain
<1>7. SelectSave(c)
  BY <1>4, <1>5, <1>6 DEF StartTrain, ClaimRun, RecordIdentity, WriteSave, SealSave,
     RemoveSome, Rotated, ExportModel, TrainCommit, TrainCommitFails, ReleaseRun,
     TrainAt, AfterTrainCommit
<1>8. train_call'[c].step = NewestSealed(train_view[c])
  <2>1. ~TrainEnd(c, "failed")
    BY <1>2
  <2>2. QED  BY <1>1, <1>7, <2>1 DEF SelectSave, TrainCall
<1>9. QED  BY <1>7, <1>8

LEMMA StaysUnwritten ==
    ASSUME TrainTypeOK, Unwritten, [TrainNext]_trainVars
    PROVE  Unwritten'
<1> USE DEF TrainAt, TrainGoto
<1>1. ASSUME NEW c \in Trainers PROVE train_call[c] \in TrainCall
  BY DEF TrainTypeOK
<1>2. ASSUME NEW c \in Trainers, StartTrain(c) PROVE Unwritten'
  <2>1. PICK r \in TrainRecipes :
           train_call' = [train_call EXCEPT ![c].pc = "started", ![c].recipe = r]
    BY <1>2 DEF StartTrain
  <2> DEFINE k == [train_call[c] EXCEPT !.pc = "started", !.recipe = r]
  <2>2. k.touched = {}
    BY <1>1, <1>2 DEF StartTrain, Unwritten, TrainCall
  <2>3. train_call' = [train_call EXCEPT ![c] = k]
    BY <2>1
  <2> HIDE DEF k
  <2>4. QED  BY <2>2, <2>3, UnwrittenStep
<1>3. ASSUME NEW c \in Trainers, ClaimRun(c) PROVE Unwritten'
  BY <1>3, UnwrittenGoto, UnwrittenEnd DEF ClaimRun
<1>4. ASSUME NEW c \in Trainers, RecordIdentity(c) PROVE Unwritten'
  BY <1>4, UnwrittenGoto, UnwrittenEnd DEF RecordIdentity
<1>5. ASSUME NEW c \in Trainers, SelectSave(c) PROVE Unwritten'
  <2>1. CASE TrainEnd(c, "failed")
    BY <2>1, UnwrittenEnd
  <2>2. CASE ~TrainEnd(c, "failed")
    <3>1. \A x \in Trainers : x # c => train_call'[x] = train_call[x]
      BY <1>5, <2>2 DEF SelectSave, TrainTypeOK
    <3>2. train_call'[c].pc = "training"
      BY <1>1, <1>5, <2>2 DEF SelectSave, TrainTypeOK, TrainCall
    <3>3. QED  BY <3>1, <3>2 DEF Unwritten
  <2>3. QED  BY <2>1, <2>2
<1>6. ASSUME NEW c \in Trainers, WriteSave(c) PROVE Unwritten'
  <2>1. \A x \in Trainers : x # c => train_call'[x] = train_call[x]
    BY <1>6 DEF WriteSave, TrainTypeOK
  <2>2. train_call'[c].pc = "open"
    BY <1>1, <1>6 DEF WriteSave, TrainTypeOK, TrainCall
  <2>3. QED  BY <2>1, <2>2 DEF Unwritten
<1>7. ASSUME NEW c \in Trainers, SealSave(c) PROVE Unwritten'
  BY <1>7, UnwrittenGoto, UnwrittenEnd DEF SealSave
<1>8. ASSUME NEW c \in Trainers, RemoveSome(c) PROVE Unwritten'
  <2>1. \A x \in Trainers : x # c => train_call'[x] = train_call[x]
    BY <1>8 DEF RemoveSome, TrainTypeOK
  <2>2. train_call'[c].pc = "rotating"
    BY <1>1, <1>8 DEF RemoveSome, TrainTypeOK, TrainCall
  <2>3. QED  BY <2>1, <2>2 DEF Unwritten
<1>9. ASSUME NEW c \in Trainers, Rotated(c) PROVE Unwritten'
  BY <1>9, UnwrittenGoto DEF Rotated
<1>10. ASSUME NEW c \in Trainers, ExportModel(c) PROVE Unwritten'
  BY <1>10, UnwrittenGoto DEF ExportModel
<1>11. ASSUME NEW c \in Trainers, TrainCommit(c) PROVE Unwritten'
  <2>1. \A x \in Trainers : x # c => train_call'[x] = train_call[x]
    BY <1>11 DEF TrainCommit, TrainTypeOK
  <2>2. train_call'[c].touched = {}
    BY <1>1, <1>11 DEF TrainCommit, TrainTypeOK, TrainCall
  <2>3. QED  BY <2>1, <2>2 DEF Unwritten
<1>12. ASSUME NEW c \in Trainers, TrainCommitFails(c) PROVE Unwritten'
  BY <1>12, UnwrittenEnd DEF TrainCommitFails
<1>13. ASSUME NEW c \in Trainers, ReleaseRun(c) PROVE Unwritten'
  BY <1>13, UnwrittenEnd DEF ReleaseRun
<1>14. ASSUME NEW c \in Trainers, KillTrain(c) PROVE Unwritten'
  BY <1>14, UnwrittenEnd DEF KillTrain
<1>15. CASE UNCHANGED train_call
  BY <1>15 DEF Unwritten
<1>16. QED
  BY <1>2, <1>3, <1>4, <1>5, <1>6, <1>7, <1>8, <1>9, <1>10, <1>11, <1>12, <1>13, <1>14, <1>15
     DEF TrainNext, trainVars, RemoveRest, TrainWriteThrough, ClearRunClaim

\* NoSilentRollback (latest of checkpoints.py): a call resumes from the newest
\* sealed save of the volume, however many were submitted one after the other.
THEOREM ResumesFromTheNewest == ASSUME OneAtATime = TRUE PROVE TrainSpec => NoSilentRollback
<1>1. TrainInit => Unwritten
  BY DEF TrainInit, Unwritten, NewTrainCall
<1>2. TrainInv /\ Unwritten /\ [TrainNext]_trainVars => Unwritten'
  BY StaysUnwritten DEF TrainInv
<1>3. TrainInv /\ Unwritten /\ [TrainNext]_trainVars =>
         [\A c \in Trainers :
             TrainAt(c, "identified") /\ train_call'[c].pc = "training"
                => train_call'[c].step >= NewestSealed(train_volume)]_trainVars
  <2> SUFFICES ASSUME TrainInv, Unwritten, [TrainNext]_trainVars, NEW c \in Trainers,
                      train_call[c].pc = "identified", train_call'[c].pc = "training"
               PROVE  train_call'[c].step >= NewestSealed(train_volume)
    BY DEF TrainAt
  <2>1. SelectSave(c) /\ train_call'[c].step = NewestSealed(train_view[c])
    BY OnlySelectSave DEF TrainInv
  <2>2. Saved(train_view[c], "sealed") = Saved(train_volume, "sealed")
    BY AtWork DEF Training, Unwritten, InStep, Saved
  <2>3. NewestSealed(train_view[c]) = NewestSealed(train_volume)
    BY <2>2 DEF NewestSealed
  <2>4. NewestSealed(train_view[c]) \in Nat
    <3>1. NewestSealed(train_view[c]) \in {0} \cup Steps
      BY AtWork, CarriesMeans DEF Training, InStep
    <3>2. QED  BY <3>1, StepOrder
  <2>5. QED  BY <2>1, <2>3, <2>4
<1>4. QED  BY <1>1, <1>2, <1>3, TrainInvariant, PTL DEF TrainSpec, NoSilentRollback

-----------------------------------------------------------------------------
(***************************************************************************)
(* The types of TrainingRun, also of calls that work at the same time.     *)
(***************************************************************************)

LEMMA GreatestIsMax ==
    ASSUME NEW N \in SUBSET Steps, N # {}
    PROVE  Max(N) \in N
<1> DEFINE D == {LastStep - n : n \in N}
<1>1. LastStep \in Nat /\ \A n \in N : n \in Nat /\ n <= LastStep
  BY StepNumbers DEF Steps
<1>2. D \in SUBSET Nat /\ D # {}
  BY <1>1
<1> HIDE DEF D
<1>3. PICK d \in D : \A e \in D : d <= e
  BY <1>2, LeastNumber
<1>4. PICK n \in N : d = LastStep - n
  BY <1>3 DEF D
<1>5. \A m \in N : LastStep - n <= LastStep - m
  BY <1>3, <1>4 DEF D
<1>6. \A m \in N : n >= m
  BY <1>1, <1>5
<1>7. QED  BY <1>4, <1>6 DEF Max

LEMMA NewestIsTyped == \A d : NewestSealed(d) \in {0} \cup Steps
<1> SUFFICES ASSUME NEW d PROVE NewestSealed(d) \in {0} \cup Steps
  OBVIOUS
<1>1. Saved(d, "sealed") \in SUBSET Steps
  BY DEF Saved
<1>2. QED  BY <1>1, GreatestIsMax DEF NewestSealed

LEMMA PublishIsTyped ==
    ASSUME TrainTypeOK, NEW c \in Trainers, Publishes(Merged(c))
    PROVE  train_volume' \in RunDirectory /\ safe' \in {0} \cup Steps
<1> DEFINE both == [n \in Steps |-> IF n \in train_call[c].touched
                                    THEN train_view[c].save[n] ELSE train_volume.save[n]]
           newest == NewestSealed(Merged(c))
<1>1. train_view[c] \in RunDirectory /\ train_volume \in RunDirectory
  BY DEF TrainTypeOK
<1>2. both \in [Steps -> Save]
  BY <1>1 DEF RunDirectory
<1>3. train_volume' = [train_view[c] EXCEPT !.save = both] /\ safe' = Max({safe, newest})
  BY DEF Publishes, Merged
<1>4. safe \in {0} \cup Steps /\ newest \in {0} \cup Steps
  BY NewestIsTyped DEF TrainTypeOK
<1> HIDE DEF both, newest
<1>5. train_volume' \in RunDirectory
  BY <1>1, <1>2, <1>3 DEF RunDirectory
<1>6. Max({safe, newest}) \in {safe, newest}
  <2>1. safe \in Nat /\ newest \in Nat
    BY <1>4, StepOrder
  <2>2. safe >= newest \/ newest >= safe
    BY <2>1
  <2>3. \E x \in {safe, newest} : \A y \in {safe, newest} : x >= y
    BY <2>1, <2>2
  <2>4. QED  BY <2>3 DEF Max
<1>7. QED  BY <1>3, <1>4, <1>5, <1>6

\* What a step makes of the call and of the directory it sees.
LEMMA CallIsTyped ==
    ASSUME TrainTypeOK, NEW c \in Trainers, NEW k \in TrainCall, NEW d \in RunDirectory,
           train_call' = [train_call EXCEPT ![c] = k], train_view' = [train_view EXCEPT ![c] = d],
           train_owner' \in Trainers \cup {NoTrainer},
           train_volume' \in RunDirectory, safe' \in {0} \cup Steps
    PROVE  TrainTypeOK'
  BY DEF TrainTypeOK

LEMMA EndIsTyped ==
    ASSUME TrainTypeOK, NEW c \in Trainers, NEW pc \in {"refused", "done", "failed", "dead"},
           TrainEnd(c, pc), train_owner' \in Trainers \cup {NoTrainer},
           train_volume' \in RunDirectory, safe' \in {0} \cup Steps
    PROVE  TrainTypeOK'
<1> DEFINE k == [NewTrainCall EXCEPT !.pc = pc]
<1>1. k \in TrainCall
  BY DEF NewTrainCall, TrainCall
<1>2. train_call' = [train_call EXCEPT ![c] = k] /\ train_view' = [train_view EXCEPT ![c] = EmptyRun]
  BY DEF TrainEnd
<1> HIDE DEF k
<1>3. QED  BY <1>1, <1>2, EmptyRunType, CallIsTyped

LEMMA GotoIsTyped ==
    ASSUME TrainTypeOK, NEW c \in Trainers, NEW pc \in {"started"} \cup Training, NEW d \in RunDirectory,
           TrainGoto(c, pc), train_view' = [train_view EXCEPT ![c] = d],
           train_owner' \in Trainers \cup {NoTrainer},
           UNCHANGED <<train_volume, safe>>
    PROVE  TrainTypeOK'
<1> DEFINE k == [train_call[c] EXCEPT !.pc = pc]
<1>1. k \in TrainCall
  BY DEF TrainTypeOK, TrainCall
<1>2. train_call' = [train_call EXCEPT ![c] = k]
  BY DEF TrainGoto
<1>3. train_volume' \in RunDirectory /\ safe' \in {0} \cup Steps
  BY DEF TrainTypeOK
<1> HIDE DEF k
<1>4. QED  BY <1>1, <1>2, <1>3, CallIsTyped

LEMMA TrainTypesStep == TrainTypeOK /\ [TrainNext]_trainVars => TrainTypeOK'
<1> SUFFICES ASSUME TrainTypeOK, [TrainNext]_trainVars PROVE TrainTypeOK'
  OBVIOUS
<1>1. /\ train_owner \in Trainers \cup {NoTrainer} /\ train_volume \in RunDirectory
      /\ safe \in {0} \cup Steps
  BY DEF TrainTypeOK
<1>2. ASSUME NEW c \in Trainers,
             \/ StartTrain(c) \/ ClaimRun(c) \/ RecordIdentity(c) \/ SelectSave(c)
             \/ WriteSave(c) \/ SealSave(c) \/ RemoveSome(c) \/ RemoveRest(c) \/ Rotated(c)
             \/ ExportModel(c) \/ TrainCommit(c) \/ TrainCommitFails(c) \/ ReleaseRun(c)
             \/ TrainWriteThrough(c) \/ KillTrain(c)
      PROVE  TrainTypeOK'
  <2> DEFINE d == train_view[c]
             k == train_call[c]
  <2>1. d \in RunDirectory /\ k \in TrainCall /\ d.save \in [Steps -> Save]
    BY DEF TrainTypeOK, RunDirectory
  <2>2. /\ train_view = [train_view EXCEPT ![c] = d] /\ train_call = [train_call EXCEPT ![c] = k]
    BY DEF TrainTypeOK
  <2>3. ASSUME NEW n \in Steps, NEW s \in Save
        PROVE  [d EXCEPT !.save[n] = s] \in RunDirectory
    BY <2>1, <2>3 DEF RunDirectory
  <2> HIDE DEF d, k
  <2>4. CASE StartTrain(c)
    <3>1. PICK r \in TrainRecipes : train_call' = [train_call EXCEPT ![c].pc = "started", ![c].recipe = r]
      BY <2>4 DEF StartTrain
    <3> DEFINE n == [k EXCEPT !.pc = "started", !.recipe = r]
    <3>2. n \in TrainCall /\ train_call' = [train_call EXCEPT ![c] = n]
      BY <2>1, <3>1 DEF TrainCall, k
    <3> HIDE DEF n
    <3>3. QED  BY <1>1, <2>4, <3>2, CallIsTyped DEF StartTrain
  <2>5. CASE ClaimRun(c)
    <3>1. CASE train_owner = NoTrainer
      BY <2>1, <2>2, <2>5, <3>1, <1>1, GotoIsTyped DEF ClaimRun, Training
    <3>2. CASE train_owner # NoTrainer
      BY <1>1, <2>5, <3>2, EndIsTyped DEF ClaimRun
    <3>3. QED  BY <3>1, <3>2
  <2>6. CASE RecordIdentity(c)
    <3> DEFINE n == [d EXCEPT !.recipe = k.recipe]
    <3>1. n \in RunDirectory
      BY <2>1 DEF RunDirectory, TrainCall
    <3>2. CASE train_view' = [train_view EXCEPT ![c].recipe = k.recipe] /\ TrainGoto(c, "recorded")
      <4>1. train_view' = [train_view EXCEPT ![c] = n]
        BY <3>2 DEF d
      <4> HIDE DEF n
      <4>2. QED  BY <1>1, <2>6, <3>1, <3>2, <4>1, GotoIsTyped DEF RecordIdentity, Training
    <3>3. CASE TrainGoto(c, "recorded") /\ UNCHANGED train_view
      BY <1>1, <2>1, <2>2, <2>6, <3>3, GotoIsTyped DEF RecordIdentity, Training
    <3>4. CASE TrainEnd(c, "failed")
      BY <1>1, <2>6, <3>4, EndIsTyped DEF RecordIdentity
    <3>5. QED  BY <2>6, <3>2, <3>3, <3>4 DEF RecordIdentity, k
  <2>7. CASE SelectSave(c)
    <3> DEFINE n == NewestSealed(d)
               b == IF n = 0 THEN 0 ELSE d.save[n].best
               new == [k EXCEPT !.pc = "training", !.step = n, !.best = b]
    <3>1. n \in {0} \cup Steps
      BY NewestIsTyped
    <3>2. b \in {0} \cup Steps
      BY <2>1, <3>1 DEF Save
    <3>3. CASE Resumable(d)
      <4>1. train_call' = [train_call EXCEPT ![c] = new] /\ UNCHANGED <<train_owner, train_volume, train_view, safe>>
        BY <2>7, <3>3 DEF SelectSave, d, k
      <4> HIDE DEF n, b
      <4>2. new \in TrainCall
        BY <2>1, <3>1, <3>2 DEF TrainCall, Training
      <4> HIDE DEF new
      <4>3. QED  BY <1>1, <2>1, <2>2, <4>1, <4>2, CallIsTyped
    <3>4. CASE ~Resumable(d)
      BY <1>1, <2>7, <3>4, EndIsTyped DEF SelectSave, d
    <3>5. QED  BY <3>3, <3>4
  <2>8. CASE WriteSave(c)
    <3> DEFINE n == k.step + 1
    <3>1. n \in Steps
      BY <2>8 DEF WriteSave, k
    <3>2. PICK b \in {n} \cup ({k.best} \ {0}) :
              /\ train_view' = [train_view EXCEPT ![c].save[n] = [state |-> "open", best |-> b]]
              /\ train_call' = [train_call EXCEPT ![c].pc = "open", ![c].step = n, ![c].best = b,
                                                  ![c].touched = @ \cup {n}]
      BY <2>8 DEF WriteSave, k
    <3>3. b \in Steps
      BY <2>1, <3>1, <3>2 DEF TrainCall
    <3> DEFINE new == [k EXCEPT !.pc = "open", !.step = n, !.best = b, !.touched = @ \cup {n}]
               s == [state |-> "open", best |-> b]
               e == [d EXCEPT !.save[n] = s]
    <3>4. train_call' = [train_call EXCEPT ![c] = new] /\ train_view' = [train_view EXCEPT ![c] = e]
      BY <3>2 DEF d, k
    <3>5. UNCHANGED <<train_owner, train_volume, safe>>
      BY <2>8 DEF WriteSave
    <3> HIDE DEF n
    <3>6. new \in TrainCall
      BY <2>1, <3>1, <3>3 DEF TrainCall, Training
    <3>7. s \in Save
      BY <3>3 DEF Save
    <3> HIDE DEF s
    <3>8. e \in RunDirectory
      BY <2>3, <3>1, <3>7
    <3> HIDE DEF new, e
    <3>9. QED  BY <1>1, <3>4, <3>5, <3>6, <3>8, CallIsTyped
  <2>9. CASE SealSave(c)
    <3> DEFINE n == k.step
               s == [d.save[n] EXCEPT !.state = "sealed"]
               e == [d EXCEPT !.save[n] = s]
    <3>1. CASE BestExists(d, n)
      <4>1. train_view' = [train_view EXCEPT ![c] = e] /\ TrainGoto(c, "sealed")
            /\ UNCHANGED <<train_owner, train_volume, safe>>
        BY <2>9, <3>1 DEF SealSave, d, k
      <4>2. e \in RunDirectory
        BY <2>1 DEF RunDirectory, Save
      <4> HIDE DEF e
      <4>3. QED  BY <1>1, <4>1, <4>2, GotoIsTyped DEF Training
    <3>2. CASE ~BestExists(d, n)
      BY <1>1, <2>9, <3>2, EndIsTyped DEF SealSave, d, k
    <3>3. QED  BY <3>1, <3>2
  <2>10. CASE RemoveSome(c)
    <3> DEFINE n == Min(Surplus(c))
               s == [d.save[n] EXCEPT !.state = "torn"]
               e == [d EXCEPT !.save[n] = s]
               new == [k EXCEPT !.touched = @ \cup {n}]
    <3>1. n \in Steps
      <4>1. Surplus(c) \in SUBSET Nat /\ Surplus(c) \subseteq Steps /\ Surplus(c) # {}
        BY <2>10, StepNumbers DEF Surplus, RemoveSome
      <4>2. QED  BY <4>1, LeastIsMin
    <3>2. train_view' = [train_view EXCEPT ![c] = e] /\ train_call' = [train_call EXCEPT ![c] = new]
          /\ UNCHANGED <<train_owner, train_volume, safe>>
      BY <2>10 DEF RemoveSome, d, k
    <3> HIDE DEF n
    <3>3. s \in Save
      BY <2>1, <3>1 DEF Save
    <3> HIDE DEF s
    <3>4. e \in RunDirectory /\ new \in TrainCall
      BY <2>1, <2>3, <3>1, <3>3 DEF TrainCall
    <3> HIDE DEF e, new
    <3>5. QED  BY <1>1, <3>2, <3>4, CallIsTyped
  <2>11. CASE RemoveRest(c)
    <3>1. PICK n \in Saved(d, "torn") : train_view' = [train_view EXCEPT ![c].save[n] = NoSave]
      BY <2>11 DEF RemoveRest, d
    <3> DEFINE e == [d EXCEPT !.save[n] = NoSave]
    <3>2. n \in Steps /\ NoSave \in Save
      BY <3>1 DEF Saved, NoSave, Save
    <3>3. e \in RunDirectory
      BY <2>3, <3>2
    <3>4. train_view' = [train_view EXCEPT ![c] = e] /\ train_call' = [train_call EXCEPT ![c] = k]
          /\ UNCHANGED <<train_owner, train_volume, safe>>
      BY <2>2, <2>11, <3>1 DEF RemoveRest, d
    <3> HIDE DEF e
    <3>5. QED  BY <1>1, <2>1, <3>3, <3>4, CallIsTyped
  <2>12. CASE Rotated(c)
    BY <1>1, <2>1, <2>2, <2>12, GotoIsTyped DEF Rotated, Training
  <2>13. CASE ExportModel(c)
    <3> DEFINE e == [d EXCEPT !.merged = TRUE]
    <3>1. e \in RunDirectory
      BY <2>1 DEF RunDirectory
    <3>2. train_view' = [train_view EXCEPT ![c] = e] /\ TrainGoto(c, "exported")
          /\ UNCHANGED <<train_owner, train_volume, safe>>
      BY <2>13 DEF ExportModel, d
    <3> HIDE DEF e
    <3>3. QED  BY <1>1, <3>1, <3>2, GotoIsTyped DEF Training
  <2>14. CASE TrainCommit(c)
    <3> DEFINE pc == AfterTrainCommit[k.pc]
               new == [k EXCEPT !.pc = pc, !.touched = {}]
    <3>1. new \in TrainCall
      <4>1. pc \in Training
        BY <2>14 DEF TrainCommit, AfterTrainCommit, Training, k
      <4> HIDE DEF pc
      <4>2. QED  BY <2>1, <4>1 DEF TrainCall
    <3>2. train_call' = [train_call EXCEPT ![c] = new] /\ Publishes(Merged(c))
          /\ UNCHANGED <<train_owner, train_view>>
      BY <2>14 DEF TrainCommit, k
    <3> HIDE DEF new
    <3>3. QED  BY <1>1, <2>1, <2>2, <3>1, <3>2, PublishIsTyped, CallIsTyped
  <2>15. CASE TrainCommitFails(c)
    <3>1. train_volume' \in RunDirectory /\ safe' \in {0} \cup Steps
      BY <1>1, <2>15, PublishIsTyped DEF TrainCommitFails
    <3>2. QED  BY <1>1, <2>15, <3>1, EndIsTyped DEF TrainCommitFails
  <2>16. CASE ReleaseRun(c)
    <3>1. \E pc \in {"done", "failed"} : TrainEnd(c, pc)
      BY <2>16 DEF ReleaseRun
    <3>2. train_owner' \in Trainers \cup {NoTrainer} /\ UNCHANGED <<train_volume, safe>>
      BY <1>1, <2>16 DEF ReleaseRun
    <3>3. QED  BY <1>1, <3>1, <3>2, EndIsTyped
  <2>17. CASE TrainWriteThrough(c)
    BY <1>1, <2>1, <2>2, <2>17, PublishIsTyped, CallIsTyped DEF TrainWriteThrough
  <2>18. CASE KillTrain(c)
    BY <1>1, <2>18, EndIsTyped DEF KillTrain
  <2>19. QED  BY <1>2, <2>4, <2>5, <2>6, <2>7, <2>8, <2>9, <2>10, <2>11, <2>12, <2>13, <2>14,
                 <2>15, <2>16, <2>17, <2>18
<1>3. CASE ClearRunClaim
  BY <1>3 DEF ClearRunClaim, TrainTypeOK
<1>4. CASE UNCHANGED trainVars
  BY <1>4 DEF trainVars, TrainTypeOK
<1>5. QED  BY <1>2, <1>3, <1>4 DEF TrainNext

\* Calls that overlap may lose training to each other, but what the volume, the
\* directories and the calls hold keeps its shape.
THEOREM TrainTypes == TrainSpec => []TrainTypeOK
<1>1. TrainInit => TrainTypeOK
  BY EmptyRunType DEF TrainInit, TrainTypeOK
<1>2. QED  BY <1>1, TrainTypesStep, PTL DEF TrainSpec

-----------------------------------------------------------------------------
(***************************************************************************)
(* The archives of RecoveryCopies, for any number of sources and any       *)
(* number of archives that are kept.                                       *)
(***************************************************************************)

\* The backup has the lock to itself until it is packed, and no publication is
\* in flight then; a publication has its reservation, and moves its file under
\* the shared lock.
Locked ==
    /\ backup.pc \in {"locked", "copying"} => lock = "backup"
    /\ lock = "backup" => live.reserved = {}
    /\ \A f \in Sources : publishing[f] # "no" => f \in live.reserved \ live.rows

\* What is packed restores, and so does every archive.
Packed ==
    /\ backup.pc = "copying" => backup.snapshot.reserved = {}
    /\ backup.pc = "packed" => Restorable(backup.snapshot)
    /\ \A a \in archives : Restorable(a.snapshot)

\* An archive is known by its time, and what was read back is sound.
KnownByTime ==
    /\ \A a \in archives : a.time <= clock /\ (a.time \in verified => a.good)
    /\ \A a, b \in archives : a.time = b.time => a = b

IsNewestOf(t, A) == (\E a \in A : a.time = t) /\ \A a \in A : a.time <= t

\* The run that verifies and prunes is about the newest archive; the last one
\* that was read back is still there.
LastIsKept ==
    /\ backup.pc \in {"uploaded", "verified"} => IsNewestOf(backup.time, archives)
    /\ backup.pc = "verified" => backup.time \in verified
    /\ verified # {} => \E a \in archives : /\ a.time \in verified
                                            /\ \A t \in verified : t <= a.time

CopiesInv ==
    /\ CopiesTypeOK
    /\ Locked /\ Packed /\ KnownByTime /\ LastIsKept
    /\ restored # "refused"

-----------------------------------------------------------------------------
LEMMA TimesAreNumbers == Times \subseteq Nat \ {0} /\ LastTime \in Nat
  BY CopiesAssumption DEF Times

\* There is a newest archive if there is one.
LEMMA NewestExists ==
    ASSUME archives \subseteq Archive, archives # {}
    PROVE  Newest \in archives /\ \A a \in archives : a.time <= Newest.time
<1> DEFINE ages == {LastTime - a.time : a \in archives}
<1>1. \A a \in archives : a.time \in Nat /\ LastTime \in Nat /\ LastTime - a.time \in Nat
  BY TimesAreNumbers, CopiesAssumption DEF Archive, Times
<1>2. ages \in SUBSET Nat /\ ages # {}
  BY <1>1
<1>3. PICK m \in ages : \A t \in ages : m <= t
  <2> HIDE DEF ages
  <2>1. QED  BY <1>2, LeastIsMin
<1>4. PICK n \in archives : m = LastTime - n.time
  OBVIOUS
<1>5. \A a \in archives : a.time <= n.time
  <2> TAKE a \in archives
  <2>1. LastTime - n.time <= LastTime - a.time
    BY <1>3, <1>4
  <2>2. QED  BY <1>1, <2>1
<1>6. QED  BY <1>5 DEF Newest

LEMMA CopiesStart == CopiesInit => CopiesInv
<1> SUFFICES ASSUME CopiesInit PROVE CopiesInv
  OBVIOUS
<1>1. CopiesTypeOK
  <2>1. NoSnapshot \in Snapshot /\ NoBackup.pc = "idle"
    BY DEF NoSnapshot, Snapshot, NoBackup
  <2>2. 1 \in Times
    BY CopiesAssumption DEF Times
  <2>3. QED  BY <2>1, <2>2 DEF CopiesInit, CopiesTypeOK, NoBackup
<1>2. QED
  BY <1>1 DEF CopiesInit, CopiesInv, Locked, Packed, KnownByTime, LastIsKept, NoBackup, NoSnapshot

\* What a step that leaves the archives and the backup alone must keep.
LEMMA ProductStep ==
    ASSUME CopiesInv, live' \in Snapshot,
           publishing' \in [Sources -> {"no", "reserved", "writing", "moved"}],
           lock' \in {"free", "shared", "backup"}, Locked',
           UNCHANGED <<clock, archives, backup, status, verified, restored>>
    PROVE  CopiesInv'
  BY DEF CopiesInv, CopiesTypeOK, Packed, KnownByTime, LastIsKept

LEMMA PublicationStep ==
    ASSUME CopiesInv, NEW f \in Sources,
           \/ ReserveSource(f) \/ OpenPublication(f) \/ MoveSource(f) \/ CommitSource(f)
           \/ CrashPublication(f) \/ DeleteRow(f) \/ DrainFile(f)
    PROVE  CopiesInv'
<1> DEFINE stages == {"no", "reserved", "writing", "moved"}
<1>1. /\ live \in Snapshot /\ live.rows \subseteq Sources /\ live.files \subseteq Sources
      /\ live.reserved \subseteq Sources
      /\ publishing \in [Sources -> stages] /\ lock \in {"free", "shared", "backup"}
  BY DEF CopiesInv, CopiesTypeOK, Snapshot
<1>2. Locked
  BY DEF CopiesInv
<1>3. Unlocks(f) => lock' \in {"free", "shared", "backup"} /\ lock' # "backup"
  BY DEF Unlocks
<1>4. CASE ReserveSource(f)
  <2>1. /\ live' = [live EXCEPT !.reserved = @ \cup {f}] /\ f \notin live.rows
        /\ publishing' = [publishing EXCEPT ![f] = "reserved"]
        /\ lock # "backup" /\ lock' = lock /\ backup' = backup
        /\ UNCHANGED <<clock, archives, backup, status, verified, restored>>
    BY <1>4 DEF ReserveSource, PublishTo
  <2>2. live' \in Snapshot /\ live'.rows = live.rows /\ live'.reserved = live.reserved \cup {f}
    BY <1>1, <2>1 DEF Snapshot
  <2>3. Locked'
    BY <1>1, <1>2, <2>1, <2>2 DEF Locked
  <2>4. QED  BY <1>1, <2>1, <2>2, <2>3, ProductStep
<1>5. CASE OpenPublication(f)
  <2>1. /\ publishing' = [publishing EXCEPT ![f] = "writing"] /\ publishing[f] = "reserved"
        /\ lock # "backup" /\ lock' = "shared" /\ live' = live
        /\ UNCHANGED <<clock, archives, backup, status, verified, restored>>
    BY <1>5 DEF OpenPublication, PublishTo
  <2>2. Locked'
    BY <1>1, <1>2, <2>1 DEF Locked
  <2>3. QED  BY <1>1, <2>1, <2>2, ProductStep
<1>6. CASE MoveSource(f)
  <2>1. /\ live' = [live EXCEPT !.files = @ \cup {f}] /\ publishing[f] = "writing"
        /\ publishing' = [publishing EXCEPT ![f] = "moved"] /\ lock' = lock
        /\ UNCHANGED <<clock, archives, backup, status, verified, restored>>
    BY <1>6 DEF MoveSource, PublishTo
  <2>2. live' \in Snapshot /\ live'.rows = live.rows /\ live'.reserved = live.reserved
    BY <1>1, <2>1 DEF Snapshot
  <2>3. Locked'
    BY <1>1, <1>2, <2>1, <2>2 DEF Locked
  <2>4. QED  BY <1>1, <2>1, <2>2, <2>3, ProductStep
<1>7. CASE CommitSource(f)
  <2>1. /\ live' = [live EXCEPT !.rows = @ \cup {f}, !.reserved = @ \ {f}]
        /\ publishing[f] = "moved"
        /\ publishing' = [publishing EXCEPT ![f] = "no"]
        /\ UNCHANGED <<clock, archives, backup, status, verified, restored>>
    BY <1>7 DEF CommitSource, PublishTo
  <2>2. /\ live' \in Snapshot /\ live'.rows = live.rows \cup {f}
        /\ live'.reserved = live.reserved \ {f}
    BY <1>1, <2>1 DEF Snapshot
  <2>3. lock' \in {"free", "shared", "backup"} /\ lock' # "backup"
    BY <1>3, <1>7 DEF CommitSource
  <2>4. Locked'
    BY <1>1, <1>2, <2>1, <2>2, <2>3 DEF Locked
  <2>5. QED  BY <1>1, <2>1, <2>2, <2>3, <2>4, ProductStep
<1>8. CASE CrashPublication(f)
  <2>1. /\ publishing[f] # "no" /\ live' = live
        /\ publishing' = [publishing EXCEPT ![f] = "no"]
        /\ UNCHANGED <<clock, archives, backup, status, verified, restored>>
    BY <1>8 DEF CrashPublication, PublishTo
  <2>2. lock' \in {"free", "shared", "backup"} /\ lock' # "backup"
    BY <1>3, <1>8 DEF CrashPublication
  <2>3. Locked'
    BY <1>1, <1>2, <2>1, <2>2 DEF Locked
  <2>4. QED  BY <1>1, <2>1, <2>2, <2>3, ProductStep
<1>9. CASE DeleteRow(f)
  <2>1. /\ live' = [live EXCEPT !.rows = @ \ {f}, !.reserved = @ \ {f}]
        /\ f \in live.rows \/ publishing[f] = "no"
        /\ UNCHANGED <<publishing, lock, clock, archives, backup, status, verified, restored>>
    BY <1>9 DEF DeleteRow
  <2>2. /\ live' \in Snapshot /\ live'.rows = live.rows \ {f}
        /\ live'.reserved = live.reserved \ {f}
    BY <1>1, <2>1 DEF Snapshot
  <2>3. Locked'
    BY <1>1, <1>2, <2>1, <2>2 DEF Locked
  <2>4. QED  BY <1>1, <2>1, <2>2, <2>3, ProductStep
<1>10. CASE DrainFile(f)
  <2>1. /\ live' = [live EXCEPT !.files = @ \ {f}]
        /\ UNCHANGED <<publishing, lock, clock, archives, backup, status, verified, restored>>
    BY <1>10 DEF DrainFile
  <2>2. live' \in Snapshot /\ live'.rows = live.rows /\ live'.reserved = live.reserved
    BY <1>1, <2>1 DEF Snapshot
  <2>3. Locked'
    BY <1>1, <1>2, <2>1, <2>2 DEF Locked
  <2>4. QED  BY <1>1, <2>1, <2>2, <2>3, ProductStep
<1>11. QED  BY <1>4, <1>5, <1>6, <1>7, <1>8, <1>9, <1>10

-----------------------------------------------------------------------------
LEMMA BackupType ==
    ASSUME CopiesTypeOK
    PROVE  /\ backup.snapshot \in Snapshot /\ backup.time \in {0} \cup Times
           /\ NoBackup.snapshot \in Snapshot /\ NoBackup.time = 0 /\ NoBackup.pc = "idle"
           /\ NoBackup = [pc |-> "idle", snapshot |-> NoBackup.snapshot, time |-> 0]
           /\ backup = [pc |-> backup.pc, snapshot |-> backup.snapshot, time |-> backup.time]
  BY DEF CopiesTypeOK, NoBackup, NoSnapshot, Snapshot

Phases == {"idle", "listed", "locked", "copying", "packed", "uploaded", "verified", "pruned"}

\* A step of the backup that changes no archive.
LEMMA BackupStep ==
    ASSUME CopiesInv, NEW pc \in Phases, NEW s \in Snapshot, NEW t \in {0} \cup Times,
           backup' = [pc |-> pc, snapshot |-> s, time |-> t],
           lock' \in {"free", "shared", "backup"},
           pc \in {"locked", "copying"} => lock' = "backup",
           lock' = "backup" => live.reserved = {},
           pc = "copying" => s.reserved = {}, pc = "packed" => Restorable(s),
           pc \in {"uploaded", "verified"} => IsNewestOf(t, archives),
           pc = "verified" => t \in verified,
           status' \in {0} \cup Times,
           UNCHANGED <<live, publishing, clock, archives, verified, restored>>
    PROVE  CopiesInv'
<1>1. backup'.pc = pc /\ backup'.snapshot = s /\ backup'.time = t
  OBVIOUS
<1>2. CopiesTypeOK'
  BY <1>1 DEF CopiesInv, CopiesTypeOK, Phases
<1>3. Locked'
  BY <1>1 DEF CopiesInv, Locked
<1>4. Packed' /\ KnownByTime'
  BY <1>1 DEF CopiesInv, Packed, KnownByTime, Restorable
<1>5. LastIsKept'
  BY <1>1 DEF CopiesInv, LastIsKept, IsNewestOf
<1>6. QED  BY <1>2, <1>3, <1>4, <1>5 DEF CopiesInv

\* A run that is over, whatever its end.
LEMMA BackupOverStep ==
    ASSUME CopiesInv, BackupOver, lock' \in {lock, "free"}, status' \in {0} \cup Times,
           UNCHANGED <<live, publishing, clock, archives, verified, restored>>
    PROVE  CopiesInv'
<1>1. CopiesTypeOK
  BY DEF CopiesInv
<1>2. /\ NoBackup.snapshot \in Snapshot
      /\ backup' = [pc |-> "idle", snapshot |-> NoBackup.snapshot, time |-> 0]
  BY <1>1, BackupType DEF BackupOver
<1>3. lock' \in {"free", "shared", "backup"} /\ (lock' = "backup" => live.reserved = {})
  BY DEF CopiesInv, CopiesTypeOK, Locked
<1>4. QED  BY <1>2, <1>3, BackupStep DEF Phases

\* The backup takes the lock when nothing is reserved, and copies what is there.
LEMMA SnapshotStep ==
    ASSUME CopiesInv, ExclusiveLock \/ CopyDatabase \/ CopySource \/ Pack
    PROVE  CopiesInv'
<1>1. /\ live \in Snapshot /\ CopiesTypeOK /\ lock \in {"free", "shared", "backup"}
      /\ backup.snapshot \in Snapshot /\ backup.time \in {0} \cup Times
      /\ backup = [pc |-> backup.pc, snapshot |-> backup.snapshot, time |-> backup.time]
      /\ status \in {0} \cup Times
  BY BackupType DEF CopiesInv, CopiesTypeOK
<1>2. /\ backup.pc \in {"locked", "copying"} => lock = "backup"
      /\ lock = "backup" => live.reserved = {}
  BY DEF CopiesInv, Locked
<1>3. CASE ExclusiveLock
  <2>1. UNCHANGED <<live, publishing, clock, archives, status, verified, restored>>
    BY <1>3 DEF ExclusiveLock
  <2>2. CASE BackupOver /\ UNCHANGED lock
    BY <1>1, <2>1, <2>2, BackupOverStep
  <2>3. CASE lock' = "backup" /\ live.reserved = {} /\ BackupTo("locked")
    <3>1. backup' = [pc |-> "locked", snapshot |-> backup.snapshot, time |-> backup.time]
      BY <1>1, <2>3 DEF BackupTo
    <3>2. QED  BY <1>1, <2>1, <2>3, <3>1, BackupStep DEF Phases
  <2>4. QED  BY <1>3, <2>2, <2>3 DEF ExclusiveLock
<1>4. CASE CopyDatabase
  <2> DEFINE s == [live EXCEPT !.files = {}]
  <2>1. /\ backup.pc = "locked"
        /\ UNCHANGED <<live, publishing, lock, clock, archives, status, verified, restored>>
    BY <1>4 DEF CopyDatabase
  <2>2. s \in Snapshot /\ s.reserved = live.reserved
    BY <1>1 DEF Snapshot
  <2>3. backup' = [pc |-> "copying", snapshot |-> s, time |-> backup.time]
    BY <1>1, <1>4 DEF CopyDatabase
  <2> HIDE DEF s
  <2>4. lock' = "backup" /\ live.reserved = {} /\ s.reserved = {}
    BY <1>2, <2>1, <2>2
  <2>5. QED  BY <1>1, <2>1, <2>2, <2>3, <2>4, BackupStep DEF Phases
<1>5. CASE CopySource
  <2>1. /\ backup.pc = "copying"
        /\ UNCHANGED <<live, publishing, clock, archives, status, verified, restored>>
    BY <1>5 DEF CopySource
  <2>2. CASE BackupOver /\ lock' = "free"
    BY <1>1, <2>1, <2>2, BackupOverStep
  <2>3. ASSUME NEW f \in backup.snapshot.rows, f \in live.files, UNCHANGED lock,
               backup' = [backup EXCEPT !.snapshot.files = @ \cup {f}]
        PROVE  CopiesInv'
    <3> DEFINE s == [backup.snapshot EXCEPT !.files = backup.snapshot.files \cup {f}]
    <3>1. backup' = [pc |-> "copying", snapshot |-> s, time |-> backup.time]
      BY <1>1, <2>1, <2>3
    <3>2. s \in Snapshot /\ s.reserved = backup.snapshot.reserved
      BY <1>1, <2>3 DEF Snapshot
    <3> HIDE DEF s
    <3>3. s.reserved = {} /\ lock' = "backup" /\ live.reserved = {}
      BY <1>2, <2>1, <2>3, <3>2 DEF CopiesInv, Packed
    <3>4. QED  BY <1>1, <2>1, <3>1, <3>2, <3>3, BackupStep DEF Phases
  <2>4. QED  BY <1>5, <2>2, <2>3 DEF CopySource
<1>6. CASE Pack
  <2>1. /\ backup.pc = "copying" /\ backup.snapshot.rows \subseteq backup.snapshot.files
        /\ lock' = "free"
        /\ UNCHANGED <<live, publishing, clock, archives, status, verified, restored>>
    BY <1>6 DEF Pack
  <2>2. backup' = [pc |-> "packed", snapshot |-> backup.snapshot, time |-> backup.time]
    BY <1>1, <1>6 DEF Pack, BackupTo
  <2>3. Restorable(backup.snapshot)
    BY <2>1 DEF CopiesInv, Packed, Restorable
  <2>4. QED  BY <1>1, <2>1, <2>2, <2>3, BackupStep DEF Phases
<1>7. QED  BY <1>3, <1>4, <1>5, <1>6

-----------------------------------------------------------------------------
\* A run takes up the newest archive, which may have been read back before.
LEMMA StartBackupStep ==
    ASSUME CopiesInv, StartBackup
    PROVE  CopiesInv'
<1>1. /\ CopiesTypeOK /\ lock \in {"free", "shared", "backup"} /\ archives \subseteq Archive
      /\ backup.snapshot \in Snapshot /\ backup.time \in {0} \cup Times
      /\ backup = [pc |-> backup.pc, snapshot |-> backup.snapshot, time |-> backup.time]
      /\ NoBackup.snapshot \in Snapshot
      /\ NoBackup = [pc |-> "idle", snapshot |-> NoBackup.snapshot, time |-> 0]
      /\ status \in {0} \cup Times /\ (lock = "backup" => live.reserved = {})
  BY BackupType DEF CopiesInv, CopiesTypeOK, Locked
<1>2. UNCHANGED <<live, publishing, lock, clock, archives, status, verified, restored>>
  BY DEF StartBackup
<1>3. CASE BackupTo("listed")
  <2>1. backup' = [pc |-> "listed", snapshot |-> backup.snapshot, time |-> backup.time]
    BY <1>1, <1>3 DEF BackupTo
  <2>2. QED  BY <1>1, <1>2, <2>1, BackupStep DEF Phases
<1>4. CASE archives # {} /\ backup' = [NoBackup EXCEPT !.pc = "uploaded", !.time = Newest.time]
  <2>1. Newest \in archives /\ \A a \in archives : a.time <= Newest.time
    BY <1>1, <1>4, NewestExists
  <2>2. Newest.time \in Times /\ IsNewestOf(Newest.time, archives)
    BY <1>1, <2>1 DEF Archive, IsNewestOf
  <2>3. backup' = [pc |-> "uploaded", snapshot |-> NoBackup.snapshot, time |-> Newest.time]
    BY <1>1, <1>4
  <2>4. QED  BY <1>1, <1>2, <2>2, <2>3, BackupStep DEF Phases
<1>5. QED  BY <1>3, <1>4 DEF StartBackup

\* The archive of now is the newest, and not one that was read back.
LEMMA UploadStep ==
    ASSUME CopiesInv, UploadArchive
    PROVE  CopiesInv'
<1>1. PICK good \in BOOLEAN :
         archives' = archives \cup {[time |-> clock, good |-> good, snapshot |-> backup.snapshot]}
  BY CopiesAssumption DEF UploadArchive
<1> DEFINE new == [time |-> clock, good |-> good, snapshot |-> backup.snapshot]
<1>2. /\ backup.pc = "packed" /\ \A a \in archives : a.time # clock
      /\ backup' = [NoBackup EXCEPT !.pc = "uploaded", !.time = clock]
      /\ UNCHANGED <<live, publishing, lock, clock, status, verified, restored>>
  BY DEF UploadArchive, ArchiveTimes
<1>3. /\ CopiesTypeOK /\ clock \in Times /\ clock \in Nat /\ archives \subseteq Archive
      /\ verified \subseteq Times /\ Restorable(backup.snapshot)
      /\ backup.snapshot \in Snapshot
      /\ NoBackup.snapshot \in Snapshot
      /\ NoBackup = [pc |-> "idle", snapshot |-> NoBackup.snapshot, time |-> 0]
      /\ KnownByTime
  BY <1>2, BackupType, TimesAreNumbers DEF CopiesInv, CopiesTypeOK, Packed
<1>4. new \in Archive /\ new.time = clock /\ new.snapshot = backup.snapshot
  BY <1>3 DEF Archive
<1>5. archives' = archives \cup {new}
  BY <1>1
<1> HIDE DEF new
<1>6. /\ backup'.pc = "uploaded" /\ backup'.time = clock
      /\ backup'.snapshot = NoBackup.snapshot
      /\ backup' = [pc |-> "uploaded", snapshot |-> NoBackup.snapshot, time |-> clock]
  BY <1>2, <1>3
<1>7. clock \notin verified
  <2> SUFFICES ASSUME clock \in verified PROVE FALSE
    OBVIOUS
  <2>1. PICK a \in archives : a.time \in verified /\ \A t \in verified : t <= a.time
    BY DEF CopiesInv, LastIsKept
  <2>2. clock <= a.time /\ a.time <= clock /\ a.time \in Nat
    BY <1>3, <2>1, TimesAreNumbers DEF KnownByTime
  <2>3. QED  BY <1>2, <1>3, <2>2
<1>8. CopiesTypeOK'
  BY <1>2, <1>3, <1>4, <1>5, <1>6 DEF CopiesTypeOK
<1>9. Locked' /\ Packed'
  BY <1>2, <1>3, <1>4, <1>5, <1>6 DEF CopiesInv, Locked, Packed, Restorable
<1>10. KnownByTime'
  BY <1>2, <1>3, <1>4, <1>5, <1>7 DEF KnownByTime
<1>11. LastIsKept'
  <2>1. IsNewestOf(clock, archives')
    BY <1>3, <1>4, <1>5 DEF KnownByTime, IsNewestOf
  <2>2. verified # {} => \E a \in archives' : a.time \in verified /\ \A t \in verified : t <= a.time
    BY <1>5 DEF CopiesInv, LastIsKept
  <2>3. QED  BY <1>2, <1>6, <2>1, <2>2 DEF LastIsKept
<1>12. QED  BY <1>2, <1>8, <1>9, <1>10, <1>11 DEF CopiesInv

LEMMA NamedIs ==
    ASSUME KnownByTime, NEW a \in archives
    PROVE  Named(a.time) = a
  BY DEF KnownByTime, Named

\* What is read back is the newest archive, so nothing newer was.
LEMMA VerifyStep ==
    ASSUME CopiesInv, VerifyArchive
    PROVE  CopiesInv'
<1>1. /\ CopiesTypeOK /\ KnownByTime /\ archives \subseteq Archive /\ verified \subseteq Times
      /\ backup.snapshot \in Snapshot /\ backup.time \in {0} \cup Times
      /\ backup = [pc |-> backup.pc, snapshot |-> backup.snapshot, time |-> backup.time]
      /\ lock \in {"free", "shared", "backup"} /\ status \in {0} \cup Times
  BY BackupType DEF CopiesInv, CopiesTypeOK
<1>2. /\ backup.pc = "uploaded"
      /\ UNCHANGED <<live, publishing, lock, clock, archives, status, restored>>
  BY DEF VerifyArchive
<1>3. PICK n \in archives : n.time = backup.time /\ \A a \in archives : a.time <= n.time
  BY <1>2 DEF CopiesInv, LastIsKept, IsNewestOf
<1>4. Named(backup.time) = n
  BY <1>1, <1>3, NamedIs
<1>5. CASE ~n.good
  BY <1>1, <1>2, <1>4, <1>5, BackupOverStep DEF VerifyArchive
<1>6. CASE n.good
  <2>1. backup' = [backup EXCEPT !.pc = "verified"] /\ verified' = verified \cup {backup.time}
    BY <1>4, <1>6 DEF VerifyArchive, BackupTo
  <2>2. /\ backup'.pc = "verified" /\ backup'.time = backup.time
        /\ backup'.snapshot = backup.snapshot
        /\ backup' = [pc |-> "verified", snapshot |-> backup.snapshot, time |-> backup.time]
    BY <1>1, <2>1
  <2>3. n.time \in Times
    BY <1>1, <1>3 DEF Archive
  <2>4. CopiesTypeOK'
    BY <1>1, <1>2, <1>3, <2>1, <2>2, <2>3 DEF CopiesTypeOK
  <2>5. Locked' /\ Packed'
    BY <1>2, <2>2 DEF CopiesInv, Locked, Packed, Restorable
  <2>6. KnownByTime'
    BY <1>1, <1>2, <1>3, <1>6, <2>1 DEF KnownByTime
  <2>7. \A t \in verified : t <= n.time
    <3> TAKE t \in verified
    <3>1. PICK a \in archives : a.time \in verified /\ \A x \in verified : x <= a.time
      BY DEF CopiesInv, LastIsKept
    <3>2. t <= a.time /\ a.time <= n.time
      BY <1>3, <3>1
    <3>3. t \in Nat /\ a.time \in Nat /\ n.time \in Nat
      BY <1>1, <2>3, <3>1, TimesAreNumbers
    <3>4. QED  BY <3>2, <3>3
  <2>8. LastIsKept'
    <3>1. n \in archives' /\ n.time \in verified' /\ \A t \in verified' : t <= n.time
      BY <1>2, <1>3, <2>1, <2>3, <2>7, TimesAreNumbers
    <3>2. QED  BY <1>2, <1>3, <2>1, <2>2, <3>1 DEF LastIsKept, IsNewestOf
  <2>9. QED  BY <1>2, <2>4, <2>5, <2>6, <2>8 DEF CopiesInv
<1>7. QED  BY <1>5, <1>6

\* The oldest of two archives is not the newest.
LEMMA PruneStep ==
    ASSUME CopiesInv, PruneArchive
    PROVE  CopiesInv'
<1>1. /\ CopiesTypeOK /\ KnownByTime /\ archives \subseteq Archive /\ verified \subseteq Times
      /\ backup.snapshot \in Snapshot /\ backup.time \in {0} \cup Times
      /\ backup = [pc |-> backup.pc, snapshot |-> backup.snapshot, time |-> backup.time]
      /\ lock \in {"free", "shared", "backup"} /\ status \in {0} \cup Times
      /\ lock = "backup" => live.reserved = {}
  BY BackupType DEF CopiesInv, CopiesTypeOK, Locked
<1>2. /\ backup.pc = "verified" /\ backup.time \in verified
      /\ UNCHANGED <<live, publishing, lock, clock, status, verified, restored>>
  BY DEF PruneArchive, CopiesInv, LastIsKept
<1>3. PICK n \in archives : n.time = backup.time /\ \A a \in archives : a.time <= n.time
  BY <1>2 DEF CopiesInv, LastIsKept, IsNewestOf
<1>4. CASE ~(Cardinality(archives) > Retain)
  <2>1. UNCHANGED archives
    BY <1>4 DEF PruneArchive
  <2>2. backup' = [pc |-> "pruned", snapshot |-> backup.snapshot, time |-> backup.time]
    BY <1>1, <1>4 DEF PruneArchive, BackupTo
  <2>3. QED  BY <1>1, <1>2, <2>1, <2>2, BackupStep DEF Phases
<1>5. CASE Cardinality(archives) > Retain
  <2> DEFINE oldest == Min(ArchiveTimes)
  <2>1. archives' = archives \ {Named(oldest)} /\ UNCHANGED backup
    BY <1>5 DEF PruneArchive
  <2>2. \A a \in archives : a.time \in Nat
    BY <1>1, TimesAreNumbers DEF Archive
  <2>3. oldest \in ArchiveTimes /\ \A t \in ArchiveTimes : oldest <= t
    <3>1. ArchiveTimes \in SUBSET Nat /\ ArchiveTimes # {}
      BY <1>3, <2>2 DEF ArchiveTimes
    <3>2. QED  BY <3>1, LeastIsMin
  <2> HIDE DEF oldest
  <2>4. PICK o \in archives : o.time = oldest /\ \A a \in archives : o.time <= a.time
    BY <2>3 DEF ArchiveTimes
  <2>5. archives' = archives \ {o}
    BY <1>1, <2>1, <2>4, NamedIs
  <2>6. o # n
    <3> SUFFICES ASSUME o = n PROVE FALSE
      OBVIOUS
    <3>1. \A a \in archives : a.time = o.time
      BY <1>3, <2>2, <2>4
    <3>2. archives = {o}
      BY <1>1, <3>1 DEF KnownByTime
    <3>3. Cardinality(archives) = 1
      BY <3>2, FS_Singleton
    <3>4. QED  BY <1>5, <3>3, CopiesAssumption
  <2>7. CopiesTypeOK'
    BY <1>1, <1>2, <2>1, <2>5 DEF CopiesTypeOK
  <2>8. Locked' /\ Packed' /\ KnownByTime'
    BY <1>1, <1>2, <2>1, <2>5 DEF CopiesInv, Locked, Packed, Restorable, KnownByTime
  <2>9. n \in archives' /\ \A t \in verified : t <= n.time
    <3>1. n \in archives'
      BY <2>5, <2>6
    <3>2. ASSUME NEW t \in verified PROVE t <= n.time
      <4>1. PICK a \in archives : a.time \in verified /\ \A x \in verified : x <= a.time
        BY DEF CopiesInv, LastIsKept
      <4>2. t <= a.time /\ a.time <= n.time
        BY <1>3, <4>1
      <4>3. t \in Nat /\ a.time \in Nat /\ n.time \in Nat
        BY <1>1, <2>2, <4>1, TimesAreNumbers
      <4>4. QED  BY <4>2, <4>3
    <3>3. QED  BY <3>1, <3>2
  <2>10. LastIsKept'
    BY <1>2, <1>3, <2>1, <2>5, <2>9 DEF LastIsKept, IsNewestOf
  <2>11. QED  BY <1>2, <2>7, <2>8, <2>10 DEF CopiesInv
<1>6. QED  BY <1>4, <1>5

LEMMA CopiesStep == CopiesInv /\ [CopiesNext]_copiesVars => CopiesInv'
<1> SUFFICES ASSUME CopiesInv, [CopiesNext]_copiesVars PROVE CopiesInv'
  OBVIOUS
<1>1. status \in {0} \cup Times /\ CopiesTypeOK
  BY DEF CopiesInv, CopiesTypeOK
<1>2. CASE WriteStatus
  <2>1. backup.time \in {0} \cup Times
    BY <1>1, BackupType
  <2>2. status' \in {0} \cup Times
    BY <1>1, <1>2, <2>1 DEF WriteStatus
  <2>3. QED  BY <1>2, <2>2, BackupOverStep DEF WriteStatus
<1>3. CASE KillBackup
  BY <1>1, <1>3, BackupOverStep DEF KillBackup
<1>4. ASSUME NEW a \in archives, Restore(a) PROVE CopiesInv'
  <2>1. restored' = "whole"
    BY <1>4 DEF Restore, CopiesInv, Packed, KnownByTime
  <2>2. UNCHANGED <<live, publishing, lock, clock, archives, backup, status, verified>>
    BY <1>4 DEF Restore
  <2>3. QED
    BY <2>1, <2>2 DEF CopiesInv, CopiesTypeOK, Locked, Packed, Restorable, KnownByTime, LastIsKept
<1>5. CASE ClockMoves
  <2>1. clock' \in Times /\ clock' = clock + 1 /\ clock \in Nat
    BY <1>1, <1>5, TimesAreNumbers DEF ClockMoves, CopiesTypeOK
  <2>2. UNCHANGED <<live, publishing, lock, archives, backup, status, verified, restored>>
    BY <1>5 DEF ClockMoves
  <2>3. KnownByTime'
    <3>1. \A a \in archives : a.time \in Nat
      BY <1>1, TimesAreNumbers DEF CopiesTypeOK, Archive
    <3>2. QED  BY <2>1, <2>2, <3>1 DEF CopiesInv, KnownByTime
  <2>4. QED
    BY <2>1, <2>2, <2>3 DEF CopiesInv, CopiesTypeOK, Locked, Packed, Restorable, LastIsKept
<1>6. CASE UNCHANGED copiesVars
  BY <1>6 DEF copiesVars, CopiesInv, CopiesTypeOK, Locked, Packed, Restorable, KnownByTime, LastIsKept
<1>7. QED
  BY <1>2, <1>3, <1>4, <1>5, <1>6, PublicationStep, SnapshotStep, StartBackupStep, UploadStep,
     VerifyStep, PruneStep DEF CopiesNext

\* CopiesInv holds of every behaviour.
THEOREM CopiesInvariant == CopiesSpec => []CopiesInv
  BY CopiesStart, CopiesStep, PTL DEF CopiesSpec

\* VerifiedCopyKept (_finish of scheduled_backup.py, create_backup and
\* restore_backup of backup.py): once an archive was read back the volume always
\* holds one that was and that restores, and no restore of such an archive is
\* refused, for any number of sources and of archives that are kept.
THEOREM ACopyIsAlwaysKept == CopiesSpec => []VerifiedCopyKept
<1>1. CopiesInv => VerifiedCopyKept
  BY DEF CopiesInv, VerifiedCopyKept, LastIsKept, KnownByTime, Packed
<1>2. QED  BY <1>1, CopiesInvariant, PTL

-----------------------------------------------------------------------------
(***************************************************************************)
(* What an upgrade of SchemaUpgrade keeps, for any number of processes     *)
(* that start, of accounts and of keys.                                    *)
(***************************************************************************)

\* Release v left d, or d was brought to it, with its version recorded or not.
Unchanged(d) == Access(d) = found.access /\ AllKeys(d) = found.keys
Ready(d, v) == Legacy(v, [d EXCEPT !.meta = v]) /\ Unchanged(d)

\* What the statements of the migration to version v make of d, from a line on
\* and without the last one, which records the version.
Rebuilt(d, line) ==
    LET d7 == IF line <= 1 THEN DropTable(d, "api_idempotency_v5_new") ELSE d
        d6 == IF line <= 2 THEN [d7 EXCEPT !.tables = @ \cup {"api_idempotency_v5_new"}] ELSE d7
        d5 == IF line <= 3 THEN CopyKeys(d6, "api_idempotency") ELSE d6
        d4 == IF line <= 4 THEN CopyKeys(d5, "api_idempotency_v4") ELSE d5
        d3 == IF line <= 5 THEN DropTable(d4, "api_idempotency") ELSE d4
        d2 == IF line <= 6 THEN DropTable(d3, "api_idempotency_v4") ELSE d3
    IN  IF line <= 7 THEN RenameNew(d2) ELSE d2

Carried(d, v, line) ==
    CASE v = 5 -> Rebuilt(d, line)
      [] v = 8 -> LET e == IF line = 1 THEN AddColumns(d, 8) ELSE d
                  IN  IF line <= 2 THEN [e EXCEPT !.ownerless = FALSE] ELSE e
      [] v = 10 -> LET e == IF line = 1 THEN AddColumns(d, 10) ELSE d
                   IN  IF line <= 2 THEN MoveActivation(e) ELSE e
      [] OTHER -> IF line = 1 THEN AddColumns(d, v) ELSE d

\* A transaction that goes on to its end leaves the next version, with the
\* access and the keys that were found.
Migrates(q) ==
    LET v == q.work.meta + 1
    IN  /\ q.work.meta \in Versions
        /\ IF q.work.meta = SCHEMA_VERSION
           THEN q.line = 1 /\ Ready(q.work, SCHEMA_VERSION)
           ELSE q.line \in 1 .. Len(Script(v)) /\ Ready(Carried(q.work, v, q.line), v)

Fits(p, q) ==
    /\ q.pc \in {"locked", "migrating", "finishing"} => migration_lock = p
    /\ q.pc = "migrating" => Migrates(q)
    /\ q.pc = "finishing" => q.work.meta = SCHEMA_VERSION /\ Ready(q.work, SCHEMA_VERSION)
    /\ q.pc = "serving" => Legacy(SCHEMA_VERSION, database)

SchemaInv ==
    /\ SchemaTypeOK
    /\ Unchanged(database)
    /\ database # Nothing => \E v \in Versions : Legacy(v, database)
    /\ \A p \in Starters : Fits(p, starter[p])

-----------------------------------------------------------------------------
(* The statements                                                          *)

Current == "api_idempotency"
Renamed == "api_idempotency_v4"
Fresh == "api_idempotency_v5_new"

\* All but the tables of keys.
Same(d, e) ==
    /\ e \in Contents /\ e.meta = d.meta /\ e.verified = d.verified /\ e.active = d.active
    /\ e.ownerless = d.ownerless

LEMMA Columns ==
    ASSUME NEW d \in Contents
    PROVE  /\ d.meta \in 0 .. SCHEMA_VERSION /\ d.shape \in SUBSET Versions
           /\ d.verified \in SUBSET OldAccounts /\ d.active \in SUBSET OldAccounts
           /\ d.ownerless \in BOOLEAN /\ d.tables \in SUBSET KeyTable
           /\ d.keys \in [KeyTable -> SUBSET OldKeys]
           /\ d = [meta |-> d.meta, shape |-> d.shape, verified |-> d.verified,
                   active |-> d.active, ownerless |-> d.ownerless, tables |-> d.tables,
                   keys |-> d.keys]
  BY DEF Contents

LEMMA DropIs ==
    ASSUME NEW d \in Contents, NEW t \in KeyTable
    PROVE  LET e == DropTable(d, t)
           IN  /\ Same(d, e) /\ e.shape = d.shape /\ e.tables = d.tables \ {t}
               /\ e.keys[t] = {} /\ \A s \in KeyTable : s # t => e.keys[s] = d.keys[s]
  BY DEF DropTable, Same, Contents

LEMMA CreateIs ==
    ASSUME NEW d \in Contents
    PROVE  LET e == [d EXCEPT !.tables = @ \cup {Fresh}]
           IN  /\ Same(d, e) /\ e.shape = d.shape /\ e.tables = d.tables \cup {Fresh}
               /\ e.keys = d.keys
  BY DEF Same, Contents, KeyTable, Fresh

LEMMA CopyIs ==
    ASSUME NEW d \in Contents, NEW t \in {Current, Renamed},
           t \notin d.tables => d.keys[t] = {}
    PROVE  LET e == CopyKeys(d, t)
           IN  /\ Same(d, e) /\ e.shape = d.shape /\ e.tables = d.tables
               /\ e.keys[Fresh] = d.keys[Fresh] \cup d.keys[t]
               /\ \A s \in KeyTable : s # Fresh => e.keys[s] = d.keys[s]
<1>1. d.keys \in [KeyTable -> SUBSET OldKeys] /\ Fresh \in KeyTable /\ t \in KeyTable
  BY Columns DEF KeyTable, Current, Renamed, Fresh
<1>2. CASE t \in d.tables
  <2> DEFINE ks == [d.keys EXCEPT ![Fresh] = d.keys[Fresh] \cup d.keys[t]]
             e == [d EXCEPT !.keys = ks]
  <2>1. CopyKeys(d, t) = e
    BY <1>2 DEF CopyKeys, Fresh
  <2>2. ks \in [KeyTable -> SUBSET OldKeys] /\ ks[Fresh] = d.keys[Fresh] \cup d.keys[t]
        /\ \A s \in KeyTable : s # Fresh => ks[s] = d.keys[s]
    BY <1>1
  <2> HIDE DEF ks
  <2>3. e \in Contents /\ e.keys = ks /\ Same(d, e) /\ e.shape = d.shape /\ e.tables = d.tables
    BY <2>2 DEF Contents, Same
  <2>4. QED  BY <2>1, <2>2, <2>3
<1>3. CASE t \notin d.tables
  <2>1. CopyKeys(d, t) = d /\ Same(d, d)
    BY <1>3 DEF CopyKeys, Same
  <2>2. QED  BY <1>1, <1>3, <2>1
<1>4. QED  BY <1>2, <1>3

LEMMA RenameIs ==
    ASSUME NEW d \in Contents
    PROVE  LET e == RenameNew(d)
           IN  /\ Same(d, e) /\ e.shape = d.shape \cup {5}
               /\ e.tables = (d.tables \ {Fresh}) \cup {Current}
               /\ e.keys[Current] = d.keys[Fresh] /\ e.keys[Fresh] = {}
               /\ e.keys[Renamed] = d.keys[Renamed]
<1> DEFINE b == DropTable(d, Fresh)
           ks == [b.keys EXCEPT ![Current] = d.keys[Fresh]]
           e == [b EXCEPT !.tables = b.tables \cup {Current}, !.shape = b.shape \cup {5},
                          !.keys = ks]
<1>1. /\ Same(d, b) /\ b.shape = d.shape /\ b.tables = d.tables \ {Fresh} /\ b.keys[Fresh] = {}
      /\ \A s \in KeyTable : s # Fresh => b.keys[s] = d.keys[s]
  BY DropIs DEF KeyTable, Fresh
<1>2. RenameNew(d) = e
  BY DEF RenameNew, Fresh, Current
<1>3. b \in Contents /\ b.keys \in [KeyTable -> SUBSET OldKeys] /\ d.keys \in [KeyTable -> SUBSET OldKeys]
  BY <1>1, Columns DEF Same
<1> HIDE DEF b
<1>4. /\ ks \in [KeyTable -> SUBSET OldKeys] /\ ks[Current] = d.keys[Fresh]
      /\ ks[Fresh] = b.keys[Fresh] /\ ks[Renamed] = b.keys[Renamed]
      /\ Renamed # Fresh /\ Renamed \in KeyTable
  BY <1>3 DEF KeyTable, Fresh, Current, Renamed
<1> HIDE DEF ks
<1>5. 5 \in Versions /\ Current \in KeyTable
  BY DEF Versions, SCHEMA_VERSION, KeyTable, Current
<1>6. /\ e \in Contents /\ e.keys = ks /\ e.shape = b.shape \cup {5} /\ Same(b, e)
      /\ e.tables = b.tables \cup {Current}
  BY <1>3, <1>4, <1>5 DEF Contents, Same
<1>7. QED  BY <1>1, <1>2, <1>4, <1>6 DEF Same

\* The keys of a database that has nothing in tables that are not there.
LEMMA KeysOf ==
    ASSUME NEW d \in Contents, \A t \in KeyTable \ d.tables : d.keys[t] = {}
    PROVE  AllKeys(d) = d.keys[Current] \cup d.keys[Renamed] \cup d.keys[Fresh]
<1>1. d.tables \subseteq KeyTable
  BY Columns
<1>2. \A k : k \in AllKeys(d) <=> \E t \in d.tables : k \in d.keys[t]
  BY DEF AllKeys
<1>3. \A k : k \in AllKeys(d) <=> \E t \in KeyTable : k \in d.keys[t]
  BY <1>1, <1>2
<1>4. \A k : k \in AllKeys(d) <=> k \in d.keys[Current] \cup d.keys[Renamed] \cup d.keys[Fresh]
  BY <1>3 DEF KeyTable, Current, Renamed, Fresh
<1>5. QED  BY <1>4


LEMMA LegacyIs ==
    ASSUME NEW d \in Contents, NEW v \in Versions
    PROVE  Legacy(v, [d EXCEPT !.meta = v]) <=>
              /\ d.shape = 1 .. v
              /\ v < 9 => d.verified = {}
              /\ v < 10 => d.active = {}
              /\ ~d.ownerless
              /\ d.tables = IF v < 3 THEN {} ELSE
                            IF v = 4 /\ Renamed \in d.tables
                            THEN {Renamed} \cup (d.tables \cap {Current})
                            ELSE {Current}
              /\ \A t \in KeyTable \ d.tables : d.keys[t] = {}
<1> DEFINE e == [d EXCEPT !.meta = v]
<1>1. /\ e.meta = v /\ e.shape = d.shape /\ e.verified = d.verified /\ e.active = d.active
      /\ e.ownerless = d.ownerless /\ e.tables = d.tables /\ e.keys = d.keys
  BY DEF Contents
<1> HIDE DEF e
<1>2. Legacy(v, e) <=>
              /\ d.shape = 1 .. v
              /\ v < 9 => d.verified = {}
              /\ v < 10 => d.active = {}
              /\ ~d.ownerless
              /\ d.tables = IF v < 3 THEN {} ELSE
                            IF v = 4 /\ Renamed \in d.tables
                            THEN {Renamed} \cup (d.tables \cap {Current})
                            ELSE {Current}
              /\ \A t \in KeyTable \ d.tables : d.keys[t] = {}
  BY <1>1 DEF Legacy, Renamed, Current
<1>3. QED  BY <1>2 DEF e

LEMMA SixteenVersions == SCHEMA_VERSION = 16 /\ Versions = 1 .. 16
  BY DEF SCHEMA_VERSION, Versions

\* The migration to version 5 builds the table of keys anew.
LEMMA RebuildIsReady ==
    ASSUME NEW d \in Contents, Ready(d, 4)
    PROVE  Ready(Rebuilt(d, 1), 5)
<1> DEFINE d7 == DropTable(d, Fresh)
           d6 == [d7 EXCEPT !.tables = @ \cup {Fresh}]
           d5 == CopyKeys(d6, Current)
           d4 == CopyKeys(d5, Renamed)
           d3 == DropTable(d4, Current)
           d2 == DropTable(d3, Renamed)
           e == RenameNew(d2)
<1>1. Rebuilt(d, 1) = e
  BY DEF Rebuilt, Fresh, Current, Renamed
<1>2. {Current, Renamed, Fresh} = KeyTable /\ Current # Renamed /\ Current # Fresh /\ Renamed # Fresh
  BY DEF KeyTable, Current, Renamed, Fresh
<1>3. /\ d.shape = 1 .. 4 /\ d.verified = {} /\ d.active = {} /\ ~d.ownerless
      /\ d.tables \subseteq {Current, Renamed}
      /\ \A t \in KeyTable \ d.tables : d.keys[t] = {}
      /\ Unchanged(d)
  <2>1. 4 \in Versions /\ Legacy(4, [d EXCEPT !.meta = 4]) /\ Unchanged(d)
    BY SixteenVersions DEF Ready
  <2>2. /\ d.shape = 1 .. 4
        /\ 4 < 9 => d.verified = {}
        /\ 4 < 10 => d.active = {}
        /\ ~d.ownerless
        /\ d.tables = IF 4 < 3 THEN {} ELSE
                      IF 4 = 4 /\ Renamed \in d.tables
                      THEN {Renamed} \cup (d.tables \cap {Current})
                      ELSE {Current}
        /\ \A t \in KeyTable \ d.tables : d.keys[t] = {}
    BY <2>1, LegacyIs
  <2>3. QED  BY <2>1, <2>2
<1>4. /\ Same(d, d7) /\ d7.shape = d.shape /\ d7.tables = d.tables \ {Fresh}
      /\ d7.keys[Fresh] = {} /\ d7.keys[Current] = d.keys[Current]
      /\ d7.keys[Renamed] = d.keys[Renamed]
  BY <1>2, DropIs
<1> HIDE DEF d7
<1>5. /\ Same(d7, d6) /\ d6.shape = d7.shape /\ d6.tables = d7.tables \cup {Fresh}
      /\ d6.keys = d7.keys
  BY <1>4, CreateIs DEF Same
<1> HIDE DEF d6
<1>6. /\ Same(d6, d5) /\ d5.shape = d6.shape /\ d5.tables = d6.tables
      /\ d5.keys[Fresh] = d6.keys[Fresh] \cup d6.keys[Current]
      /\ d5.keys[Current] = d6.keys[Current] /\ d5.keys[Renamed] = d6.keys[Renamed]
  <2>1. d6 \in Contents /\ (Current \notin d6.tables => d6.keys[Current] = {})
    BY <1>2, <1>3, <1>4, <1>5 DEF Same
  <2>2. QED  BY <1>2, <2>1, CopyIs
<1> HIDE DEF d5
<1>7. /\ Same(d5, d4) /\ d4.shape = d5.shape /\ d4.tables = d5.tables
      /\ d4.keys[Fresh] = d5.keys[Fresh] \cup d5.keys[Renamed]
      /\ d4.keys[Current] = d5.keys[Current] /\ d4.keys[Renamed] = d5.keys[Renamed]
  <2>1. d5 \in Contents /\ (Renamed \notin d5.tables => d5.keys[Renamed] = {})
    BY <1>2, <1>3, <1>4, <1>5, <1>6 DEF Same
  <2>2. QED  BY <1>2, <2>1, CopyIs
<1> HIDE DEF d4
<1>8. /\ Same(d4, d3) /\ d3.shape = d4.shape /\ d3.tables = d4.tables \ {Current}
      /\ d3.keys[Fresh] = d4.keys[Fresh] /\ d3.keys[Renamed] = d4.keys[Renamed]
      /\ d3.keys[Current] = {}
  BY <1>2, <1>7, DropIs DEF Same
<1> HIDE DEF d3
<1>9. /\ Same(d3, d2) /\ d2.shape = d3.shape /\ d2.tables = d3.tables \ {Renamed}
      /\ d2.keys[Fresh] = d3.keys[Fresh] /\ d2.keys[Renamed] = {}
  BY <1>2, <1>8, DropIs DEF Same
<1> HIDE DEF d2
<1>10. /\ Same(d2, e) /\ e.shape = d2.shape \cup {5}
       /\ e.tables = (d2.tables \ {Fresh}) \cup {Current}
       /\ e.keys[Current] = d2.keys[Fresh] /\ e.keys[Fresh] = {}
       /\ e.keys[Renamed] = d2.keys[Renamed]
  BY <1>9, RenameIs DEF Same
<1> HIDE DEF e
<1>11. /\ e \in Contents /\ e.verified = {} /\ e.active = {} /\ ~e.ownerless
       /\ e.shape = 1 .. 5
  BY <1>3, <1>4, <1>5, <1>6, <1>7, <1>8, <1>9, <1>10 DEF Same
<1>12. e.tables = {Current}
  BY <1>2, <1>3, <1>4, <1>5, <1>6, <1>7, <1>8, <1>9, <1>10
<1>13. /\ e.keys[Renamed] = {} /\ e.keys[Fresh] = {}
       /\ e.keys[Current] = d.keys[Current] \cup d.keys[Renamed]
  BY <1>4, <1>5, <1>6, <1>7, <1>8, <1>9, <1>10
<1>14. \A t \in KeyTable \ e.tables : e.keys[t] = {}
  BY <1>2, <1>12, <1>13
<1>15. AllKeys(e) = AllKeys(d)
  <2>1. AllKeys(e) = e.keys[Current] \cup e.keys[Renamed] \cup e.keys[Fresh]
    BY <1>11, <1>14, KeysOf
  <2>2. AllKeys(d) = d.keys[Current] \cup d.keys[Renamed] \cup d.keys[Fresh]
    BY <1>3, KeysOf
  <2>3. d.keys[Fresh] = {}
    BY <1>2, <1>3
  <2>4. QED  BY <1>13, <2>1, <2>2, <2>3
<1>16. Access(e) = Access(d)
  BY <1>3, <1>11 DEF Access
<1>17. Legacy(5, [e EXCEPT !.meta = 5])
  <2>1. 5 \in Versions
    BY SixteenVersions
  <2>2. /\ e.shape = 1 .. 5
        /\ 5 < 9 => e.verified = {}
        /\ 5 < 10 => e.active = {}
        /\ ~e.ownerless
        /\ e.tables = IF 5 < 3 THEN {} ELSE
                      IF 5 = 4 /\ Renamed \in e.tables
                      THEN {Renamed} \cup (e.tables \cap {Current})
                      ELSE {Current}
        /\ \A t \in KeyTable \ e.tables : e.keys[t] = {}
    BY <1>11, <1>12, <1>14
  <2>3. QED  BY <1>11, <2>1, <2>2, LegacyIs
<1>18. QED  BY <1>1, <1>3, <1>15, <1>16, <1>17 DEF Ready, Unchanged

LEMMA AddIs ==
    ASSUME NEW d \in Contents, NEW v \in Versions, v \notin d.shape
    PROVE  LET e == AddColumns(d, v)
           IN  /\ e \in Contents /\ e.meta = d.meta /\ e.shape = d.shape \cup {v}
               /\ e.active = d.active /\ e.keys = d.keys
               /\ e.verified = (IF v = 9 THEN OldAccounts ELSE d.verified)
               /\ e.ownerless = (IF v = 8 THEN TRUE ELSE d.ownerless)
               /\ e.tables = (IF v = 3 THEN d.tables \cup {Current} ELSE d.tables)
<1> DEFINE confirmed == IF v = 9 THEN OldAccounts ELSE d.verified
           ownerless == IF v = 8 THEN TRUE ELSE d.ownerless
           tables == IF v = 3 THEN d.tables \cup {Current} ELSE d.tables
           e == [d EXCEPT !.shape = d.shape \cup {v}, !.verified = confirmed,
                          !.ownerless = ownerless, !.tables = tables]
<1>1. AddColumns(d, v) = e
  BY DEF AddColumns, Current
<1>2. /\ confirmed \in SUBSET OldAccounts /\ ownerless \in BOOLEAN
      /\ tables \in SUBSET KeyTable /\ d.shape \cup {v} \in SUBSET Versions
  <2>1. Current \in KeyTable
    BY DEF Current, KeyTable
  <2>2. QED  BY <2>1, Columns
<1> HIDE DEF confirmed, ownerless, tables
<1>3. /\ e \in Contents /\ e.meta = d.meta /\ e.shape = d.shape \cup {v}
      /\ e.active = d.active /\ e.keys = d.keys /\ e.verified = confirmed
      /\ e.ownerless = ownerless /\ e.tables = tables
  BY <1>2 DEF Contents
<1> HIDE DEF e
<1>4. QED  BY <1>1, <1>3 DEF confirmed, ownerless, tables

\* Each migration, run to its end, keeps what it found.
LEMMA MigrationIsReady ==
    ASSUME NEW d \in Contents, NEW v \in 2 .. SCHEMA_VERSION, Ready(d, v - 1)
    PROVE  Ready(Carried(d, v, 1), v)
<1>1. v \in Versions /\ v - 1 \in Versions /\ v \in 2 .. 16
  BY SixteenVersions
<1>2. /\ d.shape = 1 .. (v - 1) /\ ~d.ownerless
      /\ v - 1 < 9 => d.verified = {}
      /\ v - 1 < 10 => d.active = {}
      /\ d.tables = IF v - 1 < 3 THEN {} ELSE
                    IF v - 1 = 4 /\ Renamed \in d.tables
                    THEN {Renamed} \cup (d.tables \cap {Current})
                    ELSE {Current}
      /\ \A t \in KeyTable \ d.tables : d.keys[t] = {}
      /\ Unchanged(d)
  BY <1>1, LegacyIs DEF Ready
<1>3. CASE v = 5
  BY <1>3, RebuildIsReady DEF Carried
<1>4. CASE v # 5
  <2> DEFINE a == AddColumns(d, v)
             e == IF v = 8 THEN [a EXCEPT !.ownerless = FALSE]
                  ELSE IF v = 10 THEN MoveActivation(a) ELSE a
  <2>1. Carried(d, v, 1) = e
    <3>1. CASE v = 8
      BY <3>1 DEF Carried
    <3>2. CASE v = 10
      BY <3>2 DEF Carried
    <3>3. CASE v \notin {8, 10}
      BY <1>4, <3>3 DEF Carried
    <3>4. QED  BY <3>1, <3>2, <3>3
  <2>2. v \notin d.shape
    BY <1>1, <1>2
  <2>3. /\ a \in Contents /\ a.meta = d.meta /\ a.shape = d.shape \cup {v}
        /\ a.active = d.active /\ a.keys = d.keys
        /\ a.verified = (IF v = 9 THEN OldAccounts ELSE d.verified)
        /\ a.ownerless = (IF v = 8 THEN TRUE ELSE d.ownerless)
        /\ a.tables = (IF v = 3 THEN d.tables \cup {Current} ELSE d.tables)
    BY <1>1, <2>2, AddIs
  <2> HIDE DEF a
  <2>4. /\ e \in Contents /\ e.shape = a.shape /\ e.keys = a.keys /\ e.tables = a.tables
        /\ ~e.ownerless
        /\ e.active = (IF v = 10 THEN a.verified ELSE a.active)
        /\ e.verified = (IF v = 10 THEN {} ELSE a.verified)
    <3>1. CASE v = 8
      <4>1. e = [a EXCEPT !.ownerless = FALSE]
        BY <3>1
      <4>2. /\ e \in Contents /\ e.shape = a.shape /\ e.keys = a.keys /\ e.tables = a.tables
            /\ ~e.ownerless /\ e.active = a.active /\ e.verified = a.verified
        BY <2>3, <4>1 DEF Contents
      <4>3. QED  BY <3>1, <4>2
    <3>2. CASE v = 10
      <4>1. e = [a EXCEPT !.active = a.verified, !.verified = {}]
        BY <3>2 DEF MoveActivation
      <4>2. QED  BY <1>2, <2>3, <3>2, <4>1 DEF Contents
    <3>3. CASE v \notin {8, 10}
      BY <1>2, <2>3, <3>3
    <3>4. QED  BY <3>1, <3>2, <3>3
  <2> HIDE DEF e
  <2>5. e.shape = 1 .. v
    BY <1>1, <1>2, <2>3, <2>4
  <2>6. e.tables = IF v < 3 THEN {} ELSE {Current}
    <3>1. CASE v < 3
      BY <1>1, <1>2, <2>3, <2>4, <3>1
    <3>2. CASE v = 3
      BY <1>1, <1>2, <2>3, <2>4, <3>2
    <3>3. CASE v > 3
      <4>1. d.tables = {Current}
        BY <1>1, <1>2, <1>4, <3>3
      <4>2. QED  BY <1>1, <2>3, <2>4, <3>3, <4>1
    <3>4. QED  BY <1>1, <3>1, <3>2, <3>3
  <2>7. \A t \in KeyTable \ e.tables : e.keys[t] = {}
    BY <1>2, <2>3, <2>4
  <2>8. Legacy(v, [e EXCEPT !.meta = v])
    <3>1. (v < 9 => e.verified = {}) /\ (v < 10 => e.active = {})
      BY <1>1, <1>2, <2>3, <2>4
    <3>2. Renamed \notin e.tables
      BY <2>6 DEF Renamed, Current
    <3>3. QED  BY <1>1, <2>4, <2>5, <2>6, <2>7, <3>1, <3>2, LegacyIs
  <2>9. AllKeys(e) = AllKeys(d)
    <3>1. AllKeys(e) = e.keys[Current] \cup e.keys[Renamed] \cup e.keys[Fresh]
      BY <2>4, <2>7, KeysOf
    <3>2. AllKeys(d) = d.keys[Current] \cup d.keys[Renamed] \cup d.keys[Fresh]
      BY <1>2, KeysOf
    <3>3. QED  BY <2>3, <2>4, <3>1, <3>2
  <2>10. Access(e) = Access(d)
    <3>1. d.shape # {} /\ e.shape # {}
      <4>1. 1 \in 1 .. (v - 1) /\ 1 \in 1 .. v
        BY <1>1
      <4>2. QED  BY <1>2, <2>5, <4>1
    <3>2. (10 \in d.shape <=> v >= 11) /\ (9 \in d.shape <=> v >= 10)
      BY <1>1, <1>2
    <3>3. (10 \in e.shape <=> v >= 10) /\ (9 \in e.shape <=> v >= 9)
      BY <1>1, <2>5
    <3>4. CASE v = 10
      BY <2>3, <2>4, <3>1, <3>2, <3>3, <3>4 DEF Access
    <3>5. CASE v = 9
      BY <2>3, <2>4, <3>1, <3>2, <3>3, <3>5 DEF Access
    <3>6. CASE v \notin {9, 10}
      BY <1>1, <2>3, <2>4, <3>1, <3>2, <3>3, <3>6 DEF Access
    <3>7. QED  BY <3>4, <3>5, <3>6
  <2>11. QED  BY <1>2, <2>1, <2>8, <2>9, <2>10 DEF Ready, Unchanged
<1>5. QED  BY <1>3, <1>4

-----------------------------------------------------------------------------
(* One statement of a migration                                            *)

LEMMA DropIsTyped ==
    ASSUME NEW d \in Contents, NEW t \in KeyTable
    PROVE  DropTable(d, t) \in Contents /\ DropTable(d, t).meta = d.meta
  BY DropIs DEF Same

LEMMA CopyIsTyped ==
    ASSUME NEW d \in Contents, NEW t \in {Current, Renamed}
    PROVE  CopyKeys(d, t) \in Contents /\ CopyKeys(d, t).meta = d.meta
<1>1. d.keys \in [KeyTable -> SUBSET OldKeys] /\ Fresh \in KeyTable /\ t \in KeyTable
  BY Columns DEF KeyTable, Current, Renamed, Fresh
<1>2. CASE t \in d.tables
  <2> DEFINE ks == [d.keys EXCEPT ![Fresh] = d.keys[Fresh] \cup d.keys[t]]
  <2>1. CopyKeys(d, t) = [d EXCEPT !.keys = ks]
    BY <1>2 DEF CopyKeys, Fresh
  <2>2. ks \in [KeyTable -> SUBSET OldKeys]
    BY <1>1
  <2> HIDE DEF ks
  <2>3. [d EXCEPT !.keys = ks] \in Contents /\ [d EXCEPT !.keys = ks].meta = d.meta
    BY <2>2 DEF Contents
  <2>4. QED  BY <2>1, <2>3
<1>3. CASE t \notin d.tables
  BY <1>3 DEF CopyKeys
<1>4. QED  BY <1>2, <1>3

LEMMA AddIsTyped ==
    ASSUME NEW d \in Contents, NEW v \in Versions
    PROVE  AddColumns(d, v) \in Contents /\ AddColumns(d, v).meta = d.meta
<1>1. CASE v \in d.shape
  BY <1>1 DEF AddColumns
<1>2. CASE v \notin d.shape
  BY <1>2, AddIs
<1>3. QED  BY <1>1, <1>2

\* A statement but the last leaves to do what was left to do after it.
LEMMA StatementOfRebuild ==
    ASSUME NEW d \in Contents, NEW line \in 1 .. 7
    PROVE  LET e == Run(d, 5, Script(5)[line])
           IN  /\ e \in Contents /\ e.meta = d.meta
               /\ Rebuilt(e, line + 1) = Rebuilt(d, line)
<1>1. Current \in KeyTable /\ Renamed \in KeyTable /\ Fresh \in KeyTable
  BY DEF KeyTable, Current, Renamed, Fresh
<1>2. CASE line = 1
  <2>1. Run(d, 5, Script(5)[line]) = DropTable(d, Fresh)
    BY <1>2 DEF Run, Script, Fresh
  <2>2. Rebuilt(DropTable(d, Fresh), line + 1) = Rebuilt(d, line)
    BY <1>2 DEF Rebuilt, Fresh
  <2>3. QED  BY <1>1, <2>1, <2>2, DropIsTyped
<1>3. CASE line = 2
  <2> DEFINE e == [d EXCEPT !.tables = @ \cup {Fresh}]
  <2>1. Run(d, 5, Script(5)[line]) = e
    BY <1>3 DEF Run, Script, Fresh
  <2>2. Rebuilt(e, line + 1) = Rebuilt(d, line)
    BY <1>3 DEF Rebuilt, Fresh
  <2>3. e \in Contents /\ e.meta = d.meta
    BY CreateIs DEF Same
  <2>4. QED  BY <2>1, <2>2, <2>3
<1>4. CASE line = 3
  <2>1. Run(d, 5, Script(5)[line]) = CopyKeys(d, Current)
    BY <1>4 DEF Run, Script, Current
  <2>2. Rebuilt(CopyKeys(d, Current), line + 1) = Rebuilt(d, line)
    BY <1>4 DEF Rebuilt, Current
  <2>3. QED  BY <2>1, <2>2, CopyIsTyped
<1>5. CASE line = 4
  <2>1. Run(d, 5, Script(5)[line]) = CopyKeys(d, Renamed)
    BY <1>5 DEF Run, Script, Renamed
  <2>2. Rebuilt(CopyKeys(d, Renamed), line + 1) = Rebuilt(d, line)
    BY <1>5 DEF Rebuilt, Renamed
  <2>3. QED  BY <2>1, <2>2, CopyIsTyped
<1>6. CASE line = 5
  <2>1. Run(d, 5, Script(5)[line]) = DropTable(d, Current)
    BY <1>6 DEF Run, Script, Current
  <2>2. Rebuilt(DropTable(d, Current), line + 1) = Rebuilt(d, line)
    BY <1>6 DEF Rebuilt, Current
  <2>3. QED  BY <1>1, <2>1, <2>2, DropIsTyped
<1>7. CASE line = 6
  <2>1. Run(d, 5, Script(5)[line]) = DropTable(d, Renamed)
    BY <1>7 DEF Run, Script, Renamed
  <2>2. Rebuilt(DropTable(d, Renamed), line + 1) = Rebuilt(d, line)
    BY <1>7 DEF Rebuilt, Renamed
  <2>3. QED  BY <1>1, <2>1, <2>2, DropIsTyped
<1>8. CASE line = 7
  <2>1. Run(d, 5, Script(5)[line]) = RenameNew(d)
    BY <1>8 DEF Run, Script
  <2>2. Rebuilt(RenameNew(d), line + 1) = Rebuilt(d, line)
    BY <1>8 DEF Rebuilt
  <2>3. RenameNew(d) \in Contents /\ RenameNew(d).meta = d.meta
    BY RenameIs DEF Same
  <2>4. QED  BY <2>1, <2>2, <2>3
<1>9. QED  BY <1>2, <1>3, <1>4, <1>5, <1>6, <1>7, <1>8

LEMMA StatementCarries ==
    ASSUME NEW d \in Contents, NEW v \in 2 .. SCHEMA_VERSION, NEW line \in Nat,
           1 <= line, line < Len(Script(v))
    PROVE  LET e == Run(d, v, Script(v)[line])
           IN  /\ e \in Contents /\ e.meta = d.meta
               /\ Carried(e, v, line + 1) = Carried(d, v, line)
<1>1. v \in Versions /\ 8 \in Versions /\ 10 \in Versions
  BY SixteenVersions
<1>2. CASE v = 5
  <2>1. Len(Script(v)) = 8
    BY <1>2 DEF Script
  <2>2. line \in 1 .. 7
    <3>1. \A n : n = 8 /\ line < n => line \in 1 .. 7
      OBVIOUS
    <3>2. QED  BY <2>1, <3>1
  <2>3. /\ Run(d, 5, Script(5)[line]) \in Contents /\ Run(d, 5, Script(5)[line]).meta = d.meta
        /\ Rebuilt(Run(d, 5, Script(5)[line]), line + 1) = Rebuilt(d, line)
    BY <2>2, StatementOfRebuild
  <2>4. \A b : \A n : Carried(b, 5, n) = Rebuilt(b, n)
    BY DEF Carried
  <2>5. QED  BY <1>2, <2>3, <2>4
<1>3. CASE v = 8
  <2>1. Len(Script(v)) = 3
    BY <1>3 DEF Script
  <2>2. line \in 1 .. 2
    <3>1. \A n : n = 3 /\ line < n => line \in 1 .. 2
      OBVIOUS
    <3>2. QED  BY <2>1, <3>1
  <2>3. CASE line = 1
    <3>1. Run(d, 8, Script(8)[line]) = AddColumns(d, 8)
      BY <2>3 DEF Run, Script
    <3>2. Carried(AddColumns(d, 8), 8, line + 1) = Carried(d, 8, line)
      BY <2>3 DEF Carried
    <3>3. QED  BY <1>1, <1>3, <3>1, <3>2, AddIsTyped
  <2>4. CASE line = 2
    <3> DEFINE e == [d EXCEPT !.ownerless = FALSE]
    <3>1. Run(d, 8, Script(8)[line]) = e
      BY <2>4 DEF Run, Script
    <3>2. Carried(e, 8, line + 1) = Carried(d, 8, line)
      BY <2>4 DEF Carried
    <3>3. e \in Contents /\ e.meta = d.meta
      BY DEF Contents
    <3>4. QED  BY <1>3, <3>1, <3>2, <3>3
  <2>5. QED  BY <2>2, <2>3, <2>4
<1>4. CASE v = 10
  <2>1. Len(Script(v)) = 3
    BY <1>4 DEF Script
  <2>2. line \in 1 .. 2
    <3>1. \A n : n = 3 /\ line < n => line \in 1 .. 2
      OBVIOUS
    <3>2. QED  BY <2>1, <3>1
  <2>3. CASE line = 1
    <3>1. Run(d, 10, Script(10)[line]) = AddColumns(d, 10)
      BY <2>3 DEF Run, Script
    <3>2. Carried(AddColumns(d, 10), 10, line + 1) = Carried(d, 10, line)
      BY <2>3 DEF Carried
    <3>3. QED  BY <1>1, <1>4, <3>1, <3>2, AddIsTyped
  <2>4. CASE line = 2
    <3>1. Run(d, 10, Script(10)[line]) = MoveActivation(d)
      BY <2>4 DEF Run, Script
    <3>2. Carried(MoveActivation(d), 10, line + 1) = Carried(d, 10, line)
      BY <2>4 DEF Carried
    <3>3. MoveActivation(d) \in Contents /\ MoveActivation(d).meta = d.meta
      BY DEF MoveActivation, Contents
    <3>4. QED  BY <1>4, <3>1, <3>2, <3>3
  <2>5. QED  BY <2>2, <2>3, <2>4
<1>5. CASE v \notin {5, 8, 10}
  <2>1. Script(v) = <<"columns", "version">>
    BY <1>5 DEF Script
  <2>2. line = 1
    BY <2>1
  <2>3. Run(d, v, Script(v)[line]) = AddColumns(d, v)
    BY <2>1, <2>2 DEF Run
  <2>4. Carried(AddColumns(d, v), v, line + 1) = Carried(d, v, line)
    BY <1>5, <2>2 DEF Carried
  <2>5. QED  BY <1>1, <2>3, <2>4, AddIsTyped
<1>6. QED  BY <1>2, <1>3, <1>4, <1>5

\* The last statement, which records the version.
LEMMA VersionIsLast ==
    ASSUME NEW d \in Contents, NEW v \in 2 .. SCHEMA_VERSION
    PROVE  /\ Len(Script(v)) \in 2 .. 8
           /\ Run(d, v, Script(v)[Len(Script(v))]) = [d EXCEPT !.meta = v]
           /\ Carried(d, v, Len(Script(v))) = d
<1>1. CASE v = 5
  <2>1. Len(Script(v)) = 8 /\ Script(v)[8] = "version"
    BY <1>1 DEF Script
  <2>2. Run(d, v, "version") = [d EXCEPT !.meta = v]
    BY DEF Run
  <2>3. Carried(d, v, 8) = d
    BY <1>1 DEF Carried, Rebuilt
  <2>4. QED  BY <2>1, <2>2, <2>3
<1>2. CASE v = 8
  <2>1. Len(Script(v)) = 3 /\ Script(v)[3] = "version"
    BY <1>2 DEF Script
  <2>2. Run(d, v, "version") = [d EXCEPT !.meta = v]
    BY DEF Run
  <2>3. Carried(d, v, 3) = d
    BY <1>2 DEF Carried
  <2>4. QED  BY <2>1, <2>2, <2>3
<1>3. CASE v = 10
  <2>1. Len(Script(v)) = 3 /\ Script(v)[3] = "version"
    BY <1>3 DEF Script
  <2>2. Run(d, v, "version") = [d EXCEPT !.meta = v]
    BY DEF Run
  <2>3. Carried(d, v, 3) = d
    BY <1>3 DEF Carried
  <2>4. QED  BY <2>1, <2>2, <2>3
<1>4. CASE v \notin {5, 8, 10}
  <2>1. Len(Script(v)) = 2 /\ Script(v)[2] = "version"
    BY <1>4 DEF Script
  <2>2. Run(d, v, "version") = [d EXCEPT !.meta = v]
    BY DEF Run
  <2>3. Carried(d, v, 2) = d
    BY <1>4 DEF Carried
  <2>4. QED  BY <2>1, <2>2, <2>3
<1>5. QED  BY <1>1, <1>2, <1>3, <1>4

\* At the first statement of a migration, or past the last.
LEMMA MigrationBegins ==
    ASSUME NEW q, q.work \in Contents, q.work.meta \in Versions, q.line = 1,
           Ready(q.work, q.work.meta)
    PROVE  Migrates(q)
<1> DEFINE v == q.work.meta + 1
<1>1. CASE q.work.meta = SCHEMA_VERSION
  BY <1>1 DEF Migrates
<1>2. CASE q.work.meta # SCHEMA_VERSION
  <2>1. v \in 2 .. SCHEMA_VERSION /\ v - 1 = q.work.meta
    BY <1>2, SixteenVersions
  <2>2. Ready(q.work, v - 1)
    BY <2>1
  <2>3. Ready(Carried(q.work, v, 1), v)
    <3> HIDE DEF v
    <3>1. QED  BY <2>1, <2>2, MigrationIsReady
  <2>4. Len(Script(v)) \in 2 .. 8
    <3> HIDE DEF v
    <3>1. QED  BY <2>1, VersionIsLast
  <2>5. 1 \in 1 .. Len(Script(v))
    <3>1. \A n : n \in 2 .. 8 => 1 \in 1 .. n
      OBVIOUS
    <3> HIDE DEF v
    <3>2. QED  BY <2>4, <3>1
  <2>6. QED  BY <1>2, <2>3, <2>5 DEF Migrates
<1>3. QED  BY <1>1, <1>2

-----------------------------------------------------------------------------
(* The steps                                                               *)

StarterRecord == [pc: {"new", "locked", "migrating", "finishing", "serving"},
                  work: Contents, line: 1 .. 8]

\* A process moves, the database and what was found in it stand.
LEMMA AStarterMoves ==
    ASSUME SchemaInv, NEW p \in Starters, NEW q \in StarterRecord,
           starter' = [starter EXCEPT ![p] = q], UNCHANGED <<database, found>>,
           migration_lock' \in Starters \cup {"free"},
           \A r \in Starters \ {p} : migration_lock = r => migration_lock' = r,
           q.pc \in {"locked", "migrating", "finishing"} => migration_lock' = p,
           q.pc = "migrating" => Migrates(q),
           q.pc = "finishing" => q.work.meta = SCHEMA_VERSION /\ Ready(q.work, SCHEMA_VERSION),
           q.pc = "serving" => Legacy(SCHEMA_VERSION, database)
    PROVE  SchemaInv'
<1>1. starter' \in [Starters -> StarterRecord] /\ starter'[p] = q
      /\ \A r \in Starters : r # p => starter'[r] = starter[r]
  BY DEF SchemaInv, SchemaTypeOK, StarterRecord
<1>2. SchemaTypeOK'
  BY <1>1 DEF SchemaInv, SchemaTypeOK, StarterRecord
<1>3. Unchanged(database)'
  BY DEF SchemaInv, Unchanged
<1>4. (database # Nothing => \E v \in Versions : Legacy(v, database))'
  BY DEF SchemaInv
<1>5. ASSUME NEW r \in Starters
      PROVE  Fits(r, starter[r])'
  <2>1. CASE r = p
    <3>1. (starter[r].pc = "migrating" => Migrates(starter[r]))'
      BY <1>1, <2>1 DEF Migrates, Ready, Unchanged
    <3>2. (starter[r].pc = "finishing" => starter[r].work.meta = SCHEMA_VERSION
                                         /\ Ready(starter[r].work, SCHEMA_VERSION))'
      BY <1>1, <2>1 DEF Ready, Unchanged
    <3>3. (starter[r].pc = "serving" => Legacy(SCHEMA_VERSION, database))'
      BY <1>1, <2>1
    <3>4. (starter[r].pc \in {"locked", "migrating", "finishing"} => migration_lock = r)'
      BY <1>1, <2>1
    <3>5. QED  BY <3>1, <3>2, <3>3, <3>4 DEF Fits
  <2>2. CASE r # p
    <3>1. Fits(r, starter[r]) /\ starter'[r] = starter[r]
      BY <1>1, <2>2 DEF SchemaInv
    <3>2. (starter[r].pc = "migrating" => Migrates(starter[r]))'
      BY <3>1 DEF Fits, Migrates, Ready, Unchanged
    <3>3. (starter[r].pc = "finishing" => starter[r].work.meta = SCHEMA_VERSION
                                         /\ Ready(starter[r].work, SCHEMA_VERSION))'
      BY <3>1 DEF Fits, Ready, Unchanged
    <3>4. (starter[r].pc = "serving" => Legacy(SCHEMA_VERSION, database))'
      BY <3>1 DEF Fits
    <3>5. (starter[r].pc \in {"locked", "migrating", "finishing"} => migration_lock = r)'
      BY <2>2, <3>1 DEF Fits
    <3>6. QED  BY <3>2, <3>3, <3>4, <3>5 DEF Fits
  <2>3. QED  BY <2>1, <2>2
<1>6. QED  BY <1>2, <1>3, <1>4, <1>5 DEF SchemaInv

LEMMA NothingIs ==
    /\ Nothing \in Contents /\ Nothing.meta = 0 /\ Nothing.shape = {} /\ Nothing.tables = {}
    /\ Nothing.verified = {} /\ Nothing.active = {} /\ ~Nothing.ownerless
    /\ \A t \in KeyTable : Nothing.keys[t] = {}
    /\ AllKeys(Nothing) = {} /\ Access(Nothing) = {}
<1>1. /\ Nothing.meta = 0 /\ Nothing.shape = {} /\ Nothing.tables = {}
      /\ Nothing.verified = {} /\ Nothing.active = {} /\ ~Nothing.ownerless
      /\ \A t \in KeyTable : Nothing.keys[t] = {}
  BY DEF Nothing
<1>2. [t \in KeyTable |-> {}] \in [KeyTable -> SUBSET OldKeys] /\ 0 \in 0 .. SCHEMA_VERSION
  BY SixteenVersions
<1>3. Nothing \in Contents
  BY <1>2 DEF Nothing, Contents
<1>4. AllKeys(Nothing) = {}
  BY <1>1 DEF AllKeys
<1>5. Access(Nothing) = {}
  BY <1>1 DEF Access
<1>6. QED  BY <1>1, <1>3, <1>4, <1>5

LEMMA NewStarterIs == NewStarter \in StarterRecord /\ NewStarter.pc = "new"
  BY NothingIs DEF NewStarter, StarterRecord

LEMMA SchemaStarts == SchemaInit => SchemaInv
<1> SUFFICES ASSUME SchemaInit PROVE SchemaInv
  OBVIOUS
<1>1. SchemaTypeOK
  BY NothingIs, NewStarterIs DEF SchemaInit, SchemaTypeOK, StarterRecord
<1>2. Unchanged(database)
  BY NothingIs DEF SchemaInit, Unchanged
<1>3. database = Nothing
  BY DEF SchemaInit
<1>4. ASSUME NEW p \in Starters  PROVE Fits(p, starter[p])
  BY NewStarterIs DEF SchemaInit, Fits
<1>5. QED  BY <1>1, <1>2, <1>3, <1>4 DEF SchemaInv

LEMMA StepEarlierRelease == SchemaInv /\ EarlierRelease => SchemaInv'
<1> SUFFICES ASSUME SchemaInv, EarlierRelease PROVE SchemaInv'
  OBVIOUS
<1>1. PICK v \in Versions, d \in
          [meta: 0 .. SCHEMA_VERSION, shape: {1 .. n : n \in Versions},
           verified: SUBSET OldAccounts, active: SUBSET OldAccounts, ownerless: {FALSE},
           tables: SUBSET (KeyTable \ {"api_idempotency_v5_new"}),
           keys: [KeyTable -> SUBSET OldKeys]] :
          /\ Legacy(v, d)
          /\ database' = d
          /\ found' = [access |-> Access(d), keys |-> AllKeys(d)]
  BY DEF EarlierRelease
<1>2. d \in Contents
  <2>1. \A n \in Versions : 1 .. n \subseteq Versions
    BY SixteenVersions
  <2>2. d.shape \subseteq Versions
    BY <2>1
  <2>3. QED  BY <2>2 DEF Contents
<1>3. Access(d) \subseteq OldAccounts
  BY <1>2 DEF Access, Contents
<1>4. AllKeys(d) \subseteq OldKeys
  BY <1>2 DEF AllKeys, Contents
<1>5. SchemaTypeOK'
  BY <1>1, <1>2, <1>3, <1>4 DEF SchemaInv, SchemaTypeOK, EarlierRelease
<1>6. Unchanged(database)'
  BY <1>1 DEF Unchanged
<1>7. (database # Nothing => \E w \in Versions : Legacy(w, database))'
  BY <1>1
<1>8. ASSUME NEW p \in Starters  PROVE Fits(p, starter[p])'
  BY DEF EarlierRelease, Fits
<1>9. QED  BY <1>5, <1>6, <1>7, <1>8 DEF SchemaInv

LEMMA StepTakeMigrationLock ==
    ASSUME SchemaInv, NEW p \in Starters, TakeMigrationLock(p)
    PROVE  SchemaInv'
<1> DEFINE q == [starter[p] EXCEPT !.pc = "locked"]
<1>1. starter' = [starter EXCEPT ![p] = q] /\ migration_lock = "free" /\ migration_lock' = p
  BY DEF TakeMigrationLock, StarterTo
<1>2. q \in StarterRecord /\ q.pc = "locked"
  BY DEF SchemaInv, SchemaTypeOK, StarterRecord
<1>3. UNCHANGED <<database, found>>
  BY DEF TakeMigrationLock
<1> HIDE DEF q
<1>4. \A r \in Starters \ {p} : migration_lock = r => migration_lock' = r
  BY <1>1, UpgradeAssumption
<1>5. QED  BY <1>1, <1>2, <1>3, <1>4, AStarterMoves

\* A database without a version has its columns, up to a release that can be told
\* by them.
LEMMA InferredIsRight ==
    ASSUME NEW d \in Contents, NEW v \in Versions, Legacy(v, d), d.meta = 0
    PROVE  InferLegacyVersion(d) = v
<1>1. v \in 1 .. 13 /\ d.shape = 1 .. v
  BY SixteenVersions DEF Legacy
<1>2. v \in d.shape \cap 1 .. 13 /\ \A w \in d.shape \cap 1 .. 13 : w <= v
  BY <1>1
<1>3. \A u \in d.shape \cap 1 .. 13 :
          (\A w \in d.shape \cap 1 .. 13 : w <= u) => u = v
  <2> SUFFICES ASSUME NEW u \in d.shape \cap 1 .. 13,
                      \A w \in d.shape \cap 1 .. 13 : w <= u
               PROVE  u = v
    OBVIOUS
  <2>1. u <= v /\ v <= u
    BY <1>2
  <2>2. u \in 1 .. 13
    OBVIOUS
  <2>3. QED  BY <1>1, <2>1, <2>2
<1>4. QED  BY <1>2, <1>3 DEF InferLegacyVersion

LEMMA StepBeginExclusive ==
    ASSUME SchemaInv, NEW p \in Starters, BeginExclusive(p)
    PROVE  SchemaInv'
<1> DEFINE d == database
           created == [d EXCEPT !.meta = SCHEMA_VERSION, !.shape = Versions,
                                !.tables = {Current}]
           dated == IF d.meta # 0 THEN d ELSE [d EXCEPT !.meta = InferLegacyVersion(d)]
           q1 == [pc |-> "finishing", line |-> 1, work |-> created]
           q2 == [pc |-> "migrating", work |-> dated, line |-> 1]
<1>1. d \in Contents /\ migration_lock = p /\ starter[p].pc = "locked"
  BY DEF SchemaInv, SchemaTypeOK, BeginExclusive, StarterAt, Fits
<1>2. UNCHANGED <<database, migration_lock, found>>
  BY DEF BeginExclusive
<1>3. migration_lock' \in Starters \cup {"free"}
      /\ \A r \in Starters \ {p} : migration_lock = r => migration_lock' = r
  BY <1>1, <1>2
<1>4. CASE d.shape = {}
  <2>1. starter' = [starter EXCEPT ![p] = q1]
    BY <1>4 DEF BeginExclusive, Current
  <2>2. d = Nothing
    <3>1. ASSUME NEW v \in Versions, Legacy(v, d)  PROVE FALSE
      <4>1. 1 \in 1 .. v
        BY SixteenVersions
      <4>2. QED  BY <1>4, <3>1, <4>1 DEF Legacy
    <3>2. QED  BY <3>1 DEF SchemaInv
  <2>3. created \in Contents /\ created.meta = SCHEMA_VERSION /\ created.shape = Versions
        /\ created.tables = {Current} /\ created.verified = {} /\ created.active = {}
        /\ ~created.ownerless /\ \A t \in KeyTable : created.keys[t] = {}
    <3>1. SCHEMA_VERSION \in 0 .. SCHEMA_VERSION /\ {Current} \subseteq KeyTable
      BY SixteenVersions DEF Current, KeyTable
    <3>2. QED  BY <1>1, <2>2, <3>1, NothingIs DEF Contents
  <2>4. Legacy(SCHEMA_VERSION, [created EXCEPT !.meta = SCHEMA_VERSION])
    <3> HIDE DEF created
    <3>1. 16 \in Versions /\ Renamed \notin created.tables /\ created.shape = 1 .. 16
      BY <2>3, SixteenVersions DEF Renamed, Current
    <3>2. /\ created.shape = 1 .. 16
          /\ 16 < 9 => created.verified = {}
          /\ 16 < 10 => created.active = {}
          /\ ~created.ownerless
          /\ created.tables = IF 16 < 3 THEN {} ELSE
                        IF 16 = 4 /\ Renamed \in created.tables
                        THEN {Renamed} \cup (created.tables \cap {Current})
                        ELSE {Current}
          /\ \A t \in KeyTable \ created.tables : created.keys[t] = {}
      BY <2>3, <3>1
    <3>3. Legacy(16, [created EXCEPT !.meta = 16])
      BY <2>3, <3>1, <3>2, LegacyIs
    <3>4. QED  BY <3>3, SixteenVersions
  <2>5. Access(created) = {}
    <3> HIDE DEF created
    <3>1. 10 \in Versions
      BY SixteenVersions
    <3>2. QED  BY <2>3, <3>1 DEF Access
  <2>6. AllKeys(created) = {}
    <3> HIDE DEF created
    <3>1. {Current} \subseteq KeyTable
      BY DEF Current, KeyTable
    <3>2. QED  BY <2>3, <3>1 DEF AllKeys
  <2>7. Ready(created, SCHEMA_VERSION)
    <3> HIDE DEF created
    <3>1. found.access = {} /\ found.keys = {}
      BY <2>2, NothingIs DEF SchemaInv, Unchanged
    <3>2. QED  BY <2>4, <2>5, <2>6, <3>1 DEF Ready, Unchanged
  <2> HIDE DEF created
  <2>8. q1 \in StarterRecord /\ q1.pc = "finishing" /\ q1.work = created
    BY <2>3 DEF StarterRecord
  <2> HIDE DEF q1
  <2>9. QED  BY <1>1, <1>2, <1>3, <2>1, <2>3, <2>7, <2>8, AStarterMoves
<1>5. CASE d.shape # {}
  <2>1. starter' = [starter EXCEPT ![p] = q2]
    BY <1>5 DEF BeginExclusive
  <2>2. PICK v \in Versions : Legacy(v, d)
    BY <1>5, NothingIs DEF SchemaInv
  <2>3. dated = [d EXCEPT !.meta = v]
    <3>1. CASE d.meta # 0
      <4>1. d.meta = v
        BY <2>2, <3>1 DEF Legacy
      <4>2. QED  BY <1>1, <3>1, <4>1, Columns
    <3>2. CASE d.meta = 0
      BY <1>1, <2>2, <3>2, InferredIsRight
    <3>3. QED  BY <3>1, <3>2
  <2> DEFINE e == [d EXCEPT !.meta = v]
  <2>4. /\ e \in Contents /\ e.meta = v /\ [e EXCEPT !.meta = v] = e
        /\ e.shape = d.shape /\ e.verified = d.verified /\ e.active = d.active
        /\ e.ownerless = d.ownerless /\ e.tables = d.tables /\ e.keys = d.keys
    <3>1. v \in 0 .. SCHEMA_VERSION
      BY SixteenVersions
    <3>2. QED  BY <1>1, <3>1 DEF Contents
  <2> HIDE DEF e
  <2>5. Legacy(v, e)
    BY <2>2, <2>4 DEF Legacy
  <2>6. Unchanged(e)
    BY <2>4 DEF SchemaInv, Unchanged, Access, AllKeys
  <2>7. Ready(e, v)
    BY <2>4, <2>5, <2>6 DEF Ready
  <2>8. dated = e
    BY <2>3 DEF e
  <2> HIDE DEF dated
  <2>9. q2.work = e /\ q2.line = 1 /\ q2.pc = "migrating" /\ q2 \in StarterRecord
    BY <2>4, <2>8 DEF StarterRecord
  <2> HIDE DEF q2
  <2>10. Migrates(q2)
    BY <2>4, <2>7, <2>9, MigrationBegins
  <2>11. QED  BY <1>1, <1>2, <1>3, <2>1, <2>9, <2>10, AStarterMoves
<1>6. QED  BY <1>4, <1>5

LEMMA StepStatement ==
    ASSUME SchemaInv, NEW p \in Starters, Statement(p)
    PROVE  SchemaInv'
<1> DEFINE q == starter[p]
           v == q.work.meta + 1
           n == Len(Script(v))
           work == Run(q.work, v, Script(v)[q.line])
           r == Executed(p)
<1>1. /\ q \in StarterRecord /\ q.pc = "migrating" /\ q.work.meta < SCHEMA_VERSION
      /\ migration_lock = p /\ Migrates(q)
      /\ starter' = [starter EXCEPT ![p] = r] /\ UNCHANGED <<database, migration_lock, found>>
  BY DEF SchemaInv, SchemaTypeOK, StarterRecord, Statement, StarterAt, Fits
<1>2. migration_lock' \in Starters \cup {"free"}
      /\ \A s \in Starters \ {p} : migration_lock = s => migration_lock' = s
  BY <1>1
<1>3. /\ q.work \in Contents /\ q.work.meta \in Versions /\ v \in 2 .. SCHEMA_VERSION
      /\ q.line \in 1 .. n /\ Ready(Carried(q.work, v, q.line), v)
  <2>1. q.work \in Contents
    <3> HIDE DEF q
    <3>1. QED  BY <1>1 DEF StarterRecord
  <2>2. q.work.meta \in Versions /\ q.work.meta # SCHEMA_VERSION
    <3> HIDE DEF q
    <3>1. q.work.meta \in Versions
      BY <1>1 DEF Migrates
    <3>2. QED  BY <1>1, <3>1, SixteenVersions
  <2>3. v \in 2 .. SCHEMA_VERSION
    <3> HIDE DEF q
    <3>1. QED  BY <1>1, <2>2, SixteenVersions
  <2>4. q.line \in 1 .. n /\ Ready(Carried(q.work, v, q.line), v)
    <3> HIDE DEF q
    <3>1. QED  BY <1>1, <2>2 DEF Migrates
  <2>5. QED  BY <2>1, <2>2, <2>3, <2>4
<1>4. n \in 2 .. 8 /\ Run(q.work, v, Script(v)[n]) = [q.work EXCEPT !.meta = v]
      /\ Carried(q.work, v, n) = q.work
  <2> HIDE DEF v
  <2>1. QED  BY <1>3, VersionIsLast
<1>5. r = [q EXCEPT !.work = work, !.line = IF q.line = n THEN 1 ELSE q.line + 1]
  BY DEF Executed
<1>6. CASE q.line = n
  <2> DEFINE e == [q.work EXCEPT !.meta = v]
  <2>1. /\ e \in Contents /\ e.meta = v /\ [e EXCEPT !.meta = v] = e
        /\ e.shape = q.work.shape /\ e.verified = q.work.verified /\ e.active = q.work.active
        /\ e.keys = q.work.keys /\ e.tables = q.work.tables
    <3>1. v \in 0 .. SCHEMA_VERSION
      BY <1>3, SixteenVersions
    <3> HIDE DEF v
    <3>2. QED  BY <1>3, <3>1 DEF Contents
  <2>2. Ready(q.work, v) /\ work = e
    BY <1>3, <1>4, <1>6
  <2>3. Ready(e, v)
    <3>1. Legacy(v, e)
      BY <2>2 DEF Ready
    <3> HIDE DEF v, e
    <3>2. Unchanged(e)
      BY <2>1, <2>2 DEF Ready, Unchanged, Access, AllKeys
    <3>3. QED  BY <2>1, <3>1, <3>2 DEF Ready
  <2>4. v \in Versions
    BY <1>3, SixteenVersions
  <2>5. r = [q EXCEPT !.work = e, !.line = 1]
    BY <1>5, <1>6, <2>2
  <2> HIDE DEF e, v
  <2>6. r \in StarterRecord /\ r.pc = "migrating" /\ r.work = e /\ r.line = 1
    <3>1. e \in Contents /\ 1 \in 1 .. 8
      BY <2>1
    <3>2. q \in StarterRecord /\ q.pc = "migrating"
      BY <1>1
    <3> HIDE DEF q, r
    <3>3. QED  BY <2>5, <3>1, <3>2 DEF StarterRecord
  <2> HIDE DEF r
  <2>7. Migrates(r)
    BY <2>1, <2>3, <2>4, <2>6, MigrationBegins
  <2>8. QED  BY <1>1, <1>2, <2>6, <2>7, AStarterMoves
<1>7. CASE q.line # n
  <2>1. q.line \in Nat /\ 1 <= q.line /\ q.line < n /\ q.line + 1 \in 1 .. n
        /\ q.line + 1 \in 1 .. 8
    <3> HIDE DEF n
    <3>1. QED  BY <1>3, <1>4, <1>7
  <2>2. work \in Contents /\ work.meta = q.work.meta
        /\ Carried(work, v, q.line + 1) = Carried(q.work, v, q.line)
    <3> HIDE DEF v
    <3>1. QED  BY <1>3, <2>1, StatementCarries
  <2>3. r = [q EXCEPT !.work = work, !.line = q.line + 1]
    BY <1>5, <1>7
  <2>4. Ready(Carried(work, v, q.line + 1), v)
    BY <1>3, <2>2
  <2>5. work.meta + 1 = v
    BY <2>2
  <2> HIDE DEF work, n, v
  <2>6. r \in StarterRecord /\ r.pc = "migrating" /\ r.work = work /\ r.line = q.line + 1
    BY <1>1, <2>1, <2>2, <2>3 DEF StarterRecord
  <2> HIDE DEF r
  <2>7. Migrates(r)
    <3>1. r.work.meta \in Versions /\ r.work.meta # SCHEMA_VERSION /\ r.work.meta + 1 = v
      BY <1>1, <1>3, <2>2, <2>5, <2>6, SixteenVersions
    <3>2. r.line \in 1 .. Len(Script(v))
      BY <2>1, <2>6 DEF n
    <3>3. Ready(Carried(r.work, v, r.line), v)
      BY <2>4, <2>6
    <3>4. QED  BY <3>1, <3>2, <3>3 DEF Migrates
  <2>8. QED  BY <1>1, <1>2, <2>6, <2>7, AStarterMoves
<1>8. QED  BY <1>6, <1>7

\* Of a database brought to the last version.
LEMMA LastIs ==
    ASSUME NEW d \in Contents, Legacy(SCHEMA_VERSION, d)
    PROVE  /\ d.shape = Versions /\ ~d.ownerless /\ d.tables = {Current}
           /\ AllKeys(d) = d.keys[Current]
<1>1. d.shape = Versions /\ ~d.ownerless /\ d.tables = {Current}
  BY SixteenVersions DEF Legacy, Current
<1>2. QED  BY <1>1 DEF AllKeys

LEMMA StepEnsureShape ==
    ASSUME SchemaInv, NEW p \in Starters, EnsureShape(p)
    PROVE  SchemaInv'
<1> DEFINE q == starter[p]
           r == [q EXCEPT !.pc = "finishing"]
<1>1. /\ q \in StarterRecord /\ q.pc = "migrating" /\ q.work.meta = SCHEMA_VERSION
      /\ migration_lock = p /\ Migrates(q) /\ UNCHANGED <<database, migration_lock, found>>
  BY DEF SchemaInv, SchemaTypeOK, StarterRecord, EnsureShape, StarterAt, Fits
<1>2. q.work \in Contents /\ Ready(q.work, SCHEMA_VERSION)
  BY <1>1 DEF StarterRecord, Migrates
<1>3. [q.work EXCEPT !.meta = SCHEMA_VERSION] = q.work
  BY <1>1, <1>2 DEF Contents
<1>4. q.work.tables = {Current}
  BY <1>2, <1>3, LastIs DEF Ready
<1>5. starter' = [starter EXCEPT ![p] = r]
  <2>1. starter' = [starter EXCEPT ![p] =
            [q EXCEPT !.pc = "finishing",
                      !.work = [q.work EXCEPT !.tables = q.work.tables \cup {Current}]]]
    BY DEF EnsureShape, Current
  <2>2. [q.work EXCEPT !.tables = q.work.tables \cup {Current}] = q.work
    BY <1>2, <1>4 DEF Contents
  <2>3. [q EXCEPT !.pc = "finishing", !.work = q.work] = r
    BY <1>1 DEF StarterRecord
  <2>4. QED  BY <2>1, <2>2, <2>3
<1>6. r \in StarterRecord /\ r.pc = "finishing" /\ r.work = q.work
  BY <1>1 DEF StarterRecord
<1> HIDE DEF r
<1>7. QED  BY <1>1, <1>2, <1>5, <1>6, AStarterMoves

LEMMA StepStartFails ==
    ASSUME SchemaInv, NEW p \in Starters, StartFails(p)
    PROVE  SchemaInv'
<1>1. /\ starter' = [starter EXCEPT ![p] = NewStarter] /\ UNCHANGED <<database, found>>
      /\ migration_lock' = IF migration_lock = p THEN "free" ELSE migration_lock
  BY DEF StartFails
<1>2. migration_lock' \in Starters \cup {"free"}
      /\ \A r \in Starters \ {p} : migration_lock = r => migration_lock' = r
  BY <1>1 DEF SchemaInv, SchemaTypeOK
<1>3. QED  BY <1>1, <1>2, NewStarterIs, AStarterMoves

LEMMA StepCommitUpgrade ==
    ASSUME SchemaInv, NEW p \in Starters, CommitUpgrade(p)
    PROVE  SchemaInv'
<1> DEFINE q == starter[p]
           r == [NewStarter EXCEPT !.pc = "serving"]
<1>1. /\ q \in StarterRecord /\ q.pc = "finishing" /\ migration_lock = p
      /\ q.work.meta = SCHEMA_VERSION /\ Ready(q.work, SCHEMA_VERSION)
  BY DEF SchemaInv, SchemaTypeOK, StarterRecord, CommitUpgrade, StarterAt, Fits
<1>2. /\ database' = q.work /\ starter' = [starter EXCEPT ![p] = r]
      /\ migration_lock' = "free" /\ UNCHANGED found
  BY DEF CommitUpgrade
<1>3. q.work \in Contents
  BY <1>1 DEF StarterRecord
<1>4. [q.work EXCEPT !.meta = SCHEMA_VERSION] = q.work
  BY <1>1, <1>3 DEF Contents
<1>5. Legacy(SCHEMA_VERSION, q.work) /\ Unchanged(q.work)
  BY <1>1, <1>4 DEF Ready
<1>6. r \in StarterRecord /\ r.pc = "serving"
  BY NewStarterIs DEF StarterRecord
<1> HIDE DEF r
<1>7. starter' \in [Starters -> StarterRecord] /\ starter'[p] = r
      /\ \A s \in Starters : s # p => starter'[s] = starter[s]
  BY <1>2, <1>6 DEF SchemaInv, SchemaTypeOK, StarterRecord
<1>8. SchemaTypeOK'
  BY <1>2, <1>3, <1>7 DEF SchemaInv, SchemaTypeOK, StarterRecord
<1>9. Unchanged(database)'
  BY <1>2, <1>5 DEF Unchanged
<1>10. (database # Nothing => \E v \in Versions : Legacy(v, database))'
  <2>1. SCHEMA_VERSION \in Versions
    BY SixteenVersions
  <2>2. QED  BY <1>2, <1>5, <2>1
<1>11. ASSUME NEW s \in Starters  PROVE Fits(s, starter[s])'
  <2>1. Legacy(SCHEMA_VERSION, database)'
    BY <1>2, <1>5
  <2>2. starter'[s].pc \in {"new", "serving"}
    <3>1. CASE s = p
      BY <1>6, <1>7, <3>1
    <3>2. CASE s # p
      <4>1. Fits(s, starter[s]) /\ starter[s] \in StarterRecord
        BY DEF SchemaInv, SchemaTypeOK, StarterRecord
      <4>2. starter[s].pc \notin {"locked", "migrating", "finishing"}
        BY <1>1, <3>2, <4>1 DEF Fits
      <4>3. QED  BY <1>7, <3>2, <4>1, <4>2 DEF StarterRecord
    <3>3. QED  BY <3>1, <3>2
  <2>3. QED  BY <2>1, <2>2 DEF Fits
<1>12. QED  BY <1>8, <1>9, <1>10, <1>11 DEF SchemaInv

-----------------------------------------------------------------------------
(* The theorems                                                            *)

\* The invariant: the database is that of a release, and the transaction of a
\* process that upgrades it needs only to go on.
THEOREM UpgradeInvariant == SchemaSpec => []SchemaInv
<1>1. SchemaInit => SchemaInv
  BY SchemaStarts
<1>2. SchemaInv /\ [SchemaNext]_schemaVars => SchemaInv'
  <2> SUFFICES ASSUME SchemaInv, [SchemaNext]_schemaVars PROVE SchemaInv'
    OBVIOUS
  <2>1. CASE EarlierRelease
    BY <2>1, StepEarlierRelease
  <2>2. ASSUME NEW p \in Starters, TakeMigrationLock(p)  PROVE SchemaInv'
    BY <2>2, StepTakeMigrationLock
  <2>3. ASSUME NEW p \in Starters, BeginExclusive(p)  PROVE SchemaInv'
    BY <2>3, StepBeginExclusive
  <2>4. ASSUME NEW p \in Starters, Statement(p)  PROVE SchemaInv'
    BY <2>4, StepStatement
  <2>5. ASSUME NEW p \in Starters, EnsureShape(p)  PROVE SchemaInv'
    BY <2>5, StepEnsureShape
  <2>6. ASSUME NEW p \in Starters, CommitUpgrade(p)  PROVE SchemaInv'
    BY <2>6, StepCommitUpgrade
  <2>7. ASSUME NEW p \in Starters, StartFails(p)  PROVE SchemaInv'
    BY <2>7, StepStartFails
  <2>8. CASE UNCHANGED schemaVars
    <3>1. ASSUME NEW p \in Starters  PROVE Fits(p, starter[p])'
      BY <2>8 DEF schemaVars, SchemaInv, Fits, Migrates, Ready, Unchanged
    <3>2. SchemaTypeOK' /\ Unchanged(database)'
          /\ (database # Nothing => \E v \in Versions : Legacy(v, database))'
      BY <2>8 DEF schemaVars, SchemaInv, SchemaTypeOK, Unchanged
    <3>3. QED  BY <3>1, <3>2 DEF SchemaInv
  <2>9. QED  BY <2>1, <2>2, <2>3, <2>4, <2>5, <2>6, <2>7, <2>8 DEF SchemaNext
<1>3. QED  BY <1>1, <1>2, PTL DEF SchemaSpec

\* Database.initialize (database.py): from whatever release, with its version
\* recorded or not, and however often the process dies between two statements
\* and is started again, who may sign in and which idempotency keys are known
\* stay what they were; a server that runs finds all keys in the one table it
\* looks in, and no reservation without an owner.
THEOREM AnUpgradeKeepsTheData == SchemaSpec => []UpgradeKeepsData
<1>1. SchemaInv => UpgradeKeepsData
  <2> SUFFICES ASSUME SchemaInv PROVE UpgradeKeepsData
    OBVIOUS
  <2>1. AccessSurvives /\ AllKeys(database) = found.keys
    BY DEF SchemaInv, Unchanged, AccessSurvives
  <2>2. ASSUME NEW p \in Starters, StarterAt(p, "serving")
        PROVE  /\ database.keys["api_idempotency"] = found.keys
               /\ database.shape = Versions /\ ~database.ownerless
    <3>1. database \in Contents /\ Legacy(SCHEMA_VERSION, database)
      BY <2>2 DEF SchemaInv, SchemaTypeOK, StarterAt, Fits
    <3>2. QED  BY <2>1, <3>1, LastIs DEF Current
  <2>3. QED  BY <2>1, <2>2 DEF UpgradeKeepsData, KeysSurvive
<1>2. QED  BY <1>1, UpgradeInvariant, PTL

=============================================================================
