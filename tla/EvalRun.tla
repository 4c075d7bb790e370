-------------------------------- MODULE EvalRun --------------------------------
(***************************************************************************)
(* An evaluation run of unrender/eval/run_baselines.py in a Modal function *)
(* of modal_train.py: its durable schedule (eval/ledger.py) lives in one   *)
(* directory of a shared volume.  A call claims the directory, reloads the *)
(* volume, and commits it around every paid inference.  Calls are killed,  *)
(* commits fail, and an operator clears the claim of a call that is over.  *)
(*                                                                         *)
(* What a container sees of the volume is its own copy, taken when it      *)
(* starts and when it reloads; its writes reach the volume when it commits,*)
(* and may reach it at any moment before (the platform snapshots a mounted *)
(* volume, and a run on a local disk writes through).                      *)
(*                                                                         *)
(* Abstractions.  The metadata of a run is one recipe, an image is the     *)
(* version of its bytes (0 when it cannot be read), and what the model     *)
(* answers is left out.  predictions.jsonl is a copy that the readers use  *)
(* only where there is no ledger; it does not appear.                      *)
(***************************************************************************)
EXTENDS Integers

CONSTANTS
    Calls,        \* calls of the evaluation functions on one output directory
    NoCall,       \* the directory is not claimed
    Samples,      \* ids of the scheduled samples, in schedule order
    Recipes,      \* metadata: model, revision, prompt, decoder, sources
    NoRecipe,     \* the directory holds no ledger
    MaxChanges    \* bound of the model: changes of an image

ASSUME EvalAssumption ==
    /\ Samples \subseteq Nat \ {0}
    /\ NoCall \notin Calls /\ NoRecipe \notin Recipes
    /\ MaxChanges \in Nat

VARIABLES
    eval_owner,   \* unrender-evaluation-owners, at this directory
    eval_volume,  \* the committed ledger
    eval_view,    \* the ledger each container sees
    eval_call,    \* where each call is, its recipe and its sample
    image,        \* the image of each sample
    bought,       \* history: provider calls made for each sample
    compared      \* history: the rows a comparison has accepted, or NoRecipe

evalVars == <<eval_owner, eval_volume, eval_view, eval_call, image, bought, compared>>

State == {"none", "pending", "dispatched", "completed", "interrupted", "input_error"}

\* The states of a row whose provider may have been called.
Paid == {"dispatched", "completed", "interrupted"}

Ledger == [recipe: Recipes \cup {NoRecipe}, images: [Samples -> 0 .. MaxChanges + 1],
           state: [Samples -> State]]

NoLedger == [recipe |-> NoRecipe, images |-> [s \in Samples |-> 0],
             state |-> [s \in Samples |-> "none"]]

\* The steps of a call that holds the claim, and those that may have written.
Writing == {"publishing", "next", "dispatching", "calling", "answered",
            "recording", "closing", "aborting", "closed"}
Working == {"claimed", "opening"} \cup Writing
Over == {"failed", "dead"}

EvalCall == [pc: {"new", "started", "refused", "done"} \cup Working \cup Over,
             recipe: Recipes \cup {NoRecipe}, sample: Samples \cup {0}]
NewCall == [pc |-> "new", recipe |-> NoRecipe, sample |-> 0]

EvalTypeOK ==
    /\ eval_owner \in Calls \cup {NoCall}
    /\ eval_volume \in Ledger
    /\ eval_view \in [Calls -> Ledger]
    /\ eval_call \in [Calls -> EvalCall]
    /\ image \in [Samples -> 0 .. MaxChanges + 1]
    /\ bought \in [Samples -> Nat]
    /\ compared \in [Samples -> State] \cup {NoRecipe}

EvalInit ==
    /\ eval_owner = NoCall
    /\ eval_volume = NoLedger
    /\ eval_view = [c \in Calls |-> NoLedger]
    /\ eval_call = [c \in Calls |-> NewCall]
    /\ image = [s \in Samples |-> 1]
    /\ bought = [s \in Samples |-> 0]
    /\ compared = NoRecipe

At(c, pc) == eval_call[c].pc = pc
Goto(c, pc) == eval_call' = [eval_call EXCEPT ![c].pc = pc]

\* The call and its container are gone, and with them what was not committed.
End(c, pc) ==
    /\ eval_call' = [eval_call EXCEPT ![c] = [NewCall EXCEPT !.pc = pc]]
    /\ eval_view' = [eval_view EXCEPT ![c] = NoLedger]

-----------------------------------------------------------------------------
(* A call claims the directory and opens its ledger                        *)

StartEval(c) ==
    /\ At(c, "new")
    /\ eval_view' = [eval_view EXCEPT ![c] = eval_volume]
    /\ \E r \in Recipes :
          eval_call' = [eval_call EXCEPT ![c].pc = "started", ![c].recipe = r]
    /\ UNCHANGED <<eval_owner, eval_volume, image, bought, compared>>

\* owners.put(skip_if_exists): the claim stays until this call ends well.
ClaimDirectory(c) ==
    /\ At(c, "started")
    /\ IF eval_owner = NoCall
       THEN eval_owner' = c /\ Goto(c, "claimed") /\ UNCHANGED eval_view
       ELSE End(c, "refused") /\ UNCHANGED eval_owner
    /\ UNCHANGED <<eval_volume, image, bought, compared>>

\* Mutant: the container goes on with the copy it was started with.
ReloadNothing(c) ==
    /\ At(c, "claimed")
    /\ Goto(c, "opening")
    /\ UNCHANGED <<eval_owner, eval_volume, eval_view, image, bought, compared>>

Reload(c) ==
    /\ At(c, "claimed")
    /\ eval_view' = [eval_view EXCEPT ![c] = eval_volume]
    /\ Goto(c, "opening")
    /\ UNCHANGED <<eval_owner, eval_volume, image, bought, compared>>

Scheduled(r) ==
    [recipe |-> r, images |-> image, state |-> [s \in Samples |-> "pending"]]

\* A dispatch whose answer was never recorded is over, and is not repeated.
Recovered(l) ==
    [l EXCEPT !.state = [s \in Samples |->
        IF l.state[s] = "dispatched" THEN "interrupted" ELSE l.state[s]]]

\* RunLedger, meta.json and recover: a new schedule, or the one of before if
\* neither its recipe nor an image has changed.
OpenLedger(c) ==
    LET l == eval_view[c]
        r == eval_call[c].recipe
    IN  /\ At(c, "opening")
        /\ \/ /\ l.recipe = NoRecipe
              /\ eval_view' = [eval_view EXCEPT ![c] = Scheduled(r)]
              /\ Goto(c, "publishing")
           \/ /\ l.recipe = r /\ l.images = image
              /\ eval_view' = [eval_view EXCEPT ![c] = Recovered(l)]
              /\ Goto(c, "publishing")
           \/ /\ l.recipe # NoRecipe
              /\ l.recipe # r \/ l.images # image
              /\ End(c, "failed")
        /\ UNCHANGED <<eval_owner, eval_volume, image, bought, compared>>

-----------------------------------------------------------------------------
(* The samples, one after the other                                        *)

Pending(l) == {s \in Samples : l.state[s] = "pending"}
Row(c, s, state) == eval_view' = [eval_view EXCEPT ![c].state[s] = state]

\* The step after each commit: a failed one raises, and the last writes of
\* "finally" are committed too if they can be.
AfterCommit ==
    [publishing |-> "next", dispatching |-> "calling", recording |-> "next",
     closing |-> "closed", aborting |-> "failed"]

Commit(c) ==
    /\ eval_call[c].pc \in DOMAIN AfterCommit
    /\ eval_volume' = eval_view[c]
    /\ IF AfterCommit[eval_call[c].pc] = "failed"
       THEN End(c, "failed")
       ELSE Goto(c, AfterCommit[eval_call[c].pc]) /\ UNCHANGED eval_view
    /\ UNCHANGED <<eval_owner, image, bought, compared>>

\* The commit or its acknowledgement is lost.
CommitFails(c) ==
    /\ eval_call[c].pc \in DOMAIN AfterCommit
    /\ eval_volume' \in {eval_volume, eval_view[c]}
    /\ IF eval_call[c].pc \in {"closing", "aborting"}
       THEN End(c, "failed")
       ELSE Goto(c, "aborting") /\ UNCHANGED eval_view
    /\ UNCHANGED <<eval_owner, image, bought, compared>>

Readable(c, s) == image[s] # 0 /\ image[s] = eval_view[c].images[s]

NextSample(c) ==
    /\ At(c, "next")
    /\ \E s \in Pending(eval_view[c]) :
          /\ \A t \in Pending(eval_view[c]) : s <= t
          /\ \/ /\ Readable(c, s)
                /\ Row(c, s, "dispatched")
                /\ eval_call' = [eval_call EXCEPT ![c].pc = "dispatching", ![c].sample = s]
             \/ /\ ~Readable(c, s)
                /\ Row(c, s, "input_error")
                /\ Goto(c, "recording")
    /\ UNCHANGED <<eval_owner, eval_volume, image, bought, compared>>

\* The provider answers, refuses or raises: one call either way.
CallProvider(c) ==
    /\ At(c, "calling")
    /\ bought' = [bought EXCEPT ![eval_call[c].sample] = @ + 1]
    /\ Goto(c, "answered")
    /\ UNCHANGED <<eval_owner, eval_volume, eval_view, image, compared>>

Complete(c) ==
    /\ At(c, "answered")
    /\ Row(c, eval_call[c].sample, "completed")
    /\ Goto(c, "recording")
    /\ UNCHANGED <<eval_owner, eval_volume, image, bought, compared>>

FinishSamples(c) ==
    /\ At(c, "next") /\ Pending(eval_view[c]) = {}
    /\ Goto(c, "closing")
    /\ UNCHANGED <<eval_owner, eval_volume, eval_view, image, bought, compared>>

\* The last commit of _cloud_evaluation and the end of the claim, if it still
\* is the claim of this call.
ReleaseDirectory(c) ==
    /\ At(c, "closed")
    /\ eval_volume' = eval_view[c]
    /\ IF eval_owner = c
       THEN eval_owner' = NoCall /\ End(c, "done")
       ELSE End(c, "failed") /\ UNCHANGED eval_owner
    /\ UNCHANGED <<image, bought, compared>>

-----------------------------------------------------------------------------
(* What happens to a call, and around it                                   *)

\* Writes reach the volume before they are committed.
WriteThrough(c) ==
    /\ eval_call[c].pc \in Writing
    /\ eval_volume' = eval_view[c]
    /\ UNCHANGED <<eval_owner, eval_view, eval_call, image, bought, compared>>

\* The container is killed or times out; the provider may have the request.
KillEval(c) ==
    /\ eval_call[c].pc \in {"started"} \cup Working
    /\ End(c, "dead")
    /\ UNCHANGED <<eval_owner, eval_volume, image, bought, compared>>

\* The operator has found the recorded call terminal.
ClearClaim ==
    /\ eval_owner \in Calls /\ eval_call[eval_owner].pc \in Over
    /\ eval_owner' = NoCall
    /\ UNCHANGED <<eval_volume, eval_view, eval_call, image, bought, compared>>

\* The data directory is not frozen: an image is replaced or removed.
ChangeImage(s) ==
    /\ \E v \in {0, image[s] + 1} :
          v <= MaxChanges + 1 /\ image' = [image EXCEPT ![s] = v]
    /\ UNCHANGED <<eval_owner, eval_volume, eval_view, eval_call, bought, compared>>

\* Mutant: only samples that were never tried stop a comparison.
AnyTried(l) == l.recipe # NoRecipe /\ \A s \in Samples : l.state[s] # "pending"

\* require_terminal_attempts over load_predictions, which reads the ledger.
TerminalAttempts(l) ==
    l.recipe # NoRecipe /\ \A s \in Samples : l.state[s] \notin {"pending", "dispatched"}

Compare ==
    /\ compared = NoRecipe
    /\ TerminalAttempts(eval_volume)
    /\ compared' = eval_volume.state
    /\ UNCHANGED <<eval_owner, eval_volume, eval_view, eval_call, image, bought>>

EvalNext ==
    \/ \E c \in Calls :
          \/ StartEval(c) \/ ClaimDirectory(c) \/ Reload(c) \/ OpenLedger(c)
          \/ Commit(c) \/ CommitFails(c) \/ NextSample(c) \/ CallProvider(c)
          \/ Complete(c) \/ FinishSamples(c) \/ ReleaseDirectory(c)
          \/ WriteThrough(c) \/ KillEval(c)
    \/ \E s \in Samples : ChangeImage(s)
    \/ ClearClaim \/ Compare

EvalSpec == EvalInit /\ [][EvalNext]_evalVars

-----------------------------------------------------------------------------
(* Properties                                                              *)

\* No sample is ever paid for twice, whatever calls are killed, resumed or
\* raced for the directory; and from the moment the provider is called the
\* committed schedule says so, so that no report calls the sample untried.
SamplesBoughtOnce ==
    \A s \in Samples :
        /\ bought[s] <= 1
        /\ bought[s] = 1 => eval_volume.state[s] \in Paid

\* Rows that a comparison has accepted never change after it, although calls
\* may still resume the run.
ComparisonStands ==
    compared # NoRecipe => eval_volume.state = compared
=============================================================================
