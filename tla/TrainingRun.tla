------------------------------ MODULE TrainingRun ------------------------------
(***************************************************************************)
(* A training run: train_model of modal_train.py, unrender/train/          *)
(* sft_lora.py, recipe.py and checkpoints.py.  The run owns a directory of *)
(* a shared volume.  Every save is sealed with a receipt and committed     *)
(* before retention deletes older ones; a call that is killed is followed  *)
(* by another one, which resumes from the newest save of its own copy of   *)
(* the volume.                                                             *)
(*                                                                         *)
(* A container writes to its copy; a commit carries the saves it has       *)
(* touched into the volume and leaves the others as they are.  Writes may  *)
(* also get there before the commit: the platform snapshots a mounted      *)
(* volume, and a run on a local disk writes through.                       *)
(*                                                                         *)
(* Abstractions.  The identity of a run (base, processor, inputs,          *)
(* hyperparameters, runtime, sources) is one recipe.  A step of the model  *)
(* is the training between two saves.  The source reviews that the calls   *)
(* check are in SourceReview.                                              *)
(***************************************************************************)
EXTENDS Integers, FiniteSets, FiniteSetsExt

CONSTANTS
    Trainers,      \* calls of train_model with one output name
    NoTrainer,     \* the output name is not claimed
    LastStep,      \* the last save point
    SaveLimit,     \* save_total_limit
    TrainRecipes,  \* identities
    NoIdentity,    \* training-recipe.json is not there
    OneAtATime     \* no call is submitted while another one is not over

ASSUME TrainingAssumption ==
    /\ LastStep \in Nat \ {0}
    /\ SaveLimit \in Nat \ {0}
    /\ NoTrainer \notin Trainers /\ NoIdentity \notin TrainRecipes
    /\ OneAtATime \in BOOLEAN

Steps == 1 .. LastStep

VARIABLES
    train_owner,   \* unrender-training-owners, at this output name
    train_volume,  \* the committed run directory
    train_view,    \* the run directory each container sees
    train_call,    \* where each call is, with the Trainer state
    safe           \* history: the newest save that was ever sealed in the volume

trainVars == <<train_owner, train_volume, train_view, train_call, safe>>

\* A save is a directory checkpoint-<step>: open while it has no receipt, torn
\* while retention removes it.  best is its best_model_checkpoint.
Save == [state: {"none", "open", "sealed", "torn"}, best: {0} \cup Steps]
NoSave == [state |-> "none", best |-> 0]

RunDirectory == [recipe: TrainRecipes \cup {NoIdentity}, save: [Steps -> Save], merged: BOOLEAN]

EmptyRun == [recipe |-> NoIdentity, save |-> [n \in Steps |-> NoSave], merged |-> FALSE]

Training == {"claimed", "recorded", "identified", "training", "open", "sealed",
             "rotating", "exported", "persisted"}

TrainCall == [pc: {"new", "started", "refused", "done", "failed", "dead"} \cup Training,
              recipe: TrainRecipes \cup {NoIdentity}, step: {0} \cup Steps,
              best: {0} \cup Steps, touched: SUBSET Steps]
NewTrainCall == [pc |-> "new", recipe |-> NoIdentity, step |-> 0, best |-> 0, touched |-> {}]

TrainTypeOK ==
    /\ train_owner \in Trainers \cup {NoTrainer}
    /\ train_volume \in RunDirectory
    /\ train_view \in [Trainers -> RunDirectory]
    /\ train_call \in [Trainers -> TrainCall]
    /\ safe \in {0} \cup Steps

TrainInit ==
    /\ train_owner = NoTrainer
    /\ train_volume = EmptyRun
    /\ train_view = [c \in Trainers |-> EmptyRun]
    /\ train_call = [c \in Trainers |-> NewTrainCall]
    /\ safe = 0

TrainAt(c, pc) == train_call[c].pc = pc
TrainGoto(c, pc) == train_call' = [train_call EXCEPT ![c].pc = pc]

\* The container is gone, and with it what was not committed.
TrainEnd(c, pc) ==
    /\ train_call' = [train_call EXCEPT ![c] = [NewTrainCall EXCEPT !.pc = pc]]
    /\ train_view' = [train_view EXCEPT ![c] = EmptyRun]

Saved(d, state) == {n \in Steps : d.save[n].state = state}
NewestSealed(d) == IF Saved(d, "sealed") = {} THEN 0 ELSE Max(Saved(d, "sealed"))

\* What the volume holds once the writes of call c are in it.
Merged(c) ==
    [train_view[c] EXCEPT !.save =
        [n \in Steps |-> IF n \in train_call[c].touched
                         THEN train_view[c].save[n] ELSE train_volume.save[n]]]

Publishes(d) ==
    /\ train_volume' = d
    /\ safe' = Max({safe, NewestSealed(d)})

-----------------------------------------------------------------------------
(* A call claims the run and finds where to resume                         *)

StartTrain(c) ==
    /\ TrainAt(c, "new")
    /\ OneAtATime =>
         /\ train_owner = NoTrainer
         /\ \A d \in Trainers : train_call[d].pc # "started"
    /\ train_view' = [train_view EXCEPT ![c] = train_volume]
    /\ \E r \in TrainRecipes :
          train_call' = [train_call EXCEPT ![c].pc = "started", ![c].recipe = r]
    /\ UNCHANGED <<train_owner, train_volume, safe>>

ClaimRun(c) ==
    /\ TrainAt(c, "started")
    /\ IF train_owner = NoTrainer
       THEN train_owner' = c /\ TrainGoto(c, "claimed") /\ UNCHANGED train_view
       ELSE TrainEnd(c, "refused") /\ UNCHANGED train_owner
    /\ UNCHANGED <<train_volume, safe>>

\* The recipe is recorded once, in a directory that holds nothing else.
RecordIdentity(c) ==
    LET d == train_view[c]
        r == train_call[c].recipe
    IN  /\ TrainAt(c, "claimed")
        /\ \/ /\ d.recipe = NoIdentity /\ d.merged = FALSE
              /\ Saved(d, "none") = Steps
              /\ train_view' = [train_view EXCEPT ![c].recipe = r]
              /\ TrainGoto(c, "recorded")
           \/ /\ d.recipe = r
              /\ TrainGoto(c, "recorded") /\ UNCHANGED train_view
           \/ /\ d.recipe \notin {NoIdentity, r}
              /\ TrainEnd(c, "failed")
        /\ UNCHANGED <<train_owner, train_volume, safe>>

\* _verify_best: the best save is there, sealed, and not in the future.
BestExists(d, n) ==
    LET b == d.save[n].best
    IN  b \in {0, n} \/ (b < n /\ d.save[b].state = "sealed")

\* latest: every save must verify, the newest one with its best weights.
Resumable(d) ==
    /\ Saved(d, "open") \cup Saved(d, "torn") = {}
    /\ NewestSealed(d) # 0 => BestExists(d, NewestSealed(d))

SelectSave(c) ==
    LET d == train_view[c]
        n == NewestSealed(d)
    IN  /\ TrainAt(c, "identified")
        /\ IF Resumable(d)
           THEN /\ train_call' = [train_call EXCEPT ![c].pc = "training", ![c].step = n,
                                     ![c].best = IF n = 0 THEN 0 ELSE d.save[n].best]
                /\ UNCHANGED train_view
           ELSE TrainEnd(c, "failed")
        /\ UNCHANGED <<train_owner, train_volume, safe>>

-----------------------------------------------------------------------------
(* Saves                                                                   *)

\* Training reaches the next save point; its evaluation loss may be the best
\* one so far.  The files are written, with no receipt yet.
WriteSave(c) ==
    LET n == train_call[c].step + 1
    IN  /\ TrainAt(c, "training") /\ n \in Steps
        /\ \E b \in {n} \cup ({train_call[c].best} \ {0}) :
              /\ train_view' = [train_view EXCEPT ![c].save[n] = [state |-> "open", best |-> b]]
              /\ train_call' = [train_call EXCEPT ![c].pc = "open", ![c].step = n, ![c].best = b,
                                                  ![c].touched = @ \cup {n}]
        /\ UNCHANGED <<train_owner, train_volume, safe>>

\* Mutant: retention comes before the receipt of the new save.
RotateBeforeSeal(c) ==
    LET n == train_call[c].step
        older == {m \in Steps : m < n /\ train_view[c].save[m].state # "none"}
    IN  /\ TrainAt(c, "open")
        /\ train_view' = [train_view EXCEPT ![c].save = [m \in Steps |->
                IF m \in older THEN NoSave
                ELSE IF m = n /\ older = {} THEN [@[m] EXCEPT !.state = "sealed"] ELSE @[m]]]
        /\ train_call' = [train_call EXCEPT ![c].touched = @ \cup older,
                             ![c].pc = IF older = {} THEN "sealed" ELSE "open"]
        /\ UNCHANGED <<train_owner, train_volume, safe>>

SealSave(c) ==
    LET n == train_call[c].step
    IN  /\ TrainAt(c, "open")
        /\ IF BestExists(train_view[c], n)
           THEN /\ train_view' = [train_view EXCEPT ![c].save[n].state = "sealed"]
                /\ TrainGoto(c, "sealed")
           ELSE TrainEnd(c, "failed")
        /\ UNCHANGED <<train_owner, train_volume, safe>>

\* rotate_checkpoints: the newest saves stay, with the best one in the last
\* place before the newest; at least two stay if the best is an older one.
Kept(d, best) ==
    LET all == Saved(d, "none")
        saves == Steps \ all
        limit == IF SaveLimit = 1 /\ best # Max(saves) THEN 2 ELSE SaveLimit
        Rank(n) == IF n = best /\ n # Max(saves) THEN Max(saves) ELSE n
        newer(n) == {m \in saves \ {n} : Rank(m) > Rank(n) \/ (Rank(m) = Rank(n) /\ m > n)}
    IN  {n \in saves : Cardinality(newer(n)) < limit}

Surplus(c) ==
    {n \in Steps : /\ train_view[c].save[n].state # "none"
                   /\ n \notin Kept(train_view[c], train_call[c].best)}

\* A directory is removed file by file.
RemoveSome(c) ==
    /\ TrainAt(c, "rotating")
    /\ Saved(train_view[c], "torn") = {}
    /\ Surplus(c) # {}
    /\ train_view' = [train_view EXCEPT ![c].save[Min(Surplus(c))].state = "torn"]
    /\ train_call' = [train_call EXCEPT ![c].touched = @ \cup {Min(Surplus(c))}]
    /\ UNCHANGED <<train_owner, train_volume, safe>>

RemoveRest(c) ==
    /\ TrainAt(c, "rotating")
    /\ \E n \in Saved(train_view[c], "torn") :
          train_view' = [train_view EXCEPT ![c].save[n] = NoSave]
    /\ UNCHANGED <<train_owner, train_volume, train_call, safe>>

Rotated(c) ==
    /\ TrainAt(c, "rotating")
    /\ Surplus(c) = {}
    /\ TrainGoto(c, "training")
    /\ UNCHANGED <<train_owner, train_volume, train_view, safe>>

-----------------------------------------------------------------------------
(* The end of the run                                                      *)

\* load_best_model_at_end, the adapter and the merged model.
ExportModel(c) ==
    /\ TrainAt(c, "training") /\ train_call[c].step = LastStep
    /\ train_view' = [train_view EXCEPT ![c].merged = TRUE]
    /\ TrainGoto(c, "exported")
    /\ UNCHANGED <<train_owner, train_volume, safe>>

AfterTrainCommit == [recorded |-> "identified", sealed |-> "rotating", exported |-> "persisted"]

TrainCommit(c) ==
    /\ train_call[c].pc \in DOMAIN AfterTrainCommit
    /\ Publishes(Merged(c))
    /\ train_call' = [train_call EXCEPT ![c].pc = AfterTrainCommit[@], ![c].touched = {}]
    /\ UNCHANGED <<train_owner, train_view>>

TrainCommitFails(c) ==
    /\ train_call[c].pc \in DOMAIN AfterTrainCommit
    /\ Publishes(Merged(c)) \/ UNCHANGED <<train_volume, safe>>
    /\ TrainEnd(c, "failed")
    /\ UNCHANGED train_owner

ReleaseRun(c) ==
    /\ TrainAt(c, "persisted")
    /\ IF train_owner = c
       THEN train_owner' = NoTrainer /\ TrainEnd(c, "done")
       ELSE TrainEnd(c, "failed") /\ UNCHANGED train_owner
    /\ UNCHANGED <<train_volume, safe>>

-----------------------------------------------------------------------------
(* What happens to a call, and around it                                   *)

TrainWriteThrough(c) ==
    /\ train_call[c].pc \in Training
    /\ train_view[c].recipe # NoIdentity
    /\ Publishes(Merged(c))
    /\ UNCHANGED <<train_owner, train_view, train_call>>

KillTrain(c) ==
    /\ train_call[c].pc \in {"started"} \cup Training
    /\ TrainEnd(c, "dead")
    /\ UNCHANGED <<train_owner, train_volume, safe>>

\* The operator has found the recorded call terminal.
ClearRunClaim ==
    /\ train_owner \in Trainers /\ train_call[train_owner].pc \in {"failed", "dead"}
    /\ train_owner' = NoTrainer
    /\ UNCHANGED <<train_volume, train_view, train_call, safe>>

TrainNext ==
    \/ \E c \in Trainers :
          \/ StartTrain(c) \/ ClaimRun(c) \/ RecordIdentity(c) \/ SelectSave(c)
          \/ WriteSave(c) \/ SealSave(c) \/ RemoveSome(c) \/ RemoveRest(c) \/ Rotated(c)
          \/ ExportModel(c) \/ TrainCommit(c) \/ TrainCommitFails(c) \/ ReleaseRun(c)
          \/ TrainWriteThrough(c) \/ KillTrain(c)
    \/ ClearRunClaim

TrainSpec == TrainInit /\ [][TrainNext]_trainVars

-----------------------------------------------------------------------------
(* Properties                                                              *)

\* Training that was sealed in the volume is never lost: whatever is killed,
\* and however far a save or the retention has got, the volume holds a sealed
\* save at least as new, and the weights it names as the best ones.
SavesSurvive ==
    safe # 0 =>
        /\ NewestSealed(train_volume) >= safe
        /\ BestExists(train_volume, NewestSealed(train_volume))

\* A call resumes from the newest sealed save of the volume or not at all ("the
\* code never silently rolls back to an older checkpoint").
NoSilentRollback ==
    [][\A c \in Trainers :
          TrainAt(c, "identified") /\ train_call'[c].pc = "training"
              => train_call'[c].step >= NewestSealed(train_volume)]_trainVars
=============================================================================
