------------------------------ MODULE MCOperations ------------------------------
(***************************************************************************)
(* For TLC: the modules of which each has one small instance.  They share  *)
(* no state, so a behaviour is of one part, chosen at the start; the parts *)
(* are explored side by side in one run instead of in eleven.              *)
(***************************************************************************)
EXTENDS Submissions, EvalRun, TrainingRun, SourceReview, ModelRelease,
        RecoveryCopies, SchemaUpgrade, Admission, PreviewCache, Review,
        BrowserSubmission, TLC

CONSTANTS
    Small, Middle, Wide, Huge,   \* charts, by the size of their previews
    First, Second, Customer      \* two selections of one customer

SlotsOf == [auth |-> 1, email |-> 1, expensive |-> 2]
SizeOf == Small :> 1 @@ Middle :> 2 @@ Wide :> 2 @@ Huge :> 9
SelectorOf == First :> Customer @@ Second :> Customer

VARIABLE part   \* the part this behaviour is of

Parts == {"submissions", "eval", "train", "source", "release",
          "copies", "schema", "admission", "preview", "review", "browser"}

OpsInit ==
    /\ part \in Parts
    /\ SubmissionsInit /\ EvalInit /\ TrainInit /\ SourceInit /\ ReleaseInit
    /\ CopiesInit /\ SchemaInit /\ AdmissionInit /\ PreviewInit /\ ReviewInit
    /\ BrowserInit
    /\ part = "source" \/ bundle = NoBundle

\* The variables of every part but p.
RestOf(p) ==
    /\ UNCHANGED part
    /\ p = "submissions" \/ UNCHANGED submissionVars
    /\ p = "eval" \/ UNCHANGED evalVars
    /\ p = "train" \/ UNCHANGED trainVars
    /\ p = "source" \/ UNCHANGED sourceVars
    /\ p = "release" \/ UNCHANGED releaseVars
    /\ p = "copies" \/ UNCHANGED copiesVars
    /\ p = "schema" \/ UNCHANGED schemaVars
    /\ p = "admission" \/ UNCHANGED admissionVars
    /\ p = "preview" \/ UNCHANGED previewVars
    /\ p = "review" \/ UNCHANGED reviewVars
    /\ p = "browser" \/ UNCHANGED browserVars

OpsNext ==
    \/ part = "submissions" /\ SubmissionsNext /\ RestOf("submissions")
    \/ part = "eval" /\ EvalNext /\ RestOf("eval")
    \/ part = "train" /\ TrainNext /\ RestOf("train")
    \/ part = "source" /\ SourceNext /\ RestOf("source")
    \/ part = "release" /\ ReleaseNext /\ RestOf("release")
    \/ part = "copies" /\ CopiesNext /\ RestOf("copies")
    \/ part = "schema" /\ SchemaNext /\ RestOf("schema")
    \/ part = "admission" /\ AdmissionNext /\ RestOf("admission")
    \/ part = "preview" /\ PreviewNext /\ RestOf("preview")
    \/ part = "review" /\ ReviewNext /\ RestOf("review")
    \/ part = "browser" /\ BrowserNext /\ RestOf("browser")

opsVars == <<part, submissionVars, evalVars, trainVars, sourceVars, releaseVars,
             copiesVars, schemaVars, admissionVars, previewVars, reviewVars, browserVars>>

OpsSpec == OpsInit /\ [][OpsNext]_opsVars

\* The type invariants of the parts.
OpsTypeOK ==
    /\ SubmissionsTypeOK /\ EvalTypeOK /\ TrainTypeOK /\ SourceTypeOK /\ ReleaseTypeOK
    /\ CopiesTypeOK /\ SchemaTypeOK /\ AdmissionTypeOK /\ PreviewTypeOK /\ ReviewTypeOK
    /\ BrowserTypeOK
=============================================================================
