--------------------------- MODULE OperationsProofs ---------------------------
(***************************************************************************)
(* That the parts of MCOperations lie side by side: whatever part a        *)
(* behaviour is of, every part follows its own specification.  What        *)
(* RequestProofs and OperatorProofs show of each part alone is then true   *)
(* of the specification that TLC explores, of which the parts' types are   *)
(* the invariant.                                                          *)
(***************************************************************************)
EXTENDS MCOperations, RequestProofs, OperatorProofs

-----------------------------------------------------------------------------
(* The parts                                                               *)

\* A step is one of the part that was chosen, and the others stutter.
LEMMA OnePartMoves ==
    ASSUME [OpsNext]_opsVars
    PROVE  /\ [SubmissionsNext]_submissionVars /\ [EvalNext]_evalVars /\ [TrainNext]_trainVars
           /\ [SourceNext]_sourceVars /\ [ReleaseNext]_releaseVars /\ [CopiesNext]_copiesVars
           /\ [SchemaNext]_schemaVars /\ [AdmissionNext]_admissionVars
           /\ [PreviewNext]_previewVars /\ [ReviewNext]_reviewVars /\ [BrowserNext]_browserVars
<1> DEFINE Still(p) ==
      /\ p = "submissions" \/ UNCHANGED submissionVars
      /\ p = "eval" \/ UNCHANGED evalVars
      /\ p = "train" \/ UNCHANGED trainVars
      /\ p = "source" \/ UNCHANGED sourceVars
      /\ p = "release" \/ UNCHANGED releaseVars
      /\ p = "copies" \/ UNCHANGED copiesVars
      /\ p = "schema" \/ UNCHANGED schemaVars
      /\ p = "admission" \/ UNCHANGED admissionVars
      /\ p = "preview" \/ UNCHANGED previewVars
      /\ p = "review" \/ UNCHANGED reviewVars
      /\ p = "browser" \/ UNCHANGED browserVars
<1>1. CASE UNCHANGED opsVars
  BY <1>1 DEF opsVars
<1>2. ASSUME NEW p, RestOf(p) PROVE Still(p)
  BY <1>2 DEF RestOf
<1>3. CASE SubmissionsNext /\ RestOf("submissions")
  BY <1>2, <1>3
<1>4. CASE EvalNext /\ RestOf("eval")
  BY <1>2, <1>4
<1>5. CASE TrainNext /\ RestOf("train")
  BY <1>2, <1>5
<1>6. CASE SourceNext /\ RestOf("source")
  BY <1>2, <1>6
<1>7. CASE ReleaseNext /\ RestOf("release")
  BY <1>2, <1>7
<1>8. CASE CopiesNext /\ RestOf("copies")
  BY <1>2, <1>8
<1>9. CASE SchemaNext /\ RestOf("schema")
  BY <1>2, <1>9
<1>10. CASE AdmissionNext /\ RestOf("admission")
  BY <1>2, <1>10
<1>11. CASE PreviewNext /\ RestOf("preview")
  BY <1>2, <1>11
<1>12. CASE ReviewNext /\ RestOf("review")
  BY <1>2, <1>12
<1>13. CASE BrowserNext /\ RestOf("browser")
  BY <1>2, <1>13
<1>14. OpsNext \/ UNCHANGED opsVars
  OBVIOUS
<1>15. QED  BY <1>1, <1>3, <1>4, <1>5, <1>6, <1>7, <1>8, <1>9, <1>10, <1>11, <1>12, <1>13, <1>14
            DEF OpsNext

\* No part touches what belongs to another: each behaves as its own module
\* says, which is why they can be explored in one run.
THEOREM PartsAreIndependent ==
    OpsSpec => /\ SubmissionsSpec /\ EvalSpec /\ TrainSpec /\ SourceSpec /\ ReleaseSpec
               /\ CopiesSpec /\ SchemaSpec /\ AdmissionSpec /\ PreviewSpec /\ ReviewSpec
               /\ BrowserSpec
<1>1. OpsInit => /\ SubmissionsInit /\ EvalInit /\ TrainInit /\ SourceInit /\ ReleaseInit
                 /\ CopiesInit /\ SchemaInit /\ AdmissionInit /\ PreviewInit /\ ReviewInit
                 /\ BrowserInit
  BY DEF OpsInit
<1>2. QED  BY <1>1, OnePartMoves, PTL
           DEF OpsSpec, SubmissionsSpec, EvalSpec, TrainSpec, SourceSpec, ReleaseSpec,
               CopiesSpec, SchemaSpec, AdmissionSpec, PreviewSpec, ReviewSpec, BrowserSpec

-----------------------------------------------------------------------------
(* What holds of them                                                      *)

\* The tables, files and records of all parts keep their shape, also of calls
\* that train at the same time and of pages that start without the server.
THEOREM PartsKeepTheirTypes == OpsSpec => []OpsTypeOK
<1>1. SubmissionsInv => SubmissionsTypeOK
  BY DEF SubmissionsInv
<1>2. EvalInv => EvalTypeOK
  BY DEF EvalInv
<1>3. SourceInv => SourceTypeOK
  BY DEF SourceInv
<1>4. ReleaseInv => ReleaseTypeOK
  BY DEF ReleaseInv
<1>5. CopiesInv => CopiesTypeOK
  BY DEF CopiesInv
<1>6. SchemaInv => SchemaTypeOK
  BY DEF SchemaInv
<1>7. AdmissionInv => AdmissionTypeOK
  BY DEF AdmissionInv
<1>8. PreviewInv => PreviewTypeOK
  BY DEF PreviewInv
<1>9. ReviewInv => ReviewTypeOK
  BY DEF ReviewInv
<1>10. /\ SubmissionsTypeOK /\ EvalTypeOK /\ TrainTypeOK /\ SourceTypeOK /\ ReleaseTypeOK
       /\ CopiesTypeOK /\ SchemaTypeOK /\ AdmissionTypeOK /\ PreviewTypeOK /\ ReviewTypeOK
       /\ BrowserTypeOK
       => OpsTypeOK
  BY DEF OpsTypeOK
<1>11. PreviewSpec => []PreviewInv
  BY PreviewStarts, PreviewStep, PTL DEF PreviewSpec
<1>12. QED
  BY <1>1, <1>2, <1>3, <1>4, <1>5, <1>6, <1>7, <1>8, <1>9, <1>10, <1>11, PartsAreIndependent,
     SubmissionsInvariant, EvalInvariant, TrainTypes, SourceInvariant, ReleaseInvariant,
     CopiesInvariant, UpgradeInvariant, AdmissionInvariant, ReviewInvariant, BrowserTypes, PTL

\* Everything else that the run checks of the parts side by side, for one
\* training call at a time and pages that start with the server.
THEOREM PartsKeepTheirPromises ==
    ASSUME OneAtATime = TRUE, BootMayFail = FALSE
    PROVE  OpsSpec => [](/\ OneJobPerKey /\ AnswersAreTrue /\ SamplesBoughtOnce /\ ComparisonStands
                         /\ SavesSurvive /\ ConsumedWasReviewed /\ AnswersMatchDigest
                         /\ VerifiedCopyKept /\ UpgradeKeepsData /\ SlotsMatchWork /\ WindowHolds
                         /\ CountsWhatItHolds /\ NoEditIsLost /\ ApprovalsAreGenuine
                         /\ MadeIsRecovered)
<1>1. TrainSpec => []SavesSurvive
  BY SavesAreKept
<1>2. BrowserSpec => []MadeIsRecovered
  BY RequestsAreRecovered
<1>3. QED
  BY <1>1, <1>2, PartsAreIndependent, OneJob, TrueAnswers, EverySampleBoughtOnce,
     ComparisonsStand, OnlyReviewedIsConsumed, AnswersAreOfTheirRelease, ACopyIsAlwaysKept,
     AnUpgradeKeepsTheData, SlotsAreNeitherLostNorDoubled, LimitsHold, PreviewsAreCounted,
     CorrectionsAreOfWhatWasSeen, ExportsTellTheTruth, PTL
=============================================================================
