---------------------------- MODULE MCTrainingRun ----------------------------
(***************************************************************************)
(* TrainingRun for TLC, with calls that are submitted while another one of *)
(* the same name still runs: MCOperations has those that follow one        *)
(* another.                                                                *)
(***************************************************************************)
EXTENDS TrainingRun
=============================================================================
