--------------------------- MODULE MCSourceFiles ---------------------------
(***************************************************************************)
(* SourceFiles for TLC: an upload and a job made from it, an API request   *)
(* and a job made from its upload.                                         *)
(***************************************************************************)
EXTENDS SourceFiles, TLC

CONSTANTS u, j, x

UploadAndJob == u :> "upload" @@ j :> "job"
FromUpload == [o \in Ops |-> u]
ApiAndJob == x :> "api" @@ j :> "job"
FromApi == [o \in Ops |-> x]
=============================================================================
