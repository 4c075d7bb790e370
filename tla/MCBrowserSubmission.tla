-------------------------- MODULE MCBrowserSubmission --------------------------
(***************************************************************************)
(* BrowserSubmission for TLC, with one page that may start while the       *)
(* server cannot be reached: MCOperations has several pages and no such    *)
(* start.                                                                  *)
(***************************************************************************)
EXTENDS BrowserSubmission, TLC

CONSTANTS First, Customer

SelectorOf == First :> Customer
=============================================================================
