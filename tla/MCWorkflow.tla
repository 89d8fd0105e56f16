----------------------------- MODULE MCWorkflow -----------------------------
(***************************************************************************)
(* Instances of Workflow for TLC.                                          *)
(***************************************************************************)
EXTENDS Workflow

CONSTANTS sweep, request

\* Two steps in a row.
ChainAfter == <<{}, {1}>>
=============================================================================
