---------------------------- MODULE MCEmailQueue ----------------------------
(***************************************************************************)
(* Instance of EmailQueue for TLC: two of the calls that share a key.      *)
(***************************************************************************)
EXTENDS EmailQueue, TLC

CONSTANTS autopilot, api
=============================================================================
