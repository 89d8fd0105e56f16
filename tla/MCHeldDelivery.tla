--------------------------- MODULE MCHeldDelivery ---------------------------
(***************************************************************************)
(* Instances of HeldDelivery for TLC.                                      *)
(***************************************************************************)
EXTENDS HeldDelivery, TLC

CONSTANTS old, new

Two == 1..2
Three == 1..3
=============================================================================
