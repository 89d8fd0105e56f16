--------------------------- MODULE MCReplyIntake ---------------------------
(***************************************************************************)
(* Instances of ReplyIntake for TLC.                                       *)
(***************************************************************************)
EXTENDS ReplyIntake

CONSTANTS old, new
=============================================================================
