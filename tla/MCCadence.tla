----------------------------- MODULE MCCadence -----------------------------
(***************************************************************************)
(* An invitation, an email to who accepted it, and another one to who has  *)
(* clicked no link by then.                                                *)
(***************************************************************************)
EXTENDS Cadence, TLC

CONSTANTS old, new, connect, email

PlanKind == 0 :> connect @@ 1 :> email @@ 2 :> email
PlanDelay == 0 :> 0 @@ 1 :> 1 @@ 2 :> 1
PlanCondition == 0 :> "if_no_reply" @@ 1 :> "if_connected" @@ 2 :> "if_not_clicked"
PlanWindow == 0 :> 2 @@ 1 :> 0 @@ 2 :> 0
PlanStop == 0 :> FALSE @@ 1 :> FALSE @@ 2 :> TRUE
=============================================================================
