------------------------------- MODULE OneJob -------------------------------
(***************************************************************************)
(* What the job queue promises the handler of one row                      *)
(* (packages/pipeline/src/queue.ts): only the worker that claimed the row  *)
(* writes its outcome, one worker holds it at a time, it is handed out     *)
(* again only when its claim was given up, and an outcome is final - for   *)
(* as long as no handler finishes after its lease, which nothing in the    *)
(* queue prevents and after which nothing is promised.                     *)
(***************************************************************************)
CONSTANTS
    Workers,
    Outcomes    \* what settles the row for good: "done" and "failed", or its deletion

VARIABLES
    status,     \* of the row; "none" before it is inserted
    holder,     \* the workers inside a claim on it that is still theirs
    overrun     \* a handler finished after its lease

vars == <<status, holder, overrun>>

Init ==
    /\ status = "none"
    /\ holder = {}
    /\ overrun = FALSE

Queue ==
    /\ status = "none"
    /\ status' = "pending"
    /\ UNCHANGED <<holder, overrun>>

Claim(w) ==
    /\ status = "pending"
    /\ holder = {}
    /\ status' = "running"
    /\ holder' = {w}
    /\ UNCHANGED overrun

\* The outcome, or back in the queue for a retry.
Settle(w) ==
    /\ status = "running"
    /\ holder = {w}
    /\ status' \in Outcomes \cup {"pending"}
    /\ holder' = {}
    /\ UNCHANGED overrun

\* The worker is lost, or still at it when its lease is over.
GiveUp ==
    /\ status = "running"
    /\ holder' = {}
    /\ UNCHANGED <<status, overrun>>

Reclaim ==
    /\ status = "running"
    /\ holder = {}
    /\ status' = "pending"
    /\ UNCHANGED <<holder, overrun>>

Overrun == overrun' = TRUE

Next ==
    \/ Queue \/ GiveUp \/ Reclaim \/ Overrun
    \/ \E w \in Workers : Claim(w) \/ Settle(w)

Spec == Init /\ [][Next]_vars
=============================================================================
