------------------------------ MODULE OneSend ------------------------------
(***************************************************************************)
(* What the email queue promises about one message key in one mailbox      *)
(* (packages/email/src/queue.ts, "One key, one send"): the provider takes  *)
(* the message at most once, a caller is told it went out only when it     *)
(* did, and a caller told that every attempt is spent is told so about a   *)
(* message that never went and never will.                                 *)
(***************************************************************************)
EXTENDS Naturals

CONSTANTS
    Callers,    \* the calls of deliver() with this key
    Answers     \* what a call may end in

VARIABLES
    copies,     \* messages the provider took
    spent,      \* no attempt is left
    answer      \* the last answer of each caller

vars == <<copies, spent, answer>>

Init ==
    /\ copies = 0
    /\ spent = FALSE
    /\ answer = [c \in Callers |-> "none"]

Send ==
    /\ copies = 0
    /\ ~spent
    /\ copies' = 1
    /\ UNCHANGED <<spent, answer>>

Spend ==
    /\ copies = 0
    /\ spent' = TRUE
    /\ UNCHANGED <<copies, answer>>

Ask(c) ==
    /\ answer' = [answer EXCEPT ![c] = "none"]
    /\ UNCHANGED <<copies, spent>>

Tell(c, a) ==
    /\ a = "receipt" => copies = 1
    /\ a = "exhausted" => spent /\ copies = 0
    /\ answer' = [answer EXCEPT ![c] = a]
    /\ UNCHANGED <<copies, spent>>

Next ==
    \/ Send
    \/ Spend
    \/ \E c \in Callers : Ask(c) \/ \E a \in Answers : Tell(c, a)

Spec == Init /\ [][Next]_vars
=============================================================================
