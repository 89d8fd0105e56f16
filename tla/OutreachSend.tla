---------------------------- MODULE OutreachSend ----------------------------
(***************************************************************************)
(* One outreach card (a recommendation for one person) and everything that *)
(* can put it on the wire: autopilot runs, approvals, explicit executions  *)
(* and held delivery jobs, over a pool of mailboxes each of which has an   *)
(* email queue of its own.  The queues are seen through what OneSend       *)
(* promises of a key in a mailbox; the pool choice, the policy gates, the  *)
(* rows written around a send and the ways each can fail are the code's    *)
(* (packages/pipeline/src/autopilot.ts, outreach-email.ts, sender-pool.ts, *)
(* apps/api/src/app.ts).                                                   *)
(***************************************************************************)
EXTENDS Naturals, FiniteSets

CONSTANTS
    Runs,             \* autopilot runs that may overlap
    Requests,         \* API requests and delivery jobs that may overlap
    Mailboxes,
    NoMailbox,
    Events,           \* bound: what else happens, besides the sends
    MaxActions,       \* bound: action rows of this card
    MaxSendAttempts   \* MAX_SEND_ATTEMPTS

ASSUME SendAssumption ==
    /\ Runs \cap Requests = {}
    /\ NoMailbox \notin Mailboxes
    /\ Events \subseteq {"crash", "week", "mailboxes", "dismiss", "byhand", "switch", "unsubscribe"}
    /\ MaxActions \in Nat \ {0}
    /\ MaxSendAttempts \in Nat \ {0}

VARIABLES
    rec,         \* the card's status; "dismissed" is skipped or snoozed
    trusted,     \* its campaign is on trusted_automation
    optedOut,    \* the person's suppression key is on file
    blocked,     \* the address is on the email queue's suppression list
    actions,     \* action rows
    recent,      \* the order of the rows' COALESCE(executed_at, created_at), the latest highest
    fresh,       \* rows created within the last week
    mailed,      \* rows with an outbound interaction within the last week
    held,        \* rows with a deliver_email job waiting
    status,      \* of each mailbox; "stopped" is paused or error, "gone" revoked or removed
    mail,        \* what the queue of each mailbox did with the card's key
    proc,        \* the processes
    excused      \* history: what happened that lets a person move between mailboxes

vars == <<rec, trusted, optedOut, blocked, actions, recent, fresh, mailed, held, status,
          mail, proc, excused>>
card  == <<rec, trusted>>
optOut == <<optedOut, blocked>>
rows  == <<actions, recent, fresh>>

-----------------------------------------------------------------------------

Procs   == Runs \cup Requests
Actions == 1..MaxActions

RecStatuses   == {"pending", "approved", "executed", "dismissed"}
ActionStatuses == {"none", "queued", "completed", "failed", "cancelled"}
ActionRec == [status : ActionStatuses,
              sender : Mailboxes \cup {NoMailbox},
              error : {"none", "paused", "other"}, byHand : BOOLEAN]
NoAction == [status |-> "none", sender |-> NoMailbox, error |-> "none", byHand |-> FALSE]

\* "underway": submitted, the provider has not got it; "taken": the provider has
\* it and the queue has not recorded so; "spent": every attempt was refused.
MailStates == {"idle", "underway", "taken", "sent", "spent"}
Delivered == {m \in Mailboxes : mail[m] \in {"taken", "sent"}}

Answers == {"receipt", "paused", "suppressed", "quota", "pending", "uncertain", "refused", "exhausted"}

Pcs == {"idle", "turn", "cleared", "picked", "approving", "approved", "rechecking", "cancelling",
        "picking", "checking", "naming", "sending", "waiting", "sent", "closing", "marking",
        "failed", "handling"}

\* `late`: what was already so when the card's turn came in an autopilot run.
ProcRec == [pc : Pcs,
            role : {"none", "run", "api", "job"},
            action : Actions, mailbox : Mailboxes \cup {NoMailbox},
            answer : Answers \cup {"none", "dberror"}, paced : BOOLEAN,
            late : SUBSET {"off", "optout"}]
Idle == [pc |-> "idle", role |-> "none", action |-> 1, mailbox |-> NoMailbox, answer |-> "none",
         paced |-> FALSE, late |-> {}]

Init ==
    /\ rec = "pending"
    /\ trusted = TRUE
    /\ optedOut = FALSE /\ blocked = FALSE
    /\ actions = [a \in Actions |-> NoAction]
    /\ recent = [a \in Actions |-> a]
    /\ fresh = {} /\ mailed = {} /\ held = {}
    /\ status = [m \in Mailboxes |-> "active"]
    /\ mail = [m \in Mailboxes |-> "idle"]
    /\ proc = [p \in Procs |-> Idle]
    /\ excused = {}

At(p, pc) == proc[p].pc = pc
Goto(p, pc) == proc' = [proc EXCEPT ![p].pc = pc]
Stop(p) == proc' = [proc EXCEPT ![p] = Idle]

\* The row becomes the latest: an INSERT, or a write of executed_at.
Latest(a) == [b \in Actions |-> IF b = a THEN MaxActions
                                ELSE IF recent[b] > recent[a] THEN recent[b] - 1 ELSE recent[b]]

\* A new action row, as the INSERTs of autopilot and of recordAction write it.
IsNext(a) == /\ actions[a].status = "none"
             /\ \A b \in Actions : actions[b].status = "none" => a <= b
Insert(a, sender) ==
    /\ IsNext(a)
    /\ actions' = [actions EXCEPT ![a] = [NoAction EXCEPT !.status = "queued", !.sender = sender]]
    /\ recent' = Latest(a)
    /\ fresh' = fresh \cup {a}

-----------------------------------------------------------------------------
(* The pool: lastSenderFor and choosePoolSender. *)

Sticky_AnyFailure(a) == actions[a].sender # NoMailbox /\ actions[a].status # "failed"
Sticky_OnlyDone(a) == actions[a].sender # NoMailbox /\ actions[a].status = "completed"
Sticky(a) ==
    /\ actions[a].sender # NoMailbox
    /\ actions[a].status # "failed" \/ actions[a].error = "paused"

Wrote == {a \in Actions : Sticky(a)}
LastSender ==
    IF Wrote = {} THEN NoMailbox
    ELSE actions[CHOOSE a \in Wrote : \A b \in Wrote : recent[b] <= recent[a]].sender

\* Nobody's conversation yet, or one whose mailbox was revoked or removed.
Unbound == LastSender \in {NoMailbox} \cup {m \in Mailboxes : status[m] = "gone"}

\* The mailboxes the choice may fall on.  Today's counts decide between them and
\* move with the workspace's other mail, so any active one may have most room.
Candidates ==
    {m \in Mailboxes : status[m] = "active" /\ (Unbound \/ m = LastSender)}

\* A mailbox has been chosen and no row shows it yet.
Unrecorded(q) == proc[q].pc \in {"picked", "checking", "naming"}

Choose(p, m) ==
    /\ m \in Candidates
    /\ proc' = [proc EXCEPT ![p].pc = IF @ = "cleared" THEN "picked" ELSE "checking",
                            ![p].mailbox = m]
    /\ excused' = excused
         \cup {e \in {"overlap"} : \E q \in Procs \ {p} : Unrecorded(q)}
         \cup {e \in {"moved"} : LastSender \notin {NoMailbox, m}}
    /\ UNCHANGED <<card, optOut, rows, mailed, held, status, mail>>

\* scheduleEmailDelivery.  One job an action and a day: while a job of that day
\* runs, the row it would leave behind may be refused (HeldDelivery).
Hold(p, a) ==
    \/ held' = held \cup {a}
    \/ /\ \E q \in Procs : proc[q].role = "job" /\ proc[q].action = a
       /\ UNCHANGED held

\* Every mailbox that may send is full, paused or stopped, or the keys are
\* locked: autopilot leaves the card, the others queue a delivery job.
Defer(p) ==
    /\ IF proc[p].role = "run" THEN UNCHANGED held ELSE Hold(p, proc[p].action)
    /\ Stop(p)
    /\ UNCHANGED <<card, optOut, rows, mailed, status, mail, excused>>

\* No mailbox is active: nothing is sent, and nothing is scheduled.
NoneActive(p) ==
    /\ Unbound /\ Candidates = {}
    /\ Stop(p)
    /\ UNCHANGED <<card, optOut, rows, mailed, held, status, mail, excused>>

MailerForSend(p) ==
    /\ At(p, "cleared") \/ At(p, "picking")
    /\ (\E m \in Mailboxes : Choose(p, m)) \/ Defer(p) \/ NoneActive(p)

-----------------------------------------------------------------------------
(* Autopilot. *)

GivenUp == Cardinality({a \in Actions : actions[a].status = "failed"}) >= MaxSendAttempts

\* The candidates and their failed sends are read once, at the start of the run.
StartRun(p) ==
    /\ p \in Runs
    /\ At(p, "idle")
    /\ rec = "pending"
    /\ trusted
    /\ ~GivenUp
    /\ proc' = [proc EXCEPT ![p] = [Idle EXCEPT !.pc = "turn", !.role = "run"]]
    /\ UNCHANGED <<card, optOut, rows, mailed, held, status, mail, excused>>

\* What the loop reads live when the card's turn comes: the address's
\* interactions and the prospect's actions of the week.
WeekSpent == mailed # {} \/ \E a \in fresh : actions[a].status # "failed"

\* Everything else it asks (caps, verification, company, draft) may hold the
\* card, and asks nothing about the card's or the campaign's present state.
Turn(p) ==
    /\ At(p, "turn")
    /\ \/ /\ ~WeekSpent
          /\ proc' = [proc EXCEPT ![p].pc = "cleared",
                                  ![p].late = {w \in {"off"} : ~trusted} \cup
                                              {w \in {"optout"} : optedOut}]
       \/ Stop(p)
    /\ UNCHANGED <<card, optOut, rows, mailed, held, status, mail, excused>>

\* The action row names the mailbox before the send.
InsertRow(p, a) ==
    /\ At(p, "picked")
    /\ Insert(a, proc[p].mailbox)
    /\ proc' = [proc EXCEPT ![p].pc = "sending", ![p].action = a]
    /\ UNCHANGED <<card, optOut, mailed, held, status, mail, excused>>

-----------------------------------------------------------------------------
(* The API, and the delivery job. *)

\* Policy: the prospect's and the address's week; the row at hand excluded.
Paced(besides) ==
    \/ \E a \in fresh \ besides : actions[a].status # "cancelled"
    \/ mailed \ besides # {}

\* POST /recommendations/:id/approve, up to the decision.
Approve(p) ==
    /\ p \in Requests
    /\ At(p, "idle")
    /\ rec = "pending"
    /\ ~optedOut
    /\ proc' = [proc EXCEPT ![p] =
                 [Idle EXCEPT !.pc = "approving", !.role = "api", !.paced = Paced({})]]
    /\ UNCHANGED <<card, optOut, rows, mailed, held, status, mail, excused>>

MarkApproved(p) ==
    /\ At(p, "approving")
    /\ rec' = "approved"
    /\ Goto(p, "approved")
    /\ UNCHANGED <<trusted, optOut, rows, mailed, held, status, mail, excused>>

\* recordAction; then the send, or the job that waits for the pacing hold.
RecordAction(p, a) ==
    /\ At(p, "approved")
    /\ Insert(a, NoMailbox)
    /\ IF proc[p].paced
       THEN held' = held \cup {a} /\ Stop(p)
       ELSE /\ proc' = [proc EXCEPT ![p].pc = "picking", ![p].action = a]
            /\ UNCHANGED held
    /\ UNCHANGED <<card, optOut, mailed, status, mail, excused>>

\* POST /actions/:id/execute, customer_managed: any row that is not completed.
Execute(p, a) ==
    /\ p \in Requests
    /\ At(p, "idle")
    /\ actions[a].status \notin {"none", "completed"}
    /\ ~optedOut
    /\ ~Paced({a})
    /\ proc' = [proc EXCEPT ![p] =
                 [Idle EXCEPT !.pc = "picking", !.role = "api", !.action = a]]
    /\ UNCHANGED <<card, optOut, rows, mailed, held, status, mail, excused>>

\* A failed row is sent again, cancelled or closed by hand: it stays failed
\* while it is sent, and names a mailbox again once it is not.
Reused(a) == {e \in {"reused"} : actions[a].status = "failed"}

\* POST /actions/:id/execute, manual: sent by hand, elsewhere.
ByHand(a) ==
    /\ "byhand" \in Events
    /\ actions[a].status \notin {"none", "completed"}
    /\ actions' = [actions EXCEPT ![a].status = "completed", ![a].byHand = TRUE]
    /\ recent' = Latest(a)
    /\ mailed' = mailed \cup {a}
    /\ rec' = "executed"
    /\ excused' = excused \cup Reused(a)
    /\ UNCHANGED <<trusted, optOut, fresh, held, status, mail, proc>>

\* runEmailDelivery, up to the choice of a mailbox: the row and the card are
\* read, then whether the person opted out or wrote back while it waited.
JobMaySend(a) ==
    /\ actions[a].status \notin {"completed", "cancelled"}
    /\ rec = "approved"

Job(p, a) ==
    /\ p \in Requests
    /\ At(p, "idle")
    /\ a \in held
    /\ held' = held \ {a}
    /\ IF JobMaySend(a)
       THEN proc' = [proc EXCEPT ![p] =
                      [Idle EXCEPT !.pc = "rechecking", !.role = "job", !.action = a]]
       ELSE UNCHANGED proc
    /\ UNCHANGED <<card, optOut, rows, mailed, status, mail, excused>>

Recheck(p) ==
    /\ At(p, "rechecking")
    /\ \/ ~optedOut /\ Goto(p, "picking")
       \/ Goto(p, "cancelling")
    /\ UNCHANGED <<card, optOut, rows, mailed, held, status, mail, excused>>

\* The row is cancelled whatever it says by then.
CancelHeld(p) ==
    /\ At(p, "cancelling")
    /\ actions' = [actions EXCEPT ![proc[p].action].status = "cancelled"]
    /\ excused' = excused \cup Reused(proc[p].action)
    /\ Stop(p)
    /\ UNCHANGED <<card, optOut, recent, fresh, mailed, held, status, mail>>

\* A failure is recorded while the message is, or may get, to a provider, or
\* while somebody else is sending the card.
Sending(q) == proc[q].pc \in {"sending", "waiting", "sent", "closing", "marking", "failed"}
Doubt(p) ==
    {e \in {"doubt"} : \/ \E m \in Mailboxes : mail[m] \in {"underway", "taken", "sent"}
                       \/ \E q \in Procs \ {p} : Sending(q)}

\* The row names the mailbox before the send.
Named_Not(p) == actions
Named(p) == [actions EXCEPT ![proc[p].action].sender = proc[p].mailbox]

\* deliverEmailAction, up to the send: what was read decides.
Deliver(p) ==
    LET a == proc[p].action IN
    /\ At(p, "checking")
    /\ actions[a].status # "completed"
    /\ proc[p].role = "job" => mailed = {}
    /\ Goto(p, "naming")
    /\ UNCHANGED <<card, optOut, rows, mailed, held, status, mail, excused>>

AssignSender(p) ==
    /\ At(p, "naming")
    /\ actions' = Named(p)
    /\ excused' = excused \cup Reused(proc[p].action)
    /\ Goto(p, "sending")
    /\ UNCHANGED <<card, optOut, recent, fresh, mailed, held, status, mail>>

DeliverStops(p) ==
    LET a == proc[p].action IN
    /\ At(p, "checking")
    /\ \/ actions[a].status = "completed" /\ UNCHANGED <<actions, rec, held, excused>>
       \/ /\ actions[a].status # "completed" /\ proc[p].role = "job" /\ mailed # {}
          /\ Hold(p, a)
          /\ UNCHANGED <<actions, rec, excused>>
       \/ \* unsendable
          /\ actions[a].status # "completed"
          /\ actions' = IF actions[a].status = "queued"
                        THEN [actions EXCEPT ![a].status = "failed", ![a].error = "other"]
                        ELSE actions
          /\ excused' = excused \cup Doubt(p)
          /\ UNCHANGED <<rec, held>>
       \/ \* backToQueue
          /\ actions[a].status # "completed"
          /\ actions' = IF actions[a].status = "queued"
                        THEN [actions EXCEPT ![a].status = "cancelled"] ELSE actions
          /\ rec' = IF rec = "approved" THEN "pending" ELSE rec
          /\ UNCHANGED <<held, excused>>
    /\ Stop(p)
    /\ UNCHANGED <<trusted, optOut, recent, fresh, mailed, status, mail>>

-----------------------------------------------------------------------------
(* mailer.send: the mailbox's email queue, as OneSend promises. *)

Fails(p, answer) == proc' = [proc EXCEPT ![p].pc = "failed", ![p].answer = answer]

\* A row starts an attempt only when none is under way and one is left.
Starts_Again(state) == state # "sent"
Starts(state) == state = "idle"

Submit(p) ==
    LET m == proc[p].mailbox IN
    /\ At(p, "sending")
    /\ ~(blocked /\ mail[m] = "idle")
    /\ mail' = [mail EXCEPT ![m] = IF Starts(@) THEN "underway" ELSE @]
    /\ Goto(p, "waiting")
    /\ UNCHANGED <<card, optOut, rows, mailed, held, status, excused>>

\* The queue's gates refuse a message it does not have yet.
Gate(p) ==
    /\ At(p, "sending")
    /\ mail[proc[p].mailbox] = "idle"
    /\ \/ Fails(p, "paused") \/ Fails(p, "quota")
       \/ blocked /\ Fails(p, "suppressed")
    /\ UNCHANGED <<card, optOut, rows, mailed, held, status, mail, excused>>

ProviderTakes(m) ==
    /\ mail[m] = "underway"
    /\ mail' = [mail EXCEPT ![m] = "taken"]
    /\ UNCHANGED <<card, optOut, rows, mailed, held, status, proc, excused>>

QueueRecords(m) ==
    /\ mail[m] = "taken"
    /\ mail' = [mail EXCEPT ![m] = "sent"]
    /\ UNCHANGED <<card, optOut, rows, mailed, held, status, proc, excused>>

ProviderRefuses(m) ==
    /\ mail[m] = "underway"
    /\ mail' \in {[mail EXCEPT ![m] = "idle"], [mail EXCEPT ![m] = "spent"]}
    /\ UNCHANGED <<card, optOut, rows, mailed, held, status, proc, excused>>

\* What the caller reads of its attempt.  A read that fails counts for an attempt
\* still under way, and a lost answer for a doubtful one, whatever is recorded
\* since; and any failure is told as a stop once the mailbox is found stopped.
Return(p) ==
    LET state == mail[proc[p].mailbox] IN
    /\ At(p, "waiting")
    /\ \/ /\ state = "sent"
          /\ proc' = [proc EXCEPT ![p].pc = "sent", ![p].answer = "receipt"]
       \/ /\ state \in {"underway", "taken", "sent"}
          /\ Fails(p, "pending") \/ Fails(p, "uncertain")
       \/ state \in {"idle", "spent"} /\ Fails(p, "refused")
       \/ state = "spent" /\ Fails(p, "exhausted")
       \/ Fails(p, "paused")
    /\ UNCHANGED <<card, optOut, rows, mailed, held, status, mail, excused>>

-----------------------------------------------------------------------------
(* The rows written after a send. *)

\* recordEmailSent: the action row first, then the interaction, then the card and
\* the rest.  A database error at any of them lands in the caller's catch.
MarkCompleted(p) ==
    LET a == proc[p].action IN
    /\ At(p, "sent")
    /\ \/ /\ actions' = [actions EXCEPT ![a].status = "completed"]
          /\ recent' = Latest(a)
          /\ Goto(p, "closing")
       \/ Fails(p, "dberror") /\ UNCHANGED <<actions, recent>>
    /\ UNCHANGED <<card, optOut, fresh, mailed, held, status, mail, excused>>

RecordInteraction(p) ==
    /\ At(p, "closing")
    /\ \/ mailed' = mailed \cup {proc[p].action} /\ Goto(p, "marking")
       \/ Fails(p, "dberror") /\ UNCHANGED mailed
    /\ UNCHANGED <<card, optOut, rows, held, status, mail, excused>>

MarkExecuted_Silent(p) ==
    /\ At(p, "marking")
    /\ rec' \in {rec, "executed"}
    /\ Stop(p)
    /\ UNCHANGED <<trusted, optOut, rows, mailed, held, status, mail, excused>>
MarkExecuted(p) ==
    /\ At(p, "marking")
    /\ \/ rec' = "executed" /\ (Stop(p) \/ Fails(p, "dberror"))
       \/ Fails(p, "dberror") /\ UNCHANGED rec
    /\ UNCHANGED <<trusted, optOut, rows, mailed, held, status, mail, excused>>

\* recordEmailFailure writes over whatever the row says.  `excused` notes the
\* failures recorded for a message that is, or may yet be, with the provider.
ErrorOf(answer) == IF answer = "paused" THEN "paused" ELSE "other"
RecordFailure(p) ==
    LET a == proc[p].action
        error == ErrorOf(proc[p].answer)
    IN
    /\ At(p, "failed")
    /\ actions' = [actions EXCEPT ![a].status = "failed", ![a].error = error]
    /\ excused' = IF error = "paused" THEN excused ELSE excused \cup Doubt(p)
    /\ Goto(p, "handling")
    /\ UNCHANGED <<card, optOut, recent, fresh, mailed, held, status, mail>>

\* suppressAddress: the key, and the card with it when it is still waiting.
Suppressed ==
    /\ optedOut' = TRUE
    /\ rec' = IF rec \in {"pending", "approved"} THEN "dismissed" ELSE rec

\* markSenderError stops an active mailbox only.
Stopped(m) == IF status[m] = "active" THEN [status EXCEPT ![m] = "stopped"] ELSE status

HandleFailure(p) ==
    LET m == proc[p].mailbox
        answer == proc[p].answer
    IN
    /\ At(p, "handling")
    /\ \/ answer = "paused" /\ status' = Stopped(m) /\ UNCHANGED <<optedOut, rec>>
       \/ answer = "suppressed" /\ Suppressed /\ UNCHANGED status
       \/ answer \in {"quota", "pending"} /\ UNCHANGED <<status, optedOut, rec>>
       \/ /\ answer \in {"refused", "exhausted", "uncertain", "dberror"}
          /\ status' \in {status, Stopped(m)}    \* a refused login, or one bounce too many
          /\ UNCHANGED <<optedOut, rec>>
    /\ IF proc[p].role = "job" /\ answer \in {"quota", "pending"}
       THEN Hold(p, proc[p].action) ELSE UNCHANGED held
    /\ Stop(p)
    /\ UNCHANGED <<trusted, blocked, rows, mailed, mail, excused>>

-----------------------------------------------------------------------------
(* Everything else that happens to a card. *)

\* The process dies or throws; a job is reclaimed, or failed after its one attempt.
Crash(p) ==
    /\ "crash" \in Events
    /\ ~At(p, "idle")
    /\ \/ UNCHANGED held
       \/ proc[p].role = "job" /\ held' = held \cup {proc[p].action}
    /\ Stop(p)
    /\ UNCHANGED <<card, optOut, rows, mailed, status, mail, excused>>

\* Skip and snooze ask nothing about the card.
Dismiss ==
    /\ "dismiss" \in Events
    /\ rec' = "dismissed"
    /\ UNCHANGED <<trusted, optOut, rows, mailed, held, status, mail, proc, excused>>

SwitchAutopilot ==
    /\ "switch" \in Events
    /\ trusted' = ~trusted
    /\ UNCHANGED <<rec, optOut, rows, mailed, held, status, mail, proc, excused>>

\* The unsubscribe link: the workspace's suppression, then the queue's, which
\* may not be reached.
Unsubscribe ==
    /\ "unsubscribe" \in Events
    /\ ~optedOut
    /\ Suppressed
    /\ blocked' \in {blocked, TRUE}
    /\ UNCHANGED <<trusted, rows, mailed, held, status, mail, proc, excused>>

\* The Mailboxes page: pause, resume, remove, connect again.
SetMailbox(m, to) ==
    /\ "mailboxes" \in Events
    /\ status[m] # to
    /\ status' = [status EXCEPT ![m] = to]
    /\ UNCHANGED <<card, optOut, rows, mailed, held, mail, proc, excused>>

\* A week passes with nothing under way.
WeekPasses ==
    /\ "week" \in Events
    /\ \A p \in Procs : At(p, "idle")
    /\ fresh # {} \/ mailed # {}
    /\ fresh' = {} /\ mailed' = {}
    /\ UNCHANGED <<card, optOut, actions, recent, held, status, mail, proc, excused>>

Step(p) ==
    \/ StartRun(p) \/ Turn(p) \/ MailerForSend(p)
    \/ Approve(p) \/ MarkApproved(p)
    \/ \E a \in Actions : InsertRow(p, a) \/ RecordAction(p, a) \/ Execute(p, a) \/ Job(p, a)
    \/ Recheck(p) \/ CancelHeld(p)
    \/ Deliver(p) \/ DeliverStops(p) \/ AssignSender(p)
    \/ Submit(p) \/ Gate(p) \/ Return(p)
    \/ MarkCompleted(p) \/ RecordInteraction(p) \/ MarkExecuted(p)
    \/ RecordFailure(p) \/ HandleFailure(p)
    \/ Crash(p)

Queue(m) == ProviderTakes(m) \/ QueueRecords(m) \/ ProviderRefuses(m)

Next ==
    \/ \E p \in Procs : Step(p)
    \/ \E m \in Mailboxes : Queue(m) \/ \E to \in {"active", "stopped", "gone"} : SetMailbox(m, to)
    \/ \E a \in Actions : ByHand(a)
    \/ Dismiss \/ SwitchAutopilot \/ Unsubscribe \/ WeekPasses

Spec == Init /\ [][Next]_vars

-----------------------------------------------------------------------------
(***************************************************************************)
(* Properties                                                              *)
(***************************************************************************)

\* The card, its rows, the mailboxes and the processes are of their types.
TypeOK ==
    /\ rec \in RecStatuses
    /\ {trusted, optedOut, blocked} \subseteq BOOLEAN
    /\ actions \in [Actions -> ActionRec]
    /\ recent \in [Actions -> 0..MaxActions]
    /\ fresh \subseteq Actions /\ mailed \subseteq Actions /\ held \subseteq Actions
    /\ status \in [Mailboxes -> {"active", "stopped", "gone"}]
    /\ mail \in [Mailboxes -> MailStates]
    /\ proc \in [Procs -> ProcRec]
    /\ excused \subseteq {"overlap", "moved", "doubt", "reused"}

\* Continuity (mailerForSend, lastSenderFor): a second mailbox writes to the
\* person only if a failure was recorded for a message that may have gone out,
\* if a failed row was reused, if two senders chose at the same time, or if the
\* first mailbox was removed.  Crashes, new rows, weeks, approvals, executions,
\* jobs and provider stops by themselves never suffice.
SecondMailExcused == Cardinality(Delivered) > 1 => excused # {}

\* A row the product completed stands for a message a provider has, and, unless
\* two senders overlapped, it names the mailbox that carried it: the row is what
\* the next choice of a mailbox, the thread and the reply poll go by.
CompletedWentOut ==
    \A a \in Actions : actions[a].status = "completed" /\ ~actions[a].byHand =>
        /\ Delivered # {}
        /\ excused = {} => actions[a].sender \in Delivered

\* "Stop, never reroute" (choosePoolSender: "moving it to another mailbox would be
\* routing around the very stop that protects the sender"): while a row says the
\* provider stopped a mailbox that is still in the pool, in error included, no
\* other mailbox gets the message, unless excused.  The function's own docstring
\* says the contrary of a mailbox in error ("Only when it is gone for good - in
\* error, revoked or removed - does the person move to another account"); the
\* code, and this property, keep the person waiting for it.
NewlySubmitted(m) == mail[m] = "idle" /\ mail'[m] = "underway"
NeverFailsOver ==
    [][\A m \in Mailboxes : NewlySubmitted(m) /\ excused = {} =>
         ~\E a \in Actions : /\ actions[a].error = "paused"
                             /\ actions[a].status = "failed"
                             /\ actions[a].sender \in Mailboxes \ {m}
                             /\ status[actions[a].sender] # "gone"]_vars

\* An approved card that nothing sends, closes or offers again: no row of it can
\* be executed, and nobody is about to write one.  "The send happens here, inline
\* ... a failure the reviewer can see": the approval and the row, the row's
\* completion and the card's are written one after another, and only a process
\* that dies between two of them strands the card.
Stranded ==
    /\ rec = "approved"
    /\ ~\E a \in Actions : actions[a].status \notin {"none", "completed"}
    /\ ~\E p \in Procs : proc[p].pc \in {"approved", "closing", "marking", "failed"}
OnlyDeathsStrand == [][~Stranded /\ Stranded' => \E p \in Procs : Crash(p)]_vars

\* Each mailbox's queue, as the senders see it, keeps the promise of OneSend.
Mail(m) == INSTANCE OneSend WITH
    Callers <- Procs,
    copies  <- IF m \in Delivered THEN 1 ELSE 0,
    spent   <- mail[m] = "spent",
    answer  <- [p \in Procs |-> IF proc[p].mailbox = m /\ proc[p].answer \in Answers
                                THEN proc[p].answer ELSE "none"]
MailboxesKeepPromise ==
    /\ \A m \in Mailboxes : Mail(m)!Init
    /\ [][\A m \in Mailboxes : [Mail(m)!Next]_(Mail(m)!vars)]_vars

\* outreachIdempotencyKey: "can never mail the person twice".
NeverMailedTwice == Cardinality(Delivered) <= 1

\* autopilot.ts: the stored decision "is never trusted. Suppression, deletion,
\* rate limits and identity confidence are all re-read; a campaign switched off
\* autopilot ten seconds ago does not send": no card is submitted whose turn in
\* a run came after its campaign was switched off or its person opted out.
DecisionIsReread == \A p \in Runs : At(p, "waiting") => proc[p].late = {}
=============================================================================
