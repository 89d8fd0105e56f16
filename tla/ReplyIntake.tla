---------------------------- MODULE ReplyIntake ----------------------------
(***************************************************************************)
(* The messages one prospect writes back: the poll that records them       *)
(* (packages/pipeline/src/receive-email.ts), the triage_reply job that     *)
(* labels and answers them, and the bump of a thread that went quiet       *)
(* (triage-reply.ts), in the containers of a deploy, beside the people who *)
(* skip, approve and write answers of their own (apps/api/src/inbox.ts).   *)
(*                                                                         *)
(* The job is seen through what JobQueue says of a row, the mail through   *)
(* what OutreachSend and EmailQueue say of a card: whether it has gone out *)
(* at all.  What a model, a gate, a mailbox or a provider may say is a     *)
(* choice.                                                                 *)
(***************************************************************************)
EXTENDS Naturals, FiniteSets

CONSTANTS
    Containers,  \* each polls, drains and bumps in turn
    Messages,    \* 1..n, in the order they are written
    Stops,       \* those a rule reads as a request to be left alone
    Cards,       \* bound: cards about these messages (Room)
    NoCard,
    MaxUpsets    \* bound: deaths, errors, handlers slower than their lease, and
                 \* what people do, together

ASSUME IntakeAssumption ==
    /\ Messages \subseteq Nat /\ Messages # {} /\ Stops \subseteq Messages
    /\ IsFiniteSet(Cards) /\ NoCard \notin Cards
    /\ MaxUpsets \in Nat

VARIABLES
    inbox,       \* messages in the mailbox
    label,       \* interactions.reply_label of each; "absent" before it is recorded
    job,         \* its triage_reply job
    cards,       \* recommendations about a message
    mailed,      \* cards that went out, from any mailbox
    suppressed,  \* the person's suppression keys
    blocked,     \* the address in the email queue's suppression
    work,        \* what each container is doing
    desk,        \* what a person is doing: bound, one thing at a time
    orphans,     \* history: recorded by a poll that died before it queued the job
    excused,     \* history: what lets two cards about one message exist
    upsets

vars == <<inbox, label, job, cards, mailed, suppressed, blocked, work, desk,
          orphans, excused, upsets>>
optOut == <<suppressed, blocked>>
past   == <<orphans, excused, upsets>>

-----------------------------------------------------------------------------

Labels == {"absent", "none", "stop", "maybe_stop", "answerable", "other", "unclassified"}
Stored == {"stop", "maybe_stop", "answerable", "other"}   \* by a rule or a model

Card == [msg : Messages, kind : {"answer", "review", "bump"},
         status : {"pending", "approved", "executed", "skipped"}]

ASSUME CardAssumption == NoCard \notin Card

WorkRec == [pc : {"idle", "insert", "enqueue", "label", "classify", "act", "block", "new",
                  "draft", "approve", "send", "sent", "refused", "failed", "finish"},
            msg : Messages, label : Labels, bump : BOOLEAN, card : Cards \cup {NoCard}]
DeskRec == [pc : {"idle", "write", "deliver"}, msg : Messages, card : Cards \cup {NoCard}]

AnyMessage == CHOOSE m \in Messages : TRUE
Idle  == [pc |-> "idle", msg |-> AnyMessage, label |-> "none", bump |-> FALSE, card |-> NoCard]
Empty == [pc |-> "idle", msg |-> AnyMessage, card |-> NoCard]

Init ==
    /\ inbox = {}
    /\ label = [m \in Messages |-> "absent"]
    /\ job = [m \in Messages |-> "none"]
    /\ cards = [c \in Cards |-> NoCard] /\ mailed = {}
    /\ suppressed = FALSE /\ blocked = FALSE
    /\ work = [p \in Containers |-> Idle] /\ desk = Empty
    /\ orphans = {} /\ excused = {} /\ upsets = 0

Recorded == {m \in Messages : label[m] # "absent"}
Newest(m) == m \in Recorded /\ \A n \in Recorded : n <= m
Over(m) == job[m] \in {"done", "dead"}
About(m) == {c \in Cards : cards[c] # NoCard /\ cards[c].msg = m}
Free(c) == cards[c] = NoCard
NewId == CHOOSE c \in Cards : Free(c)
Room == Cardinality({c \in Cards : Free(c)}) >
          Cardinality({p \in Containers : work[p].pc = "new"})
            + (IF desk.pc = "write" /\ desk.card = NoCard THEN 1 ELSE 0)

At(p, pc) == work[p].pc = pc
Goto(p, pc) == work' = [work EXCEPT ![p].pc = pc]
Done(p) == work' = [work EXCEPT ![p] = [@ EXCEPT !.pc = "finish", !.label = "none", !.card = NoCard]]
Drafting(p, c) == work' = [work EXCEPT ![p] = [@ EXCEPT !.pc = "draft", !.label = "none", !.card = c]]
Leave(p) == work' = [work EXCEPT ![p] = Idle]
Triaging(p, m) == work[p].msg = m /\ ~work[p].bump /\ work[p].pc \notin {"idle", "insert", "enqueue"}
SetStatus(c, status) == cards' = [cards EXCEPT ![c].status = status]

\* suppressAddress: the keys, and whatever is still open for the person.
Closed == [c \in Cards |-> IF ~Free(c) /\ cards[c].status \in {"pending", "approved"}
                           THEN [cards[c] EXCEPT !.status = "skipped"] ELSE cards[c]]
Suppressing == suppressed' = TRUE /\ cards' = Closed

-----------------------------------------------------------------------------
(* receiveReplies: one message of a poll. *)

Arrive(m) ==
    /\ m \notin inbox /\ \A n \in Messages : n < m => n \in inbox
    /\ inbox' = inbox \cup {m}
    /\ UNCHANGED <<label, job, cards, mailed, optOut, work, desk, past>>

\* alreadyRecorded: what an earlier poll recorded is its business.
AlreadyRecorded_Anyone(m) == Recorded # {}
AlreadyRecorded(m) == m \in Recorded
Poll(p, m) ==
    /\ At(p, "idle")
    /\ m \in inbox /\ ~AlreadyRecorded(m)
    /\ work' = [work EXCEPT ![p] = [Idle EXCEPT !.pc = "insert", !.msg = m]]
    /\ UNCHANGED <<inbox, label, job, cards, mailed, optOut, desk, past>>

\* The message's own id is unique: a second insert throws, and ends the poll.
Insert(p) ==
    LET m == work[p].msg IN
    /\ At(p, "insert")
    /\ \/ m \in Recorded /\ Leave(p) /\ UNCHANGED label
       \/ /\ m \notin Recorded
          /\ label' = [label EXCEPT ![m] = IF m \in Stops THEN "stop" ELSE "none"]
          /\ Goto(p, "enqueue")
    /\ UNCHANGED <<inbox, job, cards, mailed, optOut, desk, past>>

\* queueTriage, after the funnel and the webhook.
QueueTriage(p) ==
    /\ At(p, "enqueue")
    /\ job' = [job EXCEPT ![work[p].msg] = "pending"]
    /\ Leave(p)
    /\ UNCHANGED <<inbox, label, cards, mailed, optOut, desk, past>>

-----------------------------------------------------------------------------
(* triageReply. *)

Claimable_Taken(m) == job[m] \in {"pending", "running"}
Claimable(m) == job[m] = "pending"
Claim(p, m) ==
    /\ At(p, "idle")
    /\ Claimable(m)
    /\ job' = [job EXCEPT ![m] = "running"]
    /\ work' = [work EXCEPT ![p] = [Idle EXCEPT !.pc = "label", !.msg = m]]
    /\ UNCHANGED <<inbox, label, cards, mailed, optOut, desk, past>>

\* labelFor: a stored label stands, anything else is the model's to say ...
Stands_Model(l) == l \in Stored \ {"stop"}
Stands(l) == l \in Stored
ReadLabel(p) ==
    LET stored == label[work[p].msg] IN
    /\ At(p, "label")
    /\ \/ /\ Stands(stored)
          /\ work' = [work EXCEPT ![p].pc = "act", ![p].label = stored]
       \/ /\ ~Stands(stored)
          /\ Goto(p, "classify")
    /\ UNCHANGED <<inbox, label, job, cards, mailed, optOut, desk, past>>

\* ... and is written whatever is stored by then.
Classify(p) ==
    /\ At(p, "classify")
    /\ \E l \in {"maybe_stop", "answerable", "other", "unclassified"} :
         /\ label' = [label EXCEPT ![work[p].msg] = l]
         /\ work' = [work EXCEPT ![p].pc = "act", ![p].label = l]
    /\ UNCHANGED <<inbox, job, cards, mailed, optOut, desk, past>>

\* honourStop: here and, unless it cannot be told, in the email queue.
Honour(p) ==
    /\ At(p, "act") /\ work[p].label = "stop"
    /\ Suppressing
    /\ Goto(p, "block")
    /\ UNCHANGED <<inbox, label, job, mailed, blocked, desk, past>>

Block(p) ==
    /\ At(p, "block")
    /\ blocked' \in {blocked, TRUE}
    /\ Done(p)
    /\ UNCHANGED <<inbox, label, job, cards, mailed, suppressed, desk, past>>

\* replyCardFor: any card about the message, whatever its status, bumps apart.
ReplyCardFor_Open(m) == {c \in About(m) : cards[c].kind # "bump" /\ cards[c].status = "pending"}
ReplyCardFor(m) == {c \in About(m) : cards[c].kind # "bump"}

\* holdPossibleStop, which is done with a card it finds, and answer.  Nothing is
\* carded without a campaign, nor answered with its answers off.
FindCard(p) ==
    LET found == ReplyCardFor(work[p].msg) IN
    /\ At(p, "act") /\ work[p].label # "stop"
    /\ \/ Done(p)
       \/ /\ work[p].label \in {"maybe_stop", "answerable"} /\ found = {}
          /\ Room
          /\ Goto(p, "new")
       \/ /\ work[p].label = "answerable"
          /\ \E c \in found : Drafting(p, c)
    /\ UNCHANGED <<inbox, label, job, cards, mailed, optOut, desk, past>>

KindOf(p) == IF work[p].bump THEN "bump"
             ELSE IF work[p].label = "maybe_stop" THEN "review" ELSE "answer"

NewCard(p) ==
    /\ At(p, "new")
    /\ \E c \in Cards :
         /\ Free(c) /\ c = NewId
         /\ cards' = [cards EXCEPT ![c] = [msg |-> work[p].msg, kind |-> KindOf(p), status |-> "pending"]]
         /\ IF KindOf(p) = "review" THEN Done(p) ELSE Drafting(p, c)
    /\ UNCHANGED <<inbox, label, job, mailed, optOut, desk, past>>

\* The draft, evaluateNow and decideAutoReply, and the mailbox: the card waits
\* for a human unless all of them agree.
Evaluate(p) ==
    /\ At(p, "draft")
    /\ Done(p) \/ (~suppressed /\ Goto(p, "approve"))
    /\ UNCHANGED <<inbox, label, job, cards, mailed, optOut, desk, past>>

\* sendUnattended: whatever has become of the card.
Approve(p) ==
    /\ At(p, "approve")
    /\ SetStatus(work[p].card, "approved")
    /\ Goto(p, "send")
    /\ UNCHANGED <<inbox, label, job, mailed, optOut, desk, past>>

\* deliverEmailAction: the mail goes out, or its receipt comes back, and the
\* answer may be lost; a refusal, or nothing.  Its key is the card's in one
\* mailbox, so a card that went out may go out again, fail or be refused.
Out(c) == (c \in mailed \/ ~blocked) /\ mailed' = mailed \cup {c}
MayRefuse(c) == c \in mailed \/ blocked

Send(p) ==
    LET c == work[p].card IN
    /\ At(p, "send")
    /\ \/ Out(c) /\ (Goto(p, "sent") \/ Goto(p, "failed"))
       \/ /\ Goto(p, "failed") \/ (MayRefuse(c) /\ Goto(p, "refused"))
          /\ UNCHANGED mailed
    /\ UNCHANGED <<inbox, label, job, cards, optOut, desk, past>>

\* recordEmailSent.
MarkExecuted(p) ==
    /\ At(p, "sent")
    /\ SetStatus(work[p].card, "executed")
    /\ Done(p)
    /\ UNCHANGED <<inbox, label, job, mailed, optOut, desk, past>>

\* handleSendFailure: RECIPIENT_SUPPRESSED.
Refused(p) ==
    /\ At(p, "refused")
    /\ Suppressing
    /\ Goto(p, "failed")
    /\ UNCHANGED <<inbox, label, job, mailed, blocked, desk, past>>

\* Not sent: a human's to look at.
BackToPending(p) ==
    /\ At(p, "failed")
    /\ SetStatus(work[p].card, "pending")
    /\ Done(p)
    /\ UNCHANGED <<inbox, label, job, mailed, optOut, desk, past>>

Settle(p, status) == job' = IF work[p].bump THEN job ELSE [job EXCEPT ![work[p].msg] = status]

Finish(p) ==
    /\ At(p, "finish")
    /\ Settle(p, "done")
    /\ Leave(p)
    /\ UNCHANGED <<inbox, label, cards, mailed, optOut, desk, past>>

-----------------------------------------------------------------------------
(* bumpQuietThreads: seven days after our answer, when every job is over.   *)
(* Nothing but a read keeps two containers from bumping one thread: what    *)
(* triage-reply.ts:728-729 says, "One bump per inbound message, ever", does *)
(* not hold between containers, nor here.                                   *)

Bumped(m) == \E c \in About(m) : cards[c].kind = "bump"
Bump(p, m) ==
    /\ At(p, "idle")
    /\ Newest(m) /\ label[m] = "answerable" /\ Over(m)
    /\ \E c \in About(m) : cards[c].status = "executed"
    /\ ~Bumped(m)
    /\ Room
    /\ work' = [work EXCEPT ![p] = [Idle EXCEPT !.pc = "new", !.msg = m, !.bump = TRUE]]
    /\ UNCHANGED <<inbox, label, job, cards, mailed, optOut, desk, past>>

-----------------------------------------------------------------------------
(* Faults. *)

Upset == upsets < MaxUpsets /\ upsets' = upsets + 1
Orphaned(p) == orphans' = IF At(p, "enqueue") THEN orphans \cup {work[p].msg} ELSE orphans

\* A statement throws: failJob retries or gives up, a poll or the bumps end; after
\* a send that went out, deliverEmailAction says it did not.
Throw(p) ==
    /\ Upset
    /\ \/ /\ At(p, "sent") /\ Goto(p, "failed") /\ UNCHANGED <<job, orphans>>
       \/ /\ ~At(p, "idle") /\ ~At(p, "sent")
          /\ IF At(p, "insert") \/ At(p, "enqueue") THEN UNCHANGED job
             ELSE Settle(p, "pending") \/ Settle(p, "dead")
          /\ Orphaned(p)
          /\ Leave(p)
    /\ UNCHANGED <<inbox, label, cards, mailed, optOut, desk, excused>>

\* A container dies, and starts again with nothing in its hands.
Crash(p) ==
    /\ Upset
    /\ ~At(p, "idle")
    /\ Orphaned(p)
    /\ Leave(p)
    /\ UNCHANGED <<inbox, label, job, cards, mailed, optOut, desk, excused>>

\* reclaimStalled: a job nobody works on, or one slower than its lease.
Reclaim(m) ==
    /\ job[m] = "running"
    /\ job' = [job EXCEPT ![m] = "pending"]
    /\ \/ /\ ~\E p \in Containers : Triaging(p, m)
          /\ UNCHANGED <<excused, upsets>>
       \/ /\ \E p \in Containers : Triaging(p, m)
          /\ excused' = excused \cup {"overlap"}
          /\ Upset
    /\ UNCHANGED <<inbox, label, cards, mailed, optOut, work, desk, orphans>>

-----------------------------------------------------------------------------
(* People. *)

\* Skip asks nothing about the card.  Bound: one that went out is left alone.
Skip(c) ==
    /\ Upset
    /\ ~Free(c) /\ cards[c].status # "executed"
    /\ SetStatus(c, "skipped")
    /\ UNCHANGED <<inbox, label, job, mailed, optOut, work, desk, orphans, excused>>

\* approveRecommendation, on the card as it is: refused, or approved and handed
\* to deliver.
Approves(c, card) ==
    LET approved == ~suppressed IN
    /\ cards' = [cards EXCEPT ![c] = IF approved THEN [card EXCEPT !.status = "approved"] ELSE card]
    /\ desk' = IF approved THEN [pc |-> "deliver", msg |-> card.msg, card |-> c] ELSE Empty

ApproveByHand(c) ==
    /\ Upset
    /\ desk = Empty
    /\ ~Free(c) /\ cards[c].status = "pending" /\ cards[c].kind # "review"
    /\ Approves(c, cards[c])
    /\ UNCHANGED <<inbox, label, job, mailed, optOut, work, orphans, excused>>

\* deliverEmailAction again, for a person: the card stays approved when it fails.
\* A delivery put off is HeldDelivery's.
Deliver ==
    LET c == desk.card IN
    /\ desk.pc = "deliver"
    /\ \/ Out(c) /\ (SetStatus(c, "executed") \/ UNCHANGED cards) /\ UNCHANGED suppressed
       \/ UNCHANGED <<mailed, cards, suppressed>>
       \/ MayRefuse(c) /\ Suppressing /\ UNCHANGED mailed
    /\ desk' = Empty
    /\ UNCHANGED <<inbox, label, job, blocked, work, past>>

\* Writing in the inbox answers the newest message, on the card that waits ...
Compose(m) ==
    /\ Upset
    /\ desk = Empty
    /\ Newest(m)
    /\ \E c \in Cards \cup {NoCard} :
         LET waiting == {d \in About(m) : cards[d].kind # "review" /\ cards[d].status = "pending"} IN
         /\ IF waiting = {} THEN c = NoCard /\ Room ELSE c \in waiting
         /\ desk' = [pc |-> "write", msg |-> m, card |-> c]
    /\ UNCHANGED <<inbox, label, job, cards, mailed, optOut, work, orphans, excused>>

\* ... or on one of its own.
WriteReply ==
    LET m == desk.msg IN
    /\ desk.pc = "write"
    /\ \/ desk.card # NoCard /\ Approves(desk.card, cards[desk.card]) /\ UNCHANGED excused
       \/ /\ desk.card = NoCard
          /\ \E c \in Cards :
               /\ Free(c) /\ c = NewId
               /\ Approves(c, [msg |-> m, kind |-> "answer", status |-> "skipped"])
          /\ excused' = IF ReplyCardFor(m) # {} \/ \E p \in Containers : At(p, "new") /\ work[p].msg = m
                        THEN excused \cup {"beside"} ELSE excused
    /\ UNCHANGED <<inbox, label, job, mailed, optOut, work, orphans, upsets>>

-----------------------------------------------------------------------------

Run(p) ==
    \/ \E m \in Messages : Poll(p, m) \/ Claim(p, m)
    \/ Insert(p) \/ QueueTriage(p)
    \/ ReadLabel(p) \/ Classify(p) \/ Honour(p) \/ Block(p) \/ FindCard(p) \/ NewCard(p)
    \/ Evaluate(p) \/ Approve(p) \/ Send(p) \/ MarkExecuted(p) \/ Refused(p) \/ BackToPending(p)
    \/ Finish(p)

Next ==
    \/ \E p \in Containers : Run(p) \/ Throw(p) \/ Crash(p) \/ \E m \in Messages : Bump(p, m)
    \/ \E m \in Messages : Arrive(m) \/ Reclaim(m) \/ Compose(m)
    \/ \E c \in Cards : Skip(c) \/ ApproveByHand(c)
    \/ WriteReply \/ Deliver

Spec == Init /\ [][Next]_vars
FairSpec == /\ Spec
            /\ WF_vars(\E p \in Containers : Run(p))
            /\ WF_vars(\E m \in Messages : Reclaim(m))

-----------------------------------------------------------------------------
(***************************************************************************)
(* Properties                                                              *)
(***************************************************************************)

TypeOK ==
    /\ inbox \subseteq Messages
    /\ label \in [Messages -> Labels]
    /\ job \in [Messages -> {"none", "pending", "running", "done", "dead"}]
    /\ cards \in [Cards -> Card \cup {NoCard}]
    /\ mailed \subseteq Cards
    /\ {suppressed, blocked} \subseteq BOOLEAN
    /\ work \in [Containers -> WorkRec] /\ desk \in DeskRec
    /\ orphans \subseteq Messages /\ excused \subseteq {"overlap", "beside"}
    /\ upsets \in 0..MaxUpsets

\* "one message gets at most one reply card, so a retried job cannot answer
\* twice": however jobs are retried and containers die, the machine does not
\* answer a message that it, or a human, has answered on another card, unless a
\* run of the message outlived its lease or a human opened a second card beside
\* one.  That one card may go out twice is OutreachSend's to say, and bumps are
\* no answers: nothing holds of two containers' bumps.
Answers(c, m) == ~Free(c) /\ cards[c].msg = m /\ cards[c].kind # "bump"
SameQuestion(c, d) == Answers(c, cards[c].msg) /\ Answers(d, cards[c].msg)
AnsweredOnce ==
    [][\A p \in Containers :
         At(p, "send") /\ work'[p] # work[p] /\ work[p].card \in mailed' \ mailed /\ excused = {} =>
           ~\E d \in mailed \ {work[p].card} : SameQuestion(work[p].card, d)]_vars

\* A message a rule reads as a request to be left alone is never answered or
\* bumped by the machine, whatever a model would say of it, and its job is done
\* only once the person's keys are suppressed, however often it is retried, run
\* beside another container or left by one that died.
StopIsHeard ==
    \A m \in Stops :
      /\ job[m] = "done" => suppressed
      /\ \A p \in Containers : work[p].msg = m => work[p].pc \notin {"new", "approve", "send"}

\* The triage job is used as the job queue promises its handlers (OneJob), until
\* a run outlives its lease.
HolderOf(m) == {p \in Containers : Triaging(p, m)}
Promise(m) ==
    INSTANCE OneJob WITH Workers <- Containers, Outcomes <- {"done", "dead"},
                         status <- job[m], holder <- HolderOf(m),
                         overrun <- "overlap" \in excused
JobsKeepPromise ==
    /\ \A m \in Messages : Promise(m)!Init
    /\ [][\A m \in Messages : [Promise(m)!Next]_(Promise(m)!vars)]_vars

\* Every message that arrives is recorded and triaged, a stop in its words
\* honoured, unless its job ran out of attempts or the poll that recorded it
\* died before it queued the job: no later poll looks at it again.
Settled(m) ==
    \/ m \in orphans \/ job[m] = "dead"
    \/ job[m] = "done" /\ (m \in Stops => suppressed)
RepliesSettle == \A m \in Messages : m \in inbox ~> Settled(m)
=============================================================================
