---------------------------- MODULE HeldDelivery ----------------------------
(***************************************************************************)
(* An approved email whose send is put off: the `deliver_email` jobs of    *)
(* one action (packages/pipeline/src/email-delivery.ts), the requests that *)
(* schedule them (apps/api/src/app.ts) and the calendar their dedupe keys  *)
(* are made of.  A deferral is a promise: the caller, or the job's log, is *)
(* told when the message will go out.                                      *)
(*                                                                         *)
(* Time is relative: `phase` is the tick of the UTC day, a job waits so    *)
(* many ticks, and its key's day is counted from today (-1: any day past), *)
(* so no bound on the clock is needed.                                     *)
(***************************************************************************)
EXTENDS Integers, FiniteSets

CONSTANTS
    Jobs,          \* ids of jobs rows; a finished one is used again
    Workers,       \* drain loops of overlapping deploys
    DayLength,     \* ticks of a UTC day
    Jitter,        \* ticks of randomInt(0, 3_600_000)
    Soon,          \* ticks of the retries counted in minutes and hours
    Reasons,       \* why a send may be deferred: subset of Deferrals
    MaxDeferrals,  \* bound: deferrals of this action
    MaxCrashes,    \* bound: containers lost
    Events         \* bound: what else happens

Deferrals == {"capped", "locked", "address", "queue"}

ASSUME HeldAssumption ==
    /\ Jobs \subseteq Nat
    /\ Soon \in Nat \ {0} /\ DayLength \in Nat \ {0} /\ Jitter \in Nat
    /\ Reasons \subseteq Deferrals
    /\ MaxDeferrals \in Nat /\ MaxCrashes \in Nat
    /\ Events \subseteq {"throw", "stop", "sent"}

VARIABLES
    phase,
    jobs,        \* outstanding rows
    worker,
    action,      \* the action's status
    approved,    \* the card is still approved
    stopped,     \* the person opted out or wrote back
    promised,    \* the last word on this action was a time it would go out
    overtaken,   \* history: that word rests on a row which was done with by then
    died,        \* history: a job died of an error since that word, and nobody was told
    deferrals, crashes

vars == <<phase, jobs, worker, action, approved, stopped, promised, overtaken, died,
          deferrals, crashes>>
send == <<action, approved, stopped>>
word == <<promised, overtaken, died>>

-----------------------------------------------------------------------------

Job == [status : {"absent", "pending", "running"}, wait : Nat, day : Int]
Absent == [status |-> "absent", wait |-> 0, day |-> 0]

WorkerRec == [pc : {"idle", "reading", "asking", "cancelling", "choosing", "sending", "closing"},
              job : Jobs \cup {-1},
              atClaim : BOOLEAN]    \* history: already stopped when it was claimed
Idle == [pc |-> "idle", job |-> -1, atClaim |-> FALSE]

Init ==
    /\ phase = 0
    /\ jobs = [j \in Jobs |-> Absent]
    /\ worker = [w \in Workers |-> Idle]
    /\ action = "queued" /\ approved = TRUE /\ stopped = FALSE
    /\ promised = FALSE /\ overtaken = FALSE /\ died = FALSE
    /\ deferrals = 0 /\ crashes = 0

Outstanding == {j \in Jobs : jobs[j].status # "absent"}
NextId == CHOOSE j \in Jobs \ Outstanding : TRUE    \* newId("job")
Goto(w, pc) == worker' = [worker EXCEPT ![w].pc = pc]

\* Its handler has said its last word and is about to be completed.
Done(j) == \E w \in Workers : worker[w].pc = "closing" /\ worker[w].job = j

\* The UTC day of `wait` ticks from now, counted from today.
KeyDay(wait) == (phase + wait) \div DayLength

\* scheduleEmailDelivery: one row an action and a day; a second is refused, and
\* the caller, told the time either way, does not ask.  `own` is the row of the
\* job that asks (-1: a request), which is done with once it has asked.
Schedule(retry, own) ==
    \E jitter \in 0..Jitter :
      LET wait == retry + jitter
          refusing == {j \in Outstanding : jobs[j].day = KeyDay(wait)}
      IN
      /\ deferrals < MaxDeferrals
      /\ deferrals' = deferrals + 1
      /\ promised' = TRUE /\ died' = FALSE
      /\ overtaken' = (refusing # {} /\ \A j \in refusing : j = own \/ Done(j))
      /\ \/ refusing # {} /\ UNCHANGED jobs
         \/ /\ refusing = {}
            /\ Outstanding # Jobs
            /\ jobs' = [jobs EXCEPT ![NextId] = [status |-> "pending", wait |-> wait,
                                                 day |-> KeyDay(wait)]]

\* When it is to be tried again: the caps reset with the UTC day, sealed keys
\* are asked for every quarter of an hour, a spent budget or a pending row in
\* an hour, and an address when its cooldown clears, or in a day.
RetryAfter(reason) ==
    CASE reason = "capped"  -> {DayLength - phase}
      [] reason = "address" -> Soon..DayLength
      [] OTHER              -> {Soon}

Defer(reasons, own) ==
    \E reason \in reasons \cap Reasons : \E retry \in RetryAfter(reason) : Schedule(retry, own)

-----------------------------------------------------------------------------
(* The API. *)

\* sendEmailAction when the mailbox cannot send now: the approval, or an
\* execution of the same action later; or holdEmailAction, for the pacing hold
\* of the approval that made the action.
Request ==
    /\ action # "completed" /\ ~stopped
    /\ \/ Defer({"capped", "locked"}, -1)
       \/ deferrals = 0 /\ \E retry \in Soon..DayLength : Schedule(retry, -1)
    /\ UNCHANGED <<phase, worker, send, crashes>>

\* Sent by another path: executed by hand or inline.
SentElsewhere ==
    /\ "sent" \in Events
    /\ action # "completed"
    /\ action' = "completed" /\ approved' = FALSE
    /\ UNCHANGED <<phase, jobs, worker, stopped, word, deferrals, crashes>>

\* The card is skipped or snoozed; the person opts out or writes back.
Dismiss ==
    /\ "stop" \in Events
    /\ approved' = FALSE
    /\ UNCHANGED <<phase, jobs, worker, action, stopped, word, deferrals, crashes>>

PersonStops ==
    /\ "stop" \in Events
    /\ stopped' = TRUE
    /\ UNCHANGED <<phase, jobs, worker, action, approved, word, deferrals, crashes>>

-----------------------------------------------------------------------------
(* The job: runEmailDelivery. *)

Claim(w) ==
    /\ worker[w].pc = "idle"
    /\ \E j \in Jobs :
         /\ jobs[j].status = "pending" /\ jobs[j].wait = 0
         /\ jobs' = [jobs EXCEPT ![j].status = "running"]
         /\ worker' = [worker EXCEPT ![w] =
                         [pc |-> "reading", job |-> j, atClaim |-> stopped \/ ~approved]]
    /\ UNCHANGED <<phase, send, word, deferrals, crashes>>

\* The job's report is final: sent, stopped, or not to be sent.
Settle(w) == promised' = FALSE /\ overtaken' = FALSE /\ died' = FALSE /\ Goto(w, "closing")

\* The live facts, read again: the row and its card first.
MaySend == action \notin {"completed", "cancelled"} /\ approved

Read(w) ==
    /\ worker[w].pc = "reading"
    /\ \/ MaySend /\ Goto(w, "asking") /\ UNCHANGED word
       \/ ~MaySend /\ Settle(w)
    /\ UNCHANGED <<phase, jobs, send, deferrals, crashes>>

\* Then whether the person opted out, or wrote back, while it waited.
Ask_NoReplies(w) ==
    /\ worker[w].pc = "asking"
    /\ Goto(w, "choosing")
    /\ UNCHANGED <<phase, jobs, send, word, deferrals, crashes>>
Ask(w) ==
    /\ worker[w].pc = "asking"
    /\ Goto(w, IF stopped THEN "cancelling" ELSE "choosing")
    /\ UNCHANGED <<phase, jobs, send, word, deferrals, crashes>>

\* The action is cancelled whatever it says by then.
Cancel(w) ==
    /\ worker[w].pc = "cancelling"
    /\ action' = "cancelled"
    /\ Settle(w)
    /\ UNCHANGED <<phase, jobs, approved, stopped, deferrals, crashes>>

\* mailerForSend: a mailbox, a deferral, or none connected.
ChooseMailbox(w) ==
    /\ worker[w].pc = "choosing"
    /\ \/ Goto(w, "sending") /\ UNCHANGED <<jobs, word, deferrals>>
       \/ Defer({"capped", "locked"}, worker[w].job) /\ Goto(w, "closing")
       \/ Settle(w) /\ UNCHANGED <<jobs, deferrals>>
    /\ UNCHANGED <<phase, send, crashes>>

\* deliverEmailAction: already sent, held by the address's limits, sent,
\* refused for now, refused, unsendable, or put back with the pending cards.
Deliver(w) ==
    /\ worker[w].pc = "sending"
    /\ \/ action = "completed" /\ Settle(w) /\ UNCHANGED <<jobs, action, approved, deferrals>>
       \/ /\ action # "completed"
          /\ \/ Defer({"address"}, worker[w].job) /\ Goto(w, "closing") /\ UNCHANGED <<action, approved>>
             \/ /\ Settle(w)
                /\ \/ action' = "completed" /\ approved' = FALSE
                   \/ action' = "failed" /\ UNCHANGED approved
                   \/ UNCHANGED <<action, approved>>    \* unsendable, no longer queued
                   \/ /\ action' = IF action = "queued" THEN "cancelled" ELSE action
                      /\ approved' = FALSE
                /\ UNCHANGED <<jobs, deferrals>>
             \/ /\ Defer({"queue"}, worker[w].job) /\ Goto(w, "closing")
                /\ action' = "failed" /\ UNCHANGED approved
    /\ UNCHANGED <<phase, stopped, crashes>>

\* completeJob.
Complete(w) ==
    /\ worker[w].pc = "closing"
    /\ jobs' = [jobs EXCEPT ![worker[w].job] = Absent]
    /\ worker' = [worker EXCEPT ![w] = Idle]
    /\ UNCHANGED <<phase, send, word, deferrals, crashes>>

\* A database error out of the handler: failJob after the one attempt.  The row is
\* dead; neither the action nor whoever was told when it would go out hears of it.
Throw(w) ==
    /\ "throw" \in Events
    /\ worker[w].pc \in {"reading", "asking", "cancelling", "choosing", "sending"}
    /\ jobs' = [jobs EXCEPT ![worker[w].job] = Absent]
    /\ worker' = [worker EXCEPT ![w] = Idle]
    /\ died' = (promised /\ ~overtaken)
    /\ UNCHANGED <<phase, send, promised, overtaken, deferrals, crashes>>

\* The container dies; reclaimStalled puts the row back when its lease is over.
Crash(w) ==
    /\ crashes < MaxCrashes
    /\ worker[w].pc # "idle"
    /\ crashes' = crashes + 1
    /\ worker' = [worker EXCEPT ![w] = Idle]
    /\ UNCHANGED <<phase, jobs, send, word, deferrals>>

Reclaim_Early(j) ==
    /\ jobs[j].status = "running"
    /\ \E w \in Workers : worker[w].job = j
    /\ jobs' = [jobs EXCEPT ![j].status = "pending"]
    /\ UNCHANGED <<phase, worker, send, word, deferrals, crashes>>
Reclaim(j) ==
    /\ jobs[j].status = "running"
    /\ \A w \in Workers : worker[w].job # j
    /\ jobs' = [jobs EXCEPT ![j].status = "pending"]
    /\ UNCHANGED <<phase, worker, send, word, deferrals, crashes>>

\* An hour passes.
Later(job, midnight) ==
    [job EXCEPT !.wait = IF @ > 0 THEN @ - 1 ELSE 0,
                !.day = IF midnight /\ @ >= 0 THEN @ - 1 ELSE @]
Tick ==
    LET midnight == phase + 1 = DayLength IN
    /\ phase' = IF midnight THEN 0 ELSE phase + 1
    /\ jobs' = [j \in Jobs |-> IF j \in Outstanding THEN Later(jobs[j], midnight) ELSE Absent]
    /\ UNCHANGED <<worker, send, word, deferrals, crashes>>

Run(w) ==
    \/ Claim(w) \/ Read(w) \/ Ask(w) \/ Cancel(w)
    \/ ChooseMailbox(w) \/ Deliver(w) \/ Complete(w)

Next ==
    \/ Request \/ SentElsewhere \/ Dismiss \/ PersonStops \/ Tick
    \/ \E w \in Workers : Run(w) \/ Throw(w) \/ Crash(w)
    \/ \E j \in Jobs : Reclaim(j)

Spec == Init /\ [][Next]_vars

\* The drain loop runs, a lapsed lease is reclaimed, time passes.
Fairness ==
    /\ WF_vars(Tick)
    /\ \A w \in Workers : WF_vars(Run(w))
    /\ \A j \in Jobs : WF_vars(Reclaim(j))

FairSpec == Spec /\ Fairness

-----------------------------------------------------------------------------
(***************************************************************************)
(* Properties                                                              *)
(***************************************************************************)

TypeOK ==
    /\ phase \in 0..(DayLength - 1)
    /\ jobs \in [Jobs -> Job]
    /\ worker \in [Workers -> WorkerRec]
    /\ action \in {"queued", "completed", "failed", "cancelled"}
    /\ {approved, stopped, promised, overtaken, died} \subseteq BOOLEAN
    /\ deferrals \in 0..MaxDeferrals /\ crashes \in 0..MaxCrashes

\* A send that was promised and that nothing has stopped has a job that will
\* make it (scheduleEmailDelivery: "a job that defers again enqueues its
\* successor while it is itself still running").
Unsent == action \in {"queued", "failed"} /\ approved /\ ~stopped
PromiseHasJob == promised /\ Unsent => Outstanding # {}

\* The jobs that will still be run: waiting, or claimed and not done with.
Live == {j \in Jobs : \/ jobs[j].status = "pending"
                      \/ jobs[j].status = "running" /\ ~Done(j)}

\* There are two ways to lose one.  Whatever the reasons for deferring, a promise
\* that was not refused by a row already done with, and of which no job died of an
\* error since, has a job that will still read the facts and make it or take it
\* back, through every crash and reclaim.
PromiseHasLiveJob == promised /\ ~overtaken /\ ~died => Live # {}

\* What stopped a held send before its job was claimed stops the job, whoever
\* sent, deferred or crashed in between (email-delivery.ts: "Any of those stops
\* the send, as it would have stopped it at approval").
StopsAreHonoured == \A w \in Workers : worker[w].pc = "sending" => ~worker[w].atClaim

\* A promised send is made, or its job says that it will not be, however often it
\* is put off and whichever containers die, unless it is lost in one of those ways.
PromiseIsSettled == promised ~> (~promised \/ overtaken \/ died)

\* The rows are used as the job queue promises its handlers (OneJob): the handler
\* of a row keeps its lease, and a row that was completed may be queued again.
StatusOf(j) == IF jobs[j].status = "absent" THEN "none" ELSE jobs[j].status
HolderOf(j) == {w \in Workers : worker[w].pc # "idle" /\ worker[w].job = j}
Promise(j) ==
    INSTANCE OneJob WITH Outcomes <- {"none"}, status <- StatusOf(j),
                         holder <- HolderOf(j), overrun <- FALSE
JobsKeepPromise ==
    /\ \A j \in Jobs : Promise(j)!Init
    /\ [][\A j \in Jobs : [Promise(j)!Next]_(Promise(j)!vars)]_vars
=============================================================================
