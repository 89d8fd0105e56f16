# OutreachGraph in TLA+

OutreachGraph finds people worth writing to, scores them, drafts a message,
asks a policy engine and a human whether it may go out, sends it from one of a
pool of mailboxes and reads the replies. One Bun process holds the HTTP API and
the background loops; Postgres (SQLite in tests and on a laptop) holds the
state; a Redis queue that belongs to an external package puts mail on the wire.
Deploys overlap, so for a while two such processes share one database.

This directory holds TLA+ models of the parts of that system whose correctness
depends on interleavings, crashes, retries and time, the TLC configurations
that check them, and proofs, checked by TLAPS, of what holds for every value of
the constants. Paths below are relative to `src/`.

- [The system's parts](#the-systems-parts) and [how they interact](#how-they-interact)
- [The modules](#the-modules) and how they correspond to the code
- [The runs](#the-runs), their bounds and what they show
- [Fairness](#fairness)
- [The proofs](#the-proofs)
- [What the models say of the code](#what-the-models-say-of-the-code)
- [What is not modelled](#what-is-not-modelled)
- [The plan](#the-plan)

## The system's parts

| part | code | state it keeps | operations | modelled by |
|---|---|---|---|---|
| durable job queue | `packages/pipeline/src/queue.ts`, `migrations/0007_jobs.sql` | rows of `jobs` with lease, attempts, dedupe key | enqueue, claim, complete, fail (retry, defer, dead), reclaim, drain | `OneJob`, `JobQueue` |
| outreach mail queue | `packages/email/src/queue.ts` | audit rows of each attempt of a key, pause, suppression list | deliver, pause, resume, suppress | `OneSend`, `EmailQueue` |
| outreach send pipeline | `pipeline/src/autopilot.ts`, `outreach-email.ts`, `sender-pool.ts`, `email-account.ts`, `apps/api/src/app.ts` | card, action rows, interactions, mailbox statuses | autopilot run, approve, execute, deliver, record, by hand, skip | `OutreachSend` (partly) |
| held delivery | `pipeline/src/email-delivery.ts` | `deliver_email` jobs and the action they hold | schedule, run, defer | `HeldDelivery` |
| cadences | `pipeline/src/cadence.ts`, `cadence-runner.ts`, `cadence-conditions.ts` | enrollments: pointer, due date, status; step records | enrol, advance, stop on reply, wait, pause, finish | `Cadence` |
| credits and metering | `pipeline/src/credits.ts`, `metering.ts`, `apps/api/src/billing.ts` | ledger of grants and spends, orders | look at the budget, settle, spend, grant | `Credits` (partly) |
| workflows | `pipeline/src/workflow-runner.ts`, `apps/api/src/workflows.ts` | slots, runs, effect records | start, step, retry, cancel, resume, pause, recover | `Workflow` (partly) |
| reply intake and triage | `pipeline/src/receive-email.ts`, `triage-reply.ts`, `apps/api/src/inbox.ts` | interactions, triage jobs, reply cards | poll, record, triage, answer, bump, write | `ReplyIntake` (partly) |
| opt-out and suppression | `pipeline/src/unsubscribe.ts`, `suppression-keys.ts` | suppression keys, person status | unsubscribe, suppress, check | the stop in `OutreachSend`, `HeldDelivery`, `ReplyIntake` |
| pool administration | `pipeline/src/sender-pool.ts`, `domain/src/sender-pool.ts`, `mailbox-health.ts` | accounts, counters of a day, warm-up | connect, pause, resume, remove, bounce, health | statuses and choice in `OutreachSend` |
| policy engine | `packages/policy/src/engine.ts` | none: a pure function | evaluate, tighten, mode restriction, address limits | its answer, as a choice |
| server process | `apps/server/src/index.ts` | none but timers | tick, drain loops, shutdown | its loops in `JobQueue`, `Cadence`, `Workflow`, `ReplyIntake` |
| vault | `packages/secrets/src/vault.ts` | an unlock in memory | unlock, lock, expire | its effect in `HeldDelivery` |
| social delivery | `pipeline/src/social-delivery.ts` and its senders | `deliver_social` jobs | schedule by pace and cap, run | not modelled |
| webhooks and CRM | `pipeline/src/webhooks.ts`, `crm-sync.ts` | subscriptions, deliveries | emit, sync | not modelled |
| deletion | `pipeline/src/jobs.ts` | deletion jobs, the person's rows | process | not modelled |
| address finding | `pipeline/src/find-email.ts` | spend counters, pauses in memory | search under caps | not modelled; its loop is a worker of `JobQueue` |
| research, scoring, drafting, clients | the other packages, `apps/cli`, `mcp`, `web` | rows that are inserted | calls to services, arithmetic, text | not modelled |

## How they interact

- A **card** (`recommendations` row) is made by the research pipeline, a
  cadence or the triage of a reply. A human approves it over the API, an
  autopilot run sends it when its campaign is on `trusted_automation`, or triage
  sends an answer unattended.
- Each writes an **action** row, chooses a mailbox from the pool, and calls
  `deliver()` of that mailbox's queue with a key made from the workspace and the
  card. What comes back is written to the action, the person's interactions and
  the card, one statement after another, without a transaction around the send.
- A send that cannot happen now (caps, sealed keys, cooldown, a spent quota)
  becomes a **`deliver_email` job** of the durable queue, which runs the same
  delivery later and may defer itself again.
- The queue has **drain loops** in every live process. A job's claim is one
  conditional `UPDATE`; its lease is all that tells a crashed handler from a
  slow one.
- The mail queue's **worker** is an external package. It reports back through
  audit rows, which `deliver()` polls until a deadline.
- Before a first contact, autopilot, approvals and cadences take a **budget
  look**, which settles the credits of the contacts recorded so far.
- The **tick** of every process advances due cadences, starts due workflows and
  retries, polls mailboxes and bumps quiet threads. Workflows claim their slots;
  enrollments and threads are claimed by nobody.
- **Stops** come from everywhere: the unsubscribe link, a reply, a dismissed
  card, a paused or removed mailbox, a campaign switched off, a cancelled run.

The hard behaviours are therefore: two senders that choose a mailbox before
either has written its choice; two passes at one enrollment; decisions read at
the start of a batch and used at its end; a process that dies between the wire
and the rows, or between a step and the record of it; a lease that ends under a
live handler; a message whose fate is unknown; a job that deduplicates against
itself; a last write without a condition; and counters at their limit.
`PROJECT.json` lists each such place with its line, and the property that
watches it or why none does yet.

For each modelled part, correct means:

- **job queue** – no two workers inside their leases have one job; an outcome
  is final; the attempts column counts the job's own failures and abandoned
  claims and nothing else; an outage never kills a job; `failJob` never throws
  out of the drain; every queued job settles.
- **mail queue** – at most one copy of a key leaves a mailbox; callers are told
  the truth; a replay returns the earlier receipt.
- **send pipeline** – a person hears from one mailbox, never from a second one
  unless something excusable happened; a row that says completed stands for a
  message that went out; a provider's stop is never routed around; a decision
  is made on what is true when it is used; an approved card is left to nobody
  only when a process dies between two of its writes.
- **held delivery** – what is promised has a job that will still run, and is sent
  or reported; what was stopped is not sent.
- **cadences** – no step is passed over, asked twice, asked before its date or
  asked of somebody who has replied; a running plan ends.
- **credits** – nobody is charged whom the allowance covered; a month's contacts
  exceed allowance and credits by no more than the senders that raced and the
  looks a pass kept because something failed after a message.
- **workflows** – a step whose change was recorded is not done again for its
  slot; a claim starts one run; a cancelled run stays cancelled; success means
  every step's change is there; runs end.
- **reply intake** – a message is answered once (that a thread is bumped once is
  not so between containers, see below); every
  message that arrives is recorded, triaged and, if it asks for it, honoured; one
  that asks to be left alone is never answered by the machine.

## The modules

`PROJECT.json` maps each definition to the lines it stands for. This section
says how state and actions correspond, and what was abstracted.

One assumption runs through all of them: **one SQL statement is one atomic
step**, and so is one `db.batch`. Everything between two statements may
interleave with anything. For SQLite this is so. For Postgres it is an
assumption where a statement reads in a subquery what it then writes, which is
the shape of the claim, `UPDATE jobs ... WHERE id = (SELECT ... LIMIT 1)`:
`queue.ts:126-128` argues from the status test of the subquery, which a second
drain at READ COMMITTED may have evaluated before the first committed. What the
external client makes of the statement is not in the repository, so the models
take the atomicity the comment claims, and the hazard at `queue.ts:171` records
that they do.

### OneJob and JobQueue

A row is what the table keeps of a job, less payload and error text. Time is
relative: `runAfter` is the number of ticks until a row may be claimed, `age`
the number of ticks since its claim, both saturating, so that the clock needs
no bound. `Workers` are the drain loops of all live containers and `KindsOf`
says what each may claim (`kinds`, `excludeKinds`). A worker keeps the
`QueuedJob` snapshot its claim returned, because `failJob` decides from the
snapshot and not from the row.

| action | code |
|---|---|
| `Enqueue` | `enqueue`: the insert, refused by the partial unique index |
| `StartDrain` | `drainQueue` up to its loop, `reclaimStalled` included |
| `Claim`, `EndDrain` | `claimNext` by `run_after, created_at`; the loop's end |
| `Complete` | `completeJob`, unconditional on the row |
| `FailDead`, `FailRetry`, `FailDeferred`, `FailThrows` | the branches of `failJob`: the last attempt, backoff, an outage with the attempt refunded, the index refusing the write |
| `Crash` | the container is replaced; the row stays `running` |

History variables: `late` (a handler finished after its lease), `aborted`
(`failJob` threw), `faults`, `reclaims`. Most properties are conditional on
`~late`: the lease is a timeout, and nothing in the code stops a handler that
outlives it. `BudgetUpToReclaims` and `EventuallySettled` hold even then.

`OneJob` is what a handler may rely on for its row, in three variables: the
row's status, who holds it, whether a handler has overrun its lease. One worker
at a time holds it, that worker alone settles it, it is handed out again only
when it was given up, and an outcome is final; after an overrun nothing is
promised. `JobQueue` implements it (`JobsKeepPromise`), a holder being a worker
inside its lease. `HeldDelivery` and `ReplyIntake`, which model the handlers of
`deliver_email` and `triage_reply` and have a smaller picture of the row, each
have a property of the same name: their use of the row is one `OneJob` allows.
The same pattern holds for mail:

    JobQueue   => OneJob  <=  HeldDelivery, ReplyIntake
    EmailQueue => OneSend <=  OutreachSend

### OneSend and EmailQueue

`OneSend` is what the mail queue promises of one key in one mailbox, in three
variables: copies taken by the provider, whether attempts are spent, what each
caller was told. `EmailQueue` is `deliver()`: the probe of the audit rows of
each attempt in order, the gates, the insert that starts an attempt, the poll
and its deadline. Rows of different keys and mailboxes have nothing in common,
so one key in one mailbox is the whole system. The worker is external; its
steps (`WorkerTakes`, `ProviderTakes`, `RecordAccepted`, `LoseTrack`, `Bounce`,
`Refuse`) are what the statuses `deliver()` distinguishes say it may do, with
the provider's acceptance and its record as separate steps, so that an
acknowledgement can be lost between them. `KeepsPromise` is the refinement.

### OutreachSend

One card, its action rows, a pool of mailboxes, and every process that can put
the card on the wire: autopilot runs (`Runs`) and API requests and held jobs
(`Requests`). A process walks the code's statements in order:

| phase | autopilot | API or job |
|---|---|---|
| enter | `StartRun` (reads candidates), `Turn` (reads the week) | `Approve`, `MarkApproved`, `RecordAction`; `Execute`; `Job`, `Recheck`, `CancelHeld` |
| choose | `MailerForSend`, of `Choose`, `Defer`, `NoneActive` | the same |
| name | `InsertRow` | `Deliver` or `DeliverStops`, then `AssignSender` |
| send | `Submit`, `Gate`, `Return` | the same |
| record | `MarkCompleted`, `RecordInteraction`, `MarkExecuted`; `RecordFailure`, `HandleFailure` | the same |

A job reads its row and card, then the opt-out and the replies, and cancels the
row whatever it says by then. `Return` is what a caller may be told of its
attempt: a read that fails counts for one still under way, so "pending" and
"uncertain" may come of a message that is recorded as sent, and any failure is
told as a stop once the mailbox is found stopped.

Each mailbox's queue is a variable with the states `OneSend` needs (`mail`),
and `MailboxesKeepPromise` checks that the senders use it as that promise
allows: `EmailQueue` implements `OneSend`, and `OutreachSend` relies on no
more. Around it: `Dismiss`, `SwitchAutopilot`, `Unsubscribe` (whose second write, to
the queue, may fail), `SetMailbox`, `ByHand`, `WeekPasses`, `Crash`.

Abstracted: which mailbox has most room (any active one may), what drafting,
verification and pacing say (they may hold the card), the text. `recent` is the
order of the rows by what `lastSenderFor` sorts them by, an insert or a write of
`executed_at` making a row the latest.

The history variable `excused` collects the only four circumstances under
which a second mailbox may write to the same person: two senders that chose
before either recorded it (`overlap`), the first mailbox revoked or removed
(`moved`; a mailbox in error is still the person's, whatever the docstring of
`choosePoolSender` says, see below), a failure recorded for a message that may
yet go out (`doubt`), a failed row used again (`reused`). `SecondMailExcused` says they are all there
are; `NeverMailedTwice`, which a comment claims, is violated.

`Stranded` is an approved card of which no row can be executed any more and
that no process is about to give a row, close or offer again. Approval, row,
completion and the card's last status are separate statements, so a card can
get there; `OnlyDeathsStrand` says that the step that takes it there is always
the death of a process, never an order of approvals, executions and failures.

### HeldDelivery

The `deliver_email` jobs of one action, with the calendar: `phase` is the tick
of the UTC day, a job waits so many ticks and its key's day is counted from
today, so time is unbounded with finitely many states. A finished row's id is
used again, since nothing reads a finished row. `Schedule` is
`scheduleEmailDelivery` with its jitter and the dedupe key made of action and
day; `RetryAfter` is when each reason is tried again. The job is claimed
(`Claim`), re-reads the row and its card (`Read`) and then the opt-out and the
replies (`Ask`), cancels the action (`Cancel`) or chooses a mailbox
(`ChooseMailbox`), sends (`Deliver`) and completes (`Complete`); its container
may die and the row be reclaimed, or its handler may throw (`Throw`), which
leaves the row dead. `promised` is the last word on the action; `deferrals`
bounds how often it may be put off.

A promise can be refused a job: the key of the successor is still held by some
row. `overtaken` is a history variable that says whether the last promise was
refused by nothing but rows that are done with it – the row of the job that is
deferring, or one whose handler has only to complete (`Done`). That is the loss
`held_lost` shows. `died` notes the other: a statement of the handler threw, the
job had one attempt, and the promise stands with nobody told.
`PromiseHasLiveJob` says that these are all: every other
promise has a job (`Live`) that will still read the facts, and
`PromiseIsSettled` that it is then kept or taken back. A finished row's id being
used again, the outcome of `OneJob` here is that the row is gone.

The send is one step here: what can go wrong inside it is `OutreachSend`'s. That
module in turn has `Hold`, which says only that a job is, or may not be, left
behind, and refers the question to this one.

### Cadence

One prospect on one plan: the `cadence_enrollments` row, the set of steps with a
row in `cadence_step_runs`, pending cards by kind, and the passes that each
container's tick makes over the due list. Time is relative to now, as in
`JobQueue`; a pass is shorter than a tick. The plan (`Kind`, `Delay`,
`Condition`, `Window`, `StopOnReply`) is a constant: the code writes it once.

| action | code |
|---|---|
| `Pickup` | `advanceCadences`' due list; nothing claims the row |
| `CheckReply`, `Note` | `hasReplied`, then `finish('stopped')` and the record |
| `CheckCondition` | `resolveStepCondition`, `acceptanceWindowEnd`; a step may wait |
| `Policy` | `policyFor` and the engine, `conversationOpen` in particular |
| `FindCard`, `InsertCard` | `writeCadenceRecommendation`: look, then insert |
| `Record`, `MoveOn` | the step record; `moveOn` from the snapshot, or `finish` |
| `Crash` | a pass dies, or a statement throws and the tick goes on |
| `Tick`, `SetStatus`, `TakeOff`, `Reply`, `Accept`, `Click`, `Decide` | the clock and everyone else |

A reply has two spellings (`responded` by the poll, `replied` by hand), since
the code reads them in different places. `overlaps` counts passes that began
beside another: `OneAsk` and `NeverEarly` need there to be none, `NoStepLost`
and `NoCardAfterReply` do not.

### Credits

One workspace of one organization, by months. `log` is the first contacts of a
person in a month in the order of `occurred_at`; `recorded` says which have
their row yet, which may be later and in another order. A sender (autopilot
pass, approval, cadence) takes a `Look` (usage and plan), `Select`s whom the
allowance leaves over, `Charge`s them one by one (`spendProspectCredit`, refused
by the index the second time), gets a `Verdict` from the balance, may `Send`
(or `FollowUp`, to somebody the month has a row of) and then `RecordSent`. An
autopilot pass (`Passes`) looks again after each message with the clock it began
with, over the end of its month too; the others are done. What
`recordEmailSent`, `forgetHolds` or the next look throws is caught, and the pass
goes on to the next card with the look it had (`GoOn`), the message's row written
or not. Beside it: `Leave` and `Lose` (a sender ends, with a message's row still
to come), `ChangePlan`, `Grant`, `NewMonth`. History: `least` and `most`
allowance of each month; `astray`, the charges of a look whose month was over;
`kept`, the looks of each month that were kept over a message.

### Workflow

The runs of one published workflow. A worker is a sweep or a request:
`SeeSlot`/`SeeRetry` are the sweep's lists, `Request` the routes, `ClaimSlot`
and `ClaimRetry` the conditional updates, `Start` the look for a live run,
`InsertRun` the row, `RunStep`/`Record` one node and its effect record,
`Finish` and `Settle` the end. `RecoverOrphan` and `RecoverSlow` are
`recoverInterruptedWorkflowRuns` for a dead and a merely slow worker. `Cancel`,
`Pause`, `Resume` are people; `Reply` is the event trigger. A handler succeeds,
fails, changes something, or fails between two of its statements after a change;
only nodes in `SideEffects` record a change, and only if they did not fail. Eight
history variables name what the properties are about: an effect done `again`,
slots two workers were on at once (`beside`), changes without a record, since
the worker died before it or the handler failed after them (`unsure`), claims that became a run once or twice (`started`,
`restarted`), replies `last_run_at` went back over (`rewound`), rows a given-up
run ended late (`revived`), runs cancelled in time (`stopped`).

### ReplyIntake

The messages one prospect writes back. A container polls (`Poll`, `Insert`,
`QueueTriage`), triages (`Claim`, `ReadLabel`, `Classify`, then
`Honour`/`Block` for a stop or `FindCard`/`NewCard`, `Evaluate`, `Approve`,
`Send`, `MarkExecuted` or `Refused`/`BackToPending`, `Finish`) and bumps quiet
threads (`Bump`, which then walks the same path). `Throw`, `Crash` and `Reclaim`
are the faults; `Skip`, `ApproveByHand`, `Compose`, `WriteReply` and `Deliver` are
a human in the inbox, whose approval and delivery are two steps, the second of
which may fail, lose its answer or be refused. The job row is used as `OneJob`
allows until a run outlives its lease (`JobsKeepPromise`). `Send` says of a card
only whether it is out: its key is per mailbox, so one that is may go out again,
fail or be refused (how often is `OutreachSend`'s question), and what
`AnsweredOnce` counts is cards. `orphans` are messages
whose poll died before queueing the job; `excused` is why two cards about one
message may exist: runs that overlapped (`overlap`) or a human who opened a
second one (`beside`). `Stops` are the messages a rule reads as a
request to be left alone: the rule's label goes before a model's (`Stands`), and
`StopIsHeard` follows such a message through retries, overlaps and crashes.

## The runs

| run | instance | what it shows |
|---|---|---|
| `queue_drain` | 2 jobs that may share a key, 2 workers, 2 attempts, a crash, an outage, a lease of no tick, handlers that outlive it | exclusive claims, an exact ledger, outages that never kill, a budget exceeded by reclaims only, no index violation, the refinement of `OneJob` (whose outcomes are final), and every queued job settles |
| `mail_once` | 2 callers, 3 attempts (the code's) | one copy, in order, truthful answers; refinement of `OneSend` |
| `send_pool` | 2 mailboxes, 2 rows, a run and a request, crashes, every status change of a mailbox | continuity, no fail-over, completed rows stand for mail |
| `send_card` | 1 mailbox, 1 row, by hand, dismissal, switch, opt-out, a week | the queue used as `OneSend` allows; only a death strands an approved card |
| `send_twice` | 2 mailboxes, 2 rows, crashes | **violation**: the person can be mailed twice |
| `send_stale` | 1 mailbox, switch and opt-out | **violation**: a decision read at the start of a run is used at its end |
| `held` | 2 loops, 3 jobs, days of 2 ticks, every reason, 3 deferrals, a crash, throws, stops, sends by other paths | what was stopped before its claim is not sent; a promise not refused by a job that is done, and whose job did not die of an error, has a job that will run, and is kept or taken back; rows used as `OneJob` allows |
| `held_lost` | 1 loop, 3 jobs, every reason | **violation**: a same-day deferral loses the send |
| `cadence` | an invitation with a window of 2 ticks, an email to who accepted it and one to who has not clicked, 2 containers, 2 overlaps or an overlap and a crash | nothing lost, asked twice, early or after a reply; plans end |
| `credits` | 3 people, 2 senders, allowances 1 and 2, a pack of 1, 2 months, a change of plan, a lost row or a look kept over a message | covered contacts are free; the overrun is bounded |
| `workflow` | 2 steps, the first with an effect, 2 workers, 2 attempts, 1 slot, 3 turns of misfortune | recorded steps act once, claims start one run, stops hold, success is earned, runs end |
| `intake` | 2 messages, one a stop, 2 containers, 2 cards, 2 faults or human acts | one answer, none to a stop; jobs used as `OneJob` allows; every message is settled |

Why the bounds are enough:

- *Two of each actor.* The races are between two holders of one row, two callers
  with one key, two choosers of a mailbox, two passes, two settlements. One
  autopilot run and one API request are the two code paths; a crash returns a
  process to idle, so a bound of two processes does not bound the number of
  sends.
- *Attempts.* Three in `EmailQueue` is the code's constant. Two in `JobQueue`
  and `Workflow` distinguish a last attempt from one that is not.
- *`Lease` 0, backoffs of one tick.* The code compares times; it adds none but
  those. A claim is inside its lease until the clock moves and beyond it
  afterwards; `AgeCap` is how far overdue two rows can still be told apart.
- *Rows.* Two action rows let a second choice of a mailbox see the first's row.
  Three held jobs: a job, its successor, and one reclaimed or of another request.
- *Days of two ticks (three in `held_lost`), a tick of jitter.* A retry can land
  before midnight, at it and past it; three deferrals span several days.
- *A plan of three steps.* It has a step with a window and one that waits for
  the acceptance, steps before and at the end, a condition on each kind of fact
  (acceptance, reply, click), and steps that stop on a reply beside steps that do
  not. Overlaps and crashes are bounded each and together (`MaxUpsets`), and the
  second overlap is what lets a pass write an old pointer back.
- *Three people, allowances of 1 and 2.* Somebody is covered, somebody is over,
  and a change of plan moves one across the line; two months let a pass outlive
  one.
- *Turns and faults.* Two upsets (faults, and what people do) among two
  containers and two messages, one plan change or failure among two senders, or three turns among the
  requests, cancellations, pauses, failures, crashes and slow runs of a
  workflow, are the sequences the code has branches for; larger combinations of
  the safety part are covered by the proofs, which have no bound.
- `send_pool` stops exploring a behaviour once it is excused (`Unexcused`):
  `excused` only grows and each of the run's properties holds by its own
  premise from then on, except the first conjunct of `CompletedWentOut`, which
  the run therefore shows only for unexcused states and the proof for all.

The types of `OutreachSend`, `HeldDelivery`, `Credits`, `Workflow` and
`ReplyIntake` are theorems (`TypeCorrect`, `HeldTypeCorrect`) and no property of
a run.

The two runs of `OutreachSend` split the events between them to stay within
minutes; the proofs of its properties have all events at once.

`CHECK_DEADLOCK FALSE` where the system may come to rest: a card that is closed
stays closed, a conversation ends, a queue whose jobs have settled has nothing
left to do once the bounded clock saturates, a month has no more contacts to
make. Each property of a passing run has a mutant, a plausible bug in a mapped
definition, that TLC finds to violate it.

## Fairness

Five runs check liveness. What they assume is this; nothing is assumed of
requests, replies, opt-outs, crashes or the outcome of a call.

- `JobQueue`: weak fairness of each drain loop (of having a next step: start or
  end a drain, claim, finish a handler) and of the clock. The `setInterval` and
  `setTimeout` loops of `apps/server/src/index.ts` run as long as the process,
  and a crashed container is replaced by one that starts the same loops. That
  handlers return is an assumption: no timeout enforces it. Crashes and outages
  are bounded: a job whose container always dies never settles, since
  `reclaimStalled` does not look at `max_attempts`.
- `HeldDelivery`: weak fairness of the loop, of reclaiming and of the clock.
  `MaxDeferrals` says that a mailbox has room in the end: a send deferred
  forever is not settled.
- `Cadence`: weak fairness of each container's pass and of the clock. The
  property lets a plan be paused or stopped instead of ending.
- `Workflow`: weak fairness of each worker's next step, of the sweep's look for
  retries and of the recovery of runs nobody is at work on, all of which the
  tick does. Nothing is assumed of the schedule; the property lets a workflow be
  inactive.
- `ReplyIntake`: weak fairness of some container doing something of its loop and
  of reclaiming, so that one container may be down for good.

`EmailQueue`, `OutreachSend` and `Credits` are checked for safety only: no code
promises that a human approves, that a provider answers or that anybody is
contacted.

## The proofs

`*Proofs.tla` hold the theorems; each property was first checked by TLC. They
hold for any number of jobs, workers, callers, passes, senders, people, runs and
messages, and for any value of the bounds, under the `ASSUME`s of the modules,
which type the constants and, where a proof counts, say that a set is finite.
A few leaves about whole records name their prover and a longer limit
(`ZenonT`, `SMTT`); all others pass well within the default ones.
**Every safety property of a passing run is proved for its `Spec`**; the action
properties and the five refinements, two of `OneSend` and three of `OneJob`, are
among them.

**JobQueue.** `TypeCorrect`; then `ClaimsAreExclusive`, `DrainsDoNotAbort`,
`AttemptsAreExact`, `OutagesNeverKill`, `OutcomesAreFinal`. The invariant is
`TypeOK /\ LeaseInv /\ LedgerInv`. Exclusivity is not inductive alone: that a
fresh worker is the only one follows from its row being `running` with the
worker's own `age` and `attempts` (`SnapshotCurrent`), because a row that was
reclaimed and claimed again has a younger age or another count. Given that, a
fresh worker's row is outstanding, so writing it back to pending cannot collide
with the index, and its snapshot's attempts are the row's, so the ledger's
arithmetic closes. `Unused` adds that a row never inserted has no attempts.
`BudgetHolds` needs no lease at all. `Within` bounds the workers that hold a
row, late ones included, by the reclaims so far, and the attempts beyond the
maximum together with those that may still turn into one: the pending row and
the workers whose snapshot says they may retry. A claim turns one into the
other, a refund the other into one. `QueueKeepsPromise` is the refinement of
`OneJob`: by `ExclusiveClaim` and `SnapshotCurrent` the workers inside their
leases on a row are none or one, and if there is one its row is `running`, so
its `Complete` or failure is `Settle`, a lease that ends or a container that
dies is `GiveUp`, and `StartDrain` reclaims a row only once it is past every
lease. A step of a worker past its lease is `Overrun` and no more is asked.
`SettledIsFinal`, which no run checks since the refinement contains it, is still
proved from `TypeOK` and `LeaseInv` alone.

**EmailQueue.** `SentAtMostOnce`, `AttemptsOrdered`, `ReceiptsHonest`,
`ReplaysReturnReceipt` and the refinement `QueueKeepsPromise` (here
`Spec => Promise!Spec`, of `OneSend`). The invariant `Safe` joins `TypeOK`,
`AttemptsInOrder` with `RowsAgree` (what the audit says, what the worker does and what the
provider has fit together) and `CallsInOrder` (a caller that reached an attempt
saw every earlier one refused, and refusals are final). One copy follows: were
two attempts taken, the earlier would be refused. `KnewWell` carries what a call
that began after an accepted record may still answer.

**OutreachSend.** `Books` are the facts that never depend on luck: every process
past a phase has the row and the mailbox that phase needs, and a row the product
completed has mail delivered behind it. `Bonds` hold as long as nothing excuses
a second mailbox: the rows that count for `lastSenderFor` name one mailbox
(`Agree`), only one process has chosen without writing it down (`Lone`) and it
follows those rows (`Heeded`), whoever sends has such a row (`Signed`), whatever
is on its way stands in one (`Backed`), and completed rows name who carried them
(`Kept`). `OneMailboxAPerson` and `CompletedRowsAreTrue` follow; `NoFailover` is
proved of each step. `EachMailboxKeepsPromise` is the refinement of `OneSend` by
the pipeline's view of every mailbox. With `EmailQueueProofs!QueueKeepsPromise`
the two modules meet at one abstract specification: what the pipeline assumes of a
mailbox is what the queue is proved to implement. `ApprovedCardsAreWorked` goes
through the steps: only a step that makes the card approved, or that takes the
last row out of execution, can strand it, and the process that took it is left
at a phase where its next statement writes the row, closes the card or gives it
back.

**HeldDelivery.** `HeldTypeCorrect`, `HeldStopsHonoured` (by `StopsInv`: a claim
that was already stopped cannot get past the re-read, since stops are not
undone), `PromisesHaveLiveJobs`, `CappedPromisesKept` and `DeliveriesTrustQueue`.
`PromisesHaveLiveJobs` holds for every reason to defer. A promise is made by an
insert, after which its row is live, or by a refusal, and unless that is noted
in `overtaken` one of the refusing rows is itself live; a live row stops being
live only when its handler has settled the promise or deferred, each of which
writes `promised` and `overtaken` anew, or has thrown, which `died` notes. `OwnInv` gives each running row at
most one worker, so that a row whose container died is nobody's and live.
`DayInv` bounds each pending row's day by the time it is due, and a running
row's day by today; it is what `CappedPromisesKept` needs: when sends are
deferred only until the caps reset, the key is for tomorrow or later, only a row
still to run can refuse it, and no promise is ever overtaken: only a job that died of
an error leaves one without a job. The theorem's
hypothesis is exactly what `held_lost` violates. `DeliveriesTrustQueue` is the
refinement of `OneJob` for each row, by `OwnInv`.

**Cadence.** `NothingLost` from `RecordInv`: a pass that writes a pointer back
was given its step by a pointer that had already been there, so all before it is
on the record. `AskedOnce` and `NotEarly` from `SoloInv`: while no passes
overlap there is one pass, at the enrollment's own step, after that step's date
(`Dated`), and between look and insert no card of the kind appears (`Unasked`).
`QuietAfterReply` from `ReplyInv`: a pass that had heard of the reply is turned
away at the first or the second gate, and never gets to a card (`Gated`).

**Credits.** `CoveredNotCharged` from `PayInv`: whom a settlement is about to
charge was left over by the smallest allowance of the month, and stays so,
because rows are only added. `OverrunHolds` is about sizes of finite sets. Its
invariant counts from every number *x* at or past allowance plus credits: the
contacts standing and the senders that may still get past the balance though *x*
people are on record are together at most *x* – 1 plus the number of senders and
the looks kept over a message in that month: a pass that keeps its look becomes
one of those senders, and is counted. A
sender is one of those as long as the people it counted, its allowance and the
charges it has made or will make, are fewer than *x*. The invariant must speak
of every such *x* because a grant, and a plan that grows, move the limit up
while senders are on their way. `Past` keeps the bound once the month is over.

**Workflow.** `DoneOnce`: two workers are at one slot only if the slot is in
`beside` (`Apart`), so a worker that found no effect record is the only one that
may act, and what it changes is either recorded or noted in `unsure`. `StoppedStays` and `SuccessIsEarned` from `RunInv`: the results behind
a worker are those of its steps (`Behind`), and a worker of a run cancelled in
time will look at its status again or has seen it (`Heeds`), so that its last
write says cancelled. `ClaimedOnce` from `ClaimInv`: what was claimed, by a
worker that still holds the claim or has made a run of it, is spent in what the
sweep looks at, or one of the two excuses applies.

**ReplyIntake.** `AnsweredAtMostOnce`: until its job is queued only the poll
that recorded a message is about it (`QueuedOnce`); while nothing is excused one
run at a time is about a message, bumps apart (`OneRun`), and whoever is about to
insert a card that is no bump has found none like it (`OneCard`). `StopsAreHeard` by `StopInv`
and `Heard`: the recorded label of a stop is never another one, so a run that is
about one is reading its label, honouring it, blocking or finishing, and gets to
the block and the end only with the keys suppressed. It asks for no excuse:
overlapping runs of a stop take the same path. `IntakeKeepsPromise` is the
refinement of `OneJob` for each message from `QueuedOnce` (one row a message)
and `OneRun`; the run that outlives its lease puts `overlap` into `excused`,
which is the overrun of `OneJob`.

Only model-checked: liveness (`EventuallySettled`, `PromiseIsSettled`,
`PlanEnds`, `RunsEnd`, `RepliesSettle`), which the proof system does not
support under fairness. `PromiseHasJob` is false in general, as `held_lost`
shows; the theorem covers the case in which it holds.

## What the models say of the code

Three disagreements between the code and what its comments say, each a run that
expects a violation:

1. `send_twice`: the idempotency key is per mailbox. After an unknown outcome
   the row is failed, `lastSenderFor` ignores failed rows, and the next send may
   choose the other mailbox.
2. `send_stale`: `runAutopilot` reads campaigns and persons once per run; a card
   reached minutes later is decided on what was true then. The comment
   says that these are re-read.
3. `held_lost`: a job that defers itself within the same UTC day asks for the
   dedupe key it still holds, is refused, and completes. The approved message
   has no job left.

And details the models keep because the code has them. None has a run of its
own; each shows in an excuse, a guard or a bound of the property named.

- *Queue.* `reclaimStalled`'s comment (`queue.ts:293-295`) says a job that
  reliably kills its container would otherwise retry forever; nothing compares
  attempts with `max_attempts` on that path, so it does, and a job with
  `maxAttempts: 1` runs again when reclaimed. `BudgetUpToReclaims` says by how
  much.
- *Pool.* The docstring of `choosePoolSender` (`domain/src/sender-pool.ts:247-249`)
  says a person moves to another account when the sticky one is "gone for good —
  in error, revoked or removed". The function (271-277) defers for an account in
  error, and its own comment there says why; only a revoked or removed one lets
  the person go. `NeverFailsOver` states the code's rule, and the excuse `moved`
  of `SecondMailExcused` covers no more than that.
- *Held.* "A send that fails is reported on the action" (`email-delivery.ts:56`)
  holds of what `deliverEmailAction` catches. A statement that throws outside it
  ends the job, which has one attempt, and is reported nowhere (`died`).
- *Send.* A failed row that is executed again stays `failed` during the send and
  so does not count as the last sender; `recordEmailSent` that fails after the
  provider took the message makes the row `failed`; skip and snooze do not ask
  what the card's status is; a card approved by a process that dies before
  `recordAction` stays approved with no action; `recordEmailFailure` overwrites
  whatever the row says.
- *Cadence.* A backlog after a pause runs one step a tick; two email steps of
  one plan share a card that waits; `if_no_reply` reads only one spelling of a
  reply (harmless, since the gates read both: `NoCardAfterReply`); `finish`
  overwrites a human's stop with `completed`.
- *Credits.* Usage counts from the start of a month without an end, so a pass
  that outlives its month charges the new month's contacts to the old one
  (`astray`); contacts after the last look of a month are never charged; the
  allowance is counted per workspace and the ledger per organization; a debt
  eats later grants. Autopilot's look is "refreshed after each send"
  (`autopilot.ts:571-573`), but at the end of the `try` (1079): when
  `recordEmailSent` throws after its interaction row, or `forgetHolds` or the
  look itself does, the `catch` goes on to the next card with the old one, so one
  pass alone can pass allowance and credits (`kept` in `OverrunBounded`).
- *Workflow.* The header (`workflow-runner.ts:9-13`) has a retry or resume of a
  slot find the key and report the earlier result "instead of acting again"; a
  handler that threw half-way left no key (225-232), and its retry acts again
  (`unsure` in `ActedOnce`). "One run at a time" (`workflows.ts:1370`) is a look
  and an insert with nothing between them: a sweep and a request may start two
  slots side by side. A cancellation after the worker's last look is overwritten by its
  end; a claim whose run is refused or whose worker dies is lost (`RunsEnd`
  holds because nothing waits for it); the claim lets two workers share a slot
  once a slow run is taken for an orphan, and then they cannot both record a
  step but can both act (`beside`); `last_run_at` goes back to the start of a
  run over replies that came meanwhile (`rewound`); a cancelled run that is
  resumed while its worker is at a step acts twice; a resume goes on whether or
  not it got the retry's claim.
- *Replies.* A poll that dies between the insert and `queueTriage` leaves a
  message no later poll looks at (`orphans`), where `migrations/0013:7-8` has a
  poll that failed halfway safe to repeat. "One message gets at most one reply
  card" (`triage-reply.ts:25-27`) holds of the machine alone, not of overlapping
  runs or of a human who skips a card and writes another. "One bump per inbound
  message, ever" (`triage-reply.ts:728-729`) holds within a process; two
  containers that look at the same time both bump, since only the read of the
  earlier card keeps them from it (`Bump`, `NewCard`). `evaluateNow` reads
  the suppression keys and nothing else, so a stop that is recorded and not
  triaged does not hold an answer back. A retried job approves a skipped card,
  and a failed send puts one back to pending.

## What is not modelled

- *Data*: text, addresses, drafts, scores, headers. No property is about them.
- *Social delivery.* Its jobs are rows of `JobQueue`. What the code does with
  them, read and not modelled: `maxAttempts: 1` keeps a post from being retried
  in public, but `reclaimStalled` puts a crashed one back; the slot is read from
  the jobs before it and then enqueued, so two approvals may share one; spacing
  is a date and is not held after downtime; deferrals at run time all go to the
  same hour of the next day.
- *Webhooks, deletion, finders, warm-up, pool administration*: see the plan;
  their hazards are in `PROJECT.json`, with a note where no property covers one.
- *Of the partly modelled parts*: the payment webhook's order rows, credit codes
  and invite bonuses (their effect is `Grant`, once a payment by the index on
  `payment_id`; an unpaid event that read its order before it was confirmed may
  write an older status over `confirmed`, which changes no balance); drafting,
  versions and dry runs of workflows;
  bounces, auto-responders, matching a message to a person, messages without a
  Message-ID, and the route that records a reply by hand.
- *Scoring, signals, identity*: floating-point arithmetic, which TLC does not
  have.
- *Research, drafting, media, clients*: calls to services whose results are
  inserted; the jobs that run them are rows of `JobQueue`. These, with routing,
  validation, rendering and prompts, are most of the repository's lines, and hold
  no state that interleaves: that is why the models map a small share of them.
- *Cryptography* of sealed secrets; the vault enters as the reason `locked`.
- *The external packages*: the mail worker is modelled from how `deliver()`
  uses it, the webhook hub is not.
- *Isolation levels* below the atomicity of a statement (see the start of
  [The modules](#the-modules)).

## The plan

In order of what matters to the product; each module gets a type invariant,
properties aimed at its listed hazards, and proofs where the invariant is
inductive within reach.

1. **Social** – slots taken from a read, spacing and the day's cap under two
   approvals and a container that was down. Shares `HeldDelivery`'s calendar.
2. **SenderPool** – accounts, counters of a day, warm-up, bounces and health;
   composed with `OutreachSend`'s choice.
3. **Policy** – the engine's rules as operators (no recursion), checked over all
   inputs: tightening never loosens, a suppressed person is never allowed. Then
   `OutreachSend` and `Cadence` take its answer from it.
4. **Finder** caps – spend read and then counted, a pause known to one process.
5. **Deletion and suppression** – a person removed table by table while a card
   of theirs is made; **webhooks** with the modules that emit; the payment
   webhook's own bookkeeping beside `Credits`.

Worth proving next: that the record of a plan agrees with its pointer where
passes overlap (`Cadence`), that the ledger's charges are those of a month's
settlements (`Credits`), that a claimed slot which never became a run is one of
the named losses (`Workflow`).

That an approved card is sent, held or given back in the end (`OutreachSend`) is
stated as far as the code has it: `OnlyDeathsStrand` names the one way it is
not. As liveness it would need a process that looks for approved cards without
an action row, and there is none.
