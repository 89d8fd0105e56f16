------------------------------- MODULE Workflow -------------------------------
(***************************************************************************)
(* The runs of one published workflow: the engine that walks its steps     *)
(* (packages/pipeline/src/workflow-runner.ts), the sweep that starts its   *)
(* slots and retries once a tick, and the requests that start, cancel,     *)
(* resume and pause (apps/api/src/workflows.ts).                           *)
(*                                                                         *)
(* A worker is the sweep of a container or a request.  Nothing is held     *)
(* from one statement to the next: a claim, the look for a live run, the   *)
(* new row, what a step did and the record that it did it are steps of     *)
(* their own.                                                              *)
(***************************************************************************)
EXTENDS Integers, Sequences

CONSTANTS
    Workers,
    Last,           \* the number of steps, in topological order
    After,          \* the steps a step comes after
    SideEffects,    \* SIDE_EFFECT_NODE_TYPES
    MaxAttempts,    \* MAX_WORKFLOW_ATTEMPTS
    MaxSlots,       \* bound: replies, or times of the schedule
    MaxTurns        \* bound: requests, cancellations, pauses, crashes, runs taken for orphans

Nodes == 1..Last
Slots == {"schedule", "event", "manual"} \X Nat

ASSUME WorkflowAssumption ==
    /\ Last \in Nat \ {0} /\ SideEffects \subseteq Nodes
    /\ After \in [Nodes -> SUBSET Nodes]
    /\ \A n \in Nodes : \A m \in After[n] : m < n
    /\ MaxAttempts \in Nat \ {0} /\ MaxSlots \in Nat /\ MaxTurns \in Nat

VARIABLES
    kind,       \* trigger_kind
    active,     \* workflows.status = 'active'
    next,       \* next_run_at: a time of the schedule, 0 for NULL
    gone,       \* the last time of the schedule that was claimed
    arrived,    \* replies to the campaign, in order
    last,       \* last_run_at, once set: the replies it is not older than
    runs,       \* workflow_runs
    effects,    \* workflow_step_effects
    worker,
    again,              \* history: what a step did for a slot a second time
    beside, unsure,     \* history: slots two workers were on, changes that have no record
    started, restarted, \* history: claims that became a run, and those that did twice
    rewound, revived,   \* history: replies last_run_at went back over, rows a run ended late
    stopped,            \* history: cancelled with a step, or nothing, still to come
    turns

trigger == <<kind, active, next, gone, arrived, last>>
history == <<again, beside, unsure, started, restarted, rewound, revived, stopped>>
vars == <<trigger, runs, effects, worker, history, turns>>

-----------------------------------------------------------------------------

Statuses == {"running", "succeeded", "retry_scheduled", "dead_letter", "failed", "cancelled"}
Run == [slot : Slots, attempt : 1..MaxAttempts, status : Statuses]

Results == {"none", "done", "failed", "blocked", "cancelled"}
WorkerRec == [pc : {"idle", "claim", "start", "insert", "check", "record", "finish", "after"},
              why : {"slot", "retry", "manual", "resume"},
              slot : Slots, attempt : 1..MaxAttempts,
              of : Nat,           \* the run it repeats
              at : Nat,           \* the replies there were when it began
              run : Nat,          \* its row, 0 before there is one
              node : Nat,
              out : [Nodes -> Results]]
Idle == [pc |-> "idle", why |-> "manual", slot |-> <<"manual", 0>>, attempt |-> 1, of |-> 0,
         at |-> 0, run |-> 0, node |-> 1, out |-> [n \in Nodes |-> "none"]]

Init ==
    /\ kind \in {"schedule", "event"}
    /\ active = TRUE
    /\ next = (IF kind = "schedule" /\ MaxSlots > 0 THEN 1 ELSE 0) /\ gone = 0
    /\ arrived = 0 /\ last = 0
    /\ runs = <<>> /\ effects = {}
    /\ worker = [w \in Workers |-> Idle]
    /\ again = {} /\ beside = {} /\ unsure = {}
    /\ started = {} /\ restarted = {} /\ rewound = {} /\ revived = {} /\ stopped = {}
    /\ turns = 0

Set(w, pc) == worker' = [worker EXCEPT ![w].pc = pc]
Leave(w) == worker' = [worker EXCEPT ![w] = Idle]
Ask(w, pc, why, slot, attempt, of) ==
    /\ worker[w].pc = "idle"
    /\ worker' = [worker EXCEPT ![w] = [Idle EXCEPT !.pc = pc, !.why = why, !.slot = slot,
                                                    !.attempt = attempt, !.of = of]]
Turn == turns < MaxTurns /\ turns' = turns + 1
SetStatus(r, status) == runs' = [runs EXCEPT ![r].status = status]

HasLiveRun == \E r \in 1..Len(runs) : runs[r].status = "running"

-----------------------------------------------------------------------------
(* What starts a run: runDueWorkflows and the routes. *)

\* The due list: a time of the schedule, or the latest reply.
SeeSlot(w) ==
    /\ active
    /\ \/ kind = "schedule" /\ next # 0 /\ Ask(w, "claim", "slot", <<"schedule", next>>, 1, 0)
       \/ kind = "event" /\ arrived > last /\ Ask(w, "claim", "slot", <<"event", arrived>>, 1, 0)
    /\ UNCHANGED <<trigger, runs, effects, history, turns>>

\* dueWorkflowRetries: the delay is over.
SeeRetry(w) ==
    /\ active
    /\ \E r \in 1..Len(runs) :
         /\ runs[r].status = "retry_scheduled"
         /\ Ask(w, "claim", "retry", runs[r].slot, runs[r].attempt + 1, r)
    /\ UNCHANGED <<trigger, runs, effects, history, turns>>

\* POST run and resume.  A resume starts over at attempt 1.
Request(w) ==
    /\ Turn
    /\ \/ Ask(w, "start", "manual", <<"manual", turns'>>, 1, 0)
       \/ \E r \in 1..Len(runs) :
            \/ /\ runs[r].status \in {"failed", "cancelled", "dead_letter"}
               /\ Ask(w, "start", "resume", runs[r].slot, 1, r)
            \/ /\ runs[r].status = "retry_scheduled"
               /\ Ask(w, "claim", "resume", runs[r].slot, 1, r)
    /\ UNCHANGED <<trigger, runs, effects, history>>

\* A conditional update: one worker wins a slot.
SlotFree_Unchecked(w) == TRUE
SlotFree(w) == IF kind = "schedule" THEN next = worker[w].slot[2] ELSE last < worker[w].slot[2]

ClaimSlot(w) ==
    /\ worker[w].pc = "claim" /\ worker[w].why = "slot"
    /\ IF SlotFree(w)
       THEN /\ Set(w, "start")
            /\ \/ /\ kind = "schedule"
                  /\ gone' = worker[w].slot[2]
                  /\ next' \in {0} \cup {n \in 1..MaxSlots : n > worker[w].slot[2]}
                  /\ UNCHANGED last
               \/ /\ kind = "event"
                  /\ last' = worker[w].slot[2]
                  /\ UNCHANGED <<next, gone>>
       ELSE Leave(w) /\ UNCHANGED <<next, gone, last>>
    /\ UNCHANGED <<kind, active, arrived, runs, effects, history, turns>>

\* claimWorkflowRetry.  The sweep first looks for a live run, and goes on only
\* if it has the claim; a resume goes on whatever the claim says.
ClaimRetry(w) ==
    LET r == worker[w].of
        free == runs[r].status = "retry_scheduled" IN
    /\ worker[w].pc = "claim" /\ worker[w].why # "slot"
    /\ IF worker[w].why = "retry" /\ (HasLiveRun \/ ~free)
       THEN Leave(w) /\ UNCHANGED runs
       ELSE /\ Set(w, "start")
            /\ IF free THEN SetStatus(r, "failed") ELSE UNCHANGED runs
    /\ UNCHANGED <<trigger, effects, history, turns>>

\* runWorkflow: a conflict if a run is live, and the claim is spent.
Start(w) ==
    /\ worker[w].pc = "start"
    /\ IF HasLiveRun THEN Leave(w)
       ELSE worker' = [worker EXCEPT ![w].pc = "insert", ![w].at = arrived]
    /\ UNCHANGED <<trigger, runs, effects, history, turns>>

Claimed(w) == IF worker[w].why = "slot" THEN worker[w].slot ELSE <<"retry", worker[w].of>>

\* startWorkflowRun.
InsertRun(w) ==
    LET me == worker[w]
        crowd == \E v \in Workers \ {w} : worker[v].run # 0 /\ worker[v].slot = me.slot
        claim == IF me.why \in {"slot", "retry"} THEN {Claimed(w)} ELSE {} IN
    /\ me.pc = "insert"
    /\ runs' = Append(runs, [slot |-> me.slot, attempt |-> me.attempt, status |-> "running"])
    /\ worker' = [worker EXCEPT ![w].pc = "check", ![w].run = Len(runs) + 1, ![w].of = 0]
    /\ beside' = IF crowd THEN beside \cup {me.slot} ELSE beside
    /\ started' = started \cup claim
    /\ restarted' = restarted \cup (claim \cap started)
    /\ UNCHANGED <<trigger, effects, again, unsure, rewound, revived, stopped, turns>>

-----------------------------------------------------------------------------
(* executeWorkflowRun. *)

\* The result of a step, and the next one.
Step(w, result) ==
    LET n == worker[w].node IN
    worker' = [worker EXCEPT ![w].pc = IF n = Last THEN "finish" ELSE "check",
                             ![w].node = n + 1, ![w].out[n] = result]

\* A join is blocked only if every parent is unfinished.
Blocked(w) ==
    LET parents == After[worker[w].node] IN
    /\ parents # {}
    /\ \A m \in parents : worker[w].out[m] \in {"failed", "blocked", "cancelled"}

Key(w) == <<worker[w].slot, worker[w].node>>
HasEffect(w) == worker[w].node \in SideEffects

\* The effect that is looked up under its key; a slot is what the key is about.
Replayed_NotOnResume(w) == Key(w) \in effects /\ worker[w].why # "resume"
Replayed(w) == Key(w) \in effects

\* The step changed something for its slot: recorded, about to be, or never.
Acted(key) == \/ key \in effects \cup unsure
              \/ \E w \in Workers : worker[w].pc = "record" /\ Key(w) = key

Change(w) == again' = IF Acted(Key(w)) THEN again \cup {Key(w)} ELSE again

\* The handler: done, failed with nothing done, or failed between two of its
\* statements, which leaves the first of them without a record.
Act(w) ==
    \/ Step(w, "failed") /\ Turn /\ UNCHANGED <<again, unsure>>
    \/ /\ HasEffect(w) /\ Step(w, "failed") /\ Turn /\ Change(w)
       /\ unsure' = unsure \cup {Key(w)}
    \/ ~HasEffect(w) /\ Step(w, "done") /\ UNCHANGED <<again, unsure, turns>>
    \/ HasEffect(w) /\ Set(w, "record") /\ Change(w) /\ UNCHANGED <<unsure, turns>>

\* What others do while the handler works they may as well do before this step
\* or after it: what the handler did shows when it is recorded.
RunStep(w) ==
    /\ worker[w].pc = "check"
    /\ \/ /\ \/ runs[worker[w].run].status = "cancelled" /\ Step(w, "cancelled")
             \/ /\ runs[worker[w].run].status # "cancelled"
                /\ \/ Blocked(w) /\ Step(w, "blocked")
                   \/ ~Blocked(w) /\ HasEffect(w) /\ Replayed(w) /\ Step(w, "done")
          /\ UNCHANGED <<again, unsure, turns>>
       \/ /\ runs[worker[w].run].status # "cancelled" /\ ~Blocked(w)
          /\ ~(HasEffect(w) /\ Replayed(w))
          /\ Act(w)
    /\ UNCHANGED <<trigger, runs, effects, beside, started, restarted, rewound, revived, stopped>>

Record(w) ==
    /\ worker[w].pc = "record"
    /\ effects' = effects \cup {Key(w)}
    /\ Step(w, "done")
    /\ UNCHANGED <<trigger, runs, history, turns>>

Had(w, result) == \E n \in Nodes : worker[w].out[n] = result

\* cancelled before failed before succeeded.
Outcome_FailedFirst(w) ==
    IF Had(w, "failed")
    THEN IF worker[w].attempt < MaxAttempts THEN "retry_scheduled" ELSE "dead_letter"
    ELSE IF Had(w, "cancelled") THEN "cancelled" ELSE "succeeded"
Outcome_OfLast(w) ==
    IF Had(w, "cancelled") THEN "cancelled"
    ELSE IF worker[w].out[Last] # "failed" THEN "succeeded"
    ELSE IF worker[w].attempt < MaxAttempts THEN "retry_scheduled" ELSE "dead_letter"
Outcome(w) ==
    IF Had(w, "cancelled") THEN "cancelled"
    ELSE IF ~Had(w, "failed") THEN "succeeded"
    ELSE IF worker[w].attempt < MaxAttempts THEN "retry_scheduled" ELSE "dead_letter"

\* The last write has no condition: the row may say something else by now.
Finish(w) ==
    LET r == worker[w].run IN
    /\ worker[w].pc = "finish"
    /\ SetStatus(r, Outcome(w))
    /\ revived' = IF runs[r].status \notin {"running", Outcome(w)} THEN revived \cup {r} ELSE revived
    /\ worker' = [worker EXCEPT ![w] = [Idle EXCEPT !.pc = "after", !.at = worker[w].at]]
    /\ UNCHANGED <<trigger, effects, again, beside, unsure, started, restarted, rewound, stopped, turns>>

\* last_run_at is set to the time the run began.
Rewinds(w) == {n \in 1..MaxSlots : worker[w].at < n /\ n <= last}

Settle(w) ==
    /\ worker[w].pc = "after"
    /\ last' = worker[w].at
    /\ rewound' = rewound \cup {<<"event", n>> : n \in Rewinds(w)}
    /\ Leave(w)
    /\ UNCHANGED <<kind, active, next, gone, arrived, runs, effects, turns>>
    /\ UNCHANGED <<again, beside, unsure, started, restarted, revived, stopped>>

\* A worker dies or throws, and its row is left as it is; but the run of a
\* request that throws in the background is marked: failWorkflowRun.
Crash(w) ==
    LET r == worker[w].run IN
    /\ Turn /\ worker[w].pc # "idle"
    /\ Leave(w)
    /\ unsure' = IF worker[w].pc = "record" THEN unsure \cup {Key(w)} ELSE unsure
    /\ \/ UNCHANGED runs
       \/ /\ r # 0 /\ worker[w].why \in {"manual", "resume"} /\ runs[r].status = "running"
          /\ SetStatus(r, "failed")
    /\ UNCHANGED <<trigger, effects, again, beside, started, restarted, rewound, revived, stopped>>

-----------------------------------------------------------------------------
(* What happens beside the workers. *)

AtWork(r) == \E w \in Workers : worker[w].run = r

\* recoverInterruptedWorkflowRuns: thirty minutes without an end.
Presumed_NotLast(attempt) == IF attempt < MaxAttempts THEN "retry_scheduled" ELSE "running"
Presumed(attempt) == IF attempt < MaxAttempts THEN "retry_scheduled" ELSE "dead_letter"

Recover(r) ==
    /\ runs[r].status = "running"
    /\ SetStatus(r, Presumed(runs[r].attempt))
    /\ UNCHANGED <<trigger, effects, worker, history>>

RecoverOrphan == \E r \in 1..Len(runs) : ~AtWork(r) /\ Recover(r) /\ UNCHANGED turns
RecoverSlow == \E r \in 1..Len(runs) : AtWork(r) /\ Recover(r) /\ Turn

\* No worker of the run is past its last look at the status.
StepToCome(r) ==
    \A w \in Workers : worker[w].run = r =>
      \/ worker[w].pc = "check"
      \/ worker[w].pc = "record" /\ worker[w].node < Last

\* cancelWorkflowRun.
Cancel ==
    \E r \in 1..Len(runs) :
      /\ Turn
      /\ runs[r].status \in {"running", "retry_scheduled"}
      /\ SetStatus(r, "cancelled")
      /\ stopped' = IF StepToCome(r) THEN stopped \cup {r} ELSE stopped
      /\ UNCHANGED <<trigger, effects, worker>>
      /\ UNCHANGED <<again, beside, unsure, started, restarted, rewound, revived>>

\* stopWorkflow: the retries that wait are cancelled, a run goes on.  What comes
\* between its two writes may as well come before them.
Pause ==
    LET waiting == {r \in 1..Len(runs) : runs[r].status = "retry_scheduled"} IN
    /\ active /\ Turn
    /\ active' = FALSE /\ next' = 0
    /\ runs' = [r \in 1..Len(runs) |->
                 IF r \in waiting THEN [runs[r] EXCEPT !.status = "cancelled"] ELSE runs[r]]
    /\ stopped' = stopped \cup {r \in waiting : StepToCome(r)}
    /\ UNCHANGED <<kind, gone, arrived, last, effects, worker>>
    /\ UNCHANGED <<again, beside, unsure, started, restarted, rewound, revived>>

Resume ==
    /\ ~active
    /\ active' = TRUE
    /\ next' \in IF kind = "schedule" THEN {0} \cup {n \in 1..MaxSlots : n > gone} ELSE {0}
    /\ UNCHANGED <<kind, gone, arrived, last, runs, effects, worker, history, turns>>

Reply ==
    /\ kind = "event" /\ arrived < MaxSlots
    /\ arrived' = arrived + 1
    /\ UNCHANGED <<kind, active, next, gone, last, runs, effects, worker, history, turns>>

Work(w) ==
    \/ ClaimSlot(w) \/ ClaimRetry(w) \/ Start(w) \/ InsertRun(w)
    \/ RunStep(w) \/ Record(w) \/ Finish(w) \/ Settle(w)

Next ==
    \/ \E w \in Workers : Work(w) \/ SeeSlot(w) \/ SeeRetry(w) \/ Request(w) \/ Crash(w)
    \/ RecoverOrphan \/ RecoverSlow \/ Cancel \/ Pause \/ Resume \/ Reply

Spec == Init /\ [][Next]_vars

\* A worker goes on, the sweep of a tick finds retries and orphans.  What a
\* person does, the schedule and the replies are not owed.
Fairness ==
    /\ \A w \in Workers : WF_vars(Work(w)) /\ WF_vars(SeeRetry(w))
    /\ WF_vars(RecoverOrphan)
FairSpec == Spec /\ Fairness

-----------------------------------------------------------------------------
(***************************************************************************)
(* Properties                                                              *)
(***************************************************************************)

TypeOK ==
    /\ kind \in {"schedule", "event"} /\ active \in BOOLEAN
    /\ next \in 0..MaxSlots /\ gone \in 0..MaxSlots
    /\ arrived \in 0..MaxSlots /\ last \in 0..MaxSlots
    /\ runs \in Seq(Run)
    /\ effects \subseteq Slots \X SideEffects
    /\ worker \in [Workers -> WorkerRec]
    /\ again \subseteq Slots \X SideEffects /\ unsure \subseteq Slots \X SideEffects
    /\ beside \subseteq Slots
    /\ revived \subseteq 1..Len(runs) /\ stopped \subseteq 1..Len(runs)
    /\ turns \in 0..MaxTurns

\* A step changes something once for its slot, through retries, resumes and
\* recoveries, unless two runs of the slot were at work at once or a change was
\* left without a record: by a worker that died before it, or a handler that
\* threw half-way.  The header promises it without the excuses ("a retry or a
\* resume of the same slot finds the key and reports the earlier result instead
\* of acting again"); a step that failed has no key, and acts again.
ActedOnce == \A key \in again : key[1] \in beside \/ key \in unsure

\* One claim starts one run: a time of the schedule always, a reply unless
\* last_run_at went back over it, a retry unless the run it repeats wrote its
\* end after it was given up ("two workers, or a tick that overruns into the
\* next, start a slot once").
StartedOnce ==
    \A claim \in restarted : \/ claim[1] = "event" /\ claim \in rewound
                             \/ claim[1] = "retry" /\ claim[2] \in revived

\* A run that is cancelled while a step, or its retry, is still to come stays
\* cancelled, whatever its worker, the sweep and another run of the slot do.
StopIsKept == \A r \in stopped : runs[r].status = "cancelled"

\* A run that succeeded leaves the effect of every step of its slot recorded.
SucceededIsDone ==
    \A r \in 1..Len(runs) : runs[r].status = "succeeded" =>
      \A n \in SideEffects : <<runs[r].slot, n>> \in effects

\* While the workflow is active every run comes to an end and every retry is
\* taken up, dead workers and lost claims included.
RunsEnd ==
    []<>(~active \/ \A r \in 1..Len(runs) : runs[r].status \notin {"running", "retry_scheduled"})
=============================================================================
