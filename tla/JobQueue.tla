------------------------------ MODULE JobQueue ------------------------------
(***************************************************************************)
(* The durable job queue: packages/pipeline/src/queue.ts over the `jobs`   *)
(* table (migrations/0007_jobs.sql), drained by the loops of               *)
(* apps/server/src/index.ts.  A drain reclaims stalled rows and then, one  *)
(* job at a time, claims, runs the handler and writes the outcome.  Deploys*)
(* overlap, so several workers may drain the same kinds, and a container   *)
(* may be replaced in the middle of a job.                                 *)
(*                                                                         *)
(* Time is relative.  A row's runAfter is the number of ticks until it may *)
(* be claimed (negative once it is overdue, saturating at -AgeCap) and an  *)
(* age is the number of ticks since a claim (saturating just past Lease),  *)
(* so the clock itself needs no bound.                                     *)
(***************************************************************************)
EXTENDS Integers, FiniteSets

CONSTANTS
    Jobs,            \* ids; their order is the created_at order
    Workers,         \* drain loops, over all live containers
    Kinds,           \* job kinds
    KindsOf,         \* [Workers -> SUBSET Kinds]: `kinds` / `excludeKinds`
    Keys, NoKey,     \* what callers give as dedupe key; dedupe_key IS NULL
    MaxAttemptsSet,  \* the maxAttempts callers ask for
    DelaySet,        \* the delayMs callers ask for
    Limit,           \* jobs per drain
    Lease,           \* LEASE_MS
    BaseBackoff, MaxBackoff, OutageBackoff,
    AgeCap,          \* bound: how far overdue two rows are still told apart
    MaxCrashes,      \* bound on containers lost mid-job
    MaxOutages       \* bound on failures that isOutage recognises

ASSUME JobsAssumption ==
    /\ Jobs \subseteq Nat \ {0}
    /\ IsFiniteSet(Workers)
    /\ Kinds # {}
    /\ KindsOf \in [Workers -> SUBSET Kinds]
    /\ MaxAttemptsSet \subseteq Nat \ {0}
    /\ DelaySet \subseteq Nat

ASSUME BoundsAssumption ==
    /\ Limit \in Nat \ {0}
    /\ Lease \in Nat
    /\ BaseBackoff \in Nat /\ MaxBackoff \in Nat /\ OutageBackoff \in Nat
    /\ AgeCap \in Nat
    /\ MaxCrashes \in Nat /\ MaxOutages \in Nat

VARIABLES
    jobs,       \* the table
    worker,     \* what each drain loop is doing, with its QueuedJob snapshot
    late,       \* history: some handler finished after its lease was over
    aborted,    \* history: failJob threw out of drainQueue
    faults,     \* history: per job, attempts that ended in its own error
    reclaims,   \* history: per job, attempts ended by reclaimStalled
    crashes, outages

history == <<late, aborted, faults, reclaims>>
bounds  == <<crashes, outages>>
vars    == <<jobs, worker, late, aborted, faults, reclaims, crashes, outages>>

-----------------------------------------------------------------------------

Row == [status : {"absent", "pending", "running", "done", "failed"},
        kind : Kinds, key : Keys \cup {NoKey},
        attempts : Nat, max : Nat, runAfter : Int, age : Nat]

\* The row an INSERT writes, and an id no INSERT has used yet.
NewRow(status, kind, key, max, delay) ==
    [status |-> status, kind |-> kind, key |-> key, attempts |-> 0, max |-> max,
     runAfter |-> delay, age |-> 0]
NullRow == NewRow("absent", CHOOSE k \in Kinds : TRUE, NoKey, 0, 0)

\* "asleep" between drains, "claiming" at the top of the drain's loop,
\* "working" from the claim to the write that records the outcome.
WorkerRec == [pc : {"asleep", "claiming", "working"}, job : Jobs \cup {0},
              attempts : Nat, max : Nat, age : Nat, left : Int]

Free(pc, left) == [pc |-> pc, job |-> 0, attempts |-> 0, max |-> 0,
                   age |-> 0, left |-> left]
Asleep         == Free("asleep", 0)
Claiming(left) == Free("claiming", left)

Outstanding(j) == jobs[j].status \in {"pending", "running"}
Settled(j)     == jobs[j].status \in {"done", "failed"}
Holds(w, j)    == worker[w].pc = "working" /\ worker[w].job = j
Fresh(w)       == worker[w].age <= Lease

\* The partial unique index covers outstanding rows that have a key.
KeyTaken(j, key) ==
    /\ key # NoKey
    /\ \E k \in Jobs \ {j} : Outstanding(k) /\ jobs[k].key = key

Runnable(j) == jobs[j].status = "pending" /\ jobs[j].runAfter <= 0

\* ORDER BY run_after, created_at.  Rows past AgeCap are no longer told apart.
Before(i, j) ==
    \/ jobs[i].runAfter < jobs[j].runAfter
    \/ jobs[i].runAfter = jobs[j].runAfter /\ i < j /\ jobs[j].runAfter > -AgeCap

\* The cutoff of reclaimStalled: started_at < now - leaseMs.
Stalled_Early(j) == jobs[j].status = "running" /\ jobs[j].age >= Lease
Stalled_Never(j) == FALSE
Stalled(j) == jobs[j].status = "running" /\ jobs[j].age > Lease

\* failJob reads both sides from the snapshot its claim returned.
Exhausted_Off(w) == worker[w].attempts > worker[w].max
Exhausted_Soon(w) == worker[w].attempts + 1 >= worker[w].max
Exhausted(w) == worker[w].attempts >= worker[w].max

Backoff(n) ==
    LET d == BaseBackoff * 2^(n - 1) IN IF d < MaxBackoff THEN d ELSE MaxBackoff

Refunded_Blind(n) == n - 2
Refunded(n) == IF n > 0 THEN n - 1 ELSE 0

-----------------------------------------------------------------------------

Init ==
    /\ jobs = [j \in Jobs |-> NullRow]
    /\ worker = [w \in Workers |-> Asleep]
    /\ late = FALSE
    /\ aborted = FALSE
    /\ faults = [j \in Jobs |-> 0]
    /\ reclaims = [j \in Jobs |-> 0]
    /\ crashes = 0
    /\ outages = 0

\* enqueue: ids are taken in order; an insert the index refuses changes nothing.
Enqueue(j, kind, key, max, delay) ==
    /\ jobs[j].status = "absent"
    /\ \A k \in Jobs : k < j => jobs[k].status # "absent"
    /\ ~KeyTaken(j, key)
    /\ jobs' = [jobs EXCEPT ![j] = NewRow("pending", kind, key, max, delay)]
    /\ UNCHANGED <<worker, history, bounds>>

\* reclaimStalled: every row of every kind, whoever drains.
Reclaimed_Refund(r) == [r EXCEPT !.status = "pending", !.age = 0,
                                 !.attempts = Refunded(@)]
Reclaimed(r) == [r EXCEPT !.status = "pending", !.age = 0]

\* drainQueue up to its loop.
StartDrain(w) ==
    /\ worker[w].pc = "asleep"
    /\ jobs' = [j \in Jobs |-> IF Stalled(j) THEN Reclaimed(jobs[j]) ELSE jobs[j]]
    /\ reclaims' = [j \in Jobs |-> reclaims[j] + (IF Stalled(j) THEN 1 ELSE 0)]
    /\ worker' = [worker EXCEPT ![w] = Claiming(Limit)]
    /\ UNCHANGED <<late, aborted, faults, bounds>>

CanClaim(w, j) == Runnable(j) /\ jobs[j].kind \in KindsOf[w]

\* claimNext: one atomic UPDATE ... RETURNING.
Claim(w, j) ==
    /\ worker[w].pc = "claiming"
    /\ worker[w].left > 0
    /\ CanClaim(w, j)
    /\ \A i \in Jobs : CanClaim(w, i) => ~Before(i, j)
    /\ jobs' = [jobs EXCEPT ![j].status = "running", ![j].attempts = @ + 1,
                            ![j].age = 0]
    /\ worker' = [worker EXCEPT ![w] =
                   [pc |-> "working", job |-> j, attempts |-> jobs[j].attempts + 1,
                    max |-> jobs[j].max, age |-> 0, left |-> @.left]]
    /\ UNCHANGED <<history, bounds>>

\* The loop ends: the limit is spent or nothing is runnable.
EndDrain(w) ==
    /\ worker[w].pc = "claiming"
    /\ \/ worker[w].left = 0
       \/ \A j \in Jobs : ~CanClaim(w, j)
    /\ worker' = [worker EXCEPT ![w] = Asleep]
    /\ UNCHANGED <<jobs, history, bounds>>

\* Back to the top of the loop after one job.
NextJob(w) == worker' = [worker EXCEPT ![w] = Claiming(@.left - 1)]

NoteLate(w) == late' = (late \/ ~Fresh(w))

\* The handler returned; completeJob updates the row WHERE id = ?, nothing else.
Complete(w) ==
    /\ worker[w].pc = "working"
    /\ jobs' = [jobs EXCEPT ![worker[w].job].status = "done"]
    /\ NextJob(w)
    /\ NoteLate(w)
    /\ UNCHANGED <<aborted, faults, reclaims, bounds>>

\* Moving a settled row back to pending re-enters the unique index.
Collides(j) == ~Outstanding(j) /\ KeyTaken(j, jobs[j].key)

\* failJob, the error being this job's own and the last attempt used.
FailDead(w) ==
    /\ worker[w].pc = "working"
    /\ Exhausted(w)
    /\ jobs' = [jobs EXCEPT ![worker[w].job].status = "failed"]
    /\ faults' = [faults EXCEPT ![worker[w].job] = @ + 1]
    /\ NextJob(w)
    /\ NoteLate(w)
    /\ UNCHANGED <<aborted, reclaims, bounds>>

PutBack(r, attempts, delay) ==
    [r EXCEPT !.status = "pending", !.age = 0, !.attempts = attempts, !.runAfter = delay]

\* failJob with attempts left: pending again after the backoff.
FailRetry(w) ==
    LET j == worker[w].job IN
    /\ worker[w].pc = "working"
    /\ ~Exhausted(w)
    /\ ~Collides(j)
    /\ jobs' = [jobs EXCEPT ![j] = PutBack(@, @.attempts, Backoff(worker[w].attempts))]
    /\ faults' = [faults EXCEPT ![j] = @ + 1]
    /\ NextJob(w)
    /\ NoteLate(w)
    /\ UNCHANGED <<aborted, reclaims, bounds>>

\* failJob on an outage: the attempt is refunded and the drain stops.
FailDeferred(w) ==
    LET j == worker[w].job IN
    /\ worker[w].pc = "working"
    /\ outages < MaxOutages
    /\ ~Collides(j)
    /\ jobs' = [jobs EXCEPT ![j] = PutBack(@, Refunded(@.attempts), OutageBackoff)]
    /\ outages' = outages + 1
    /\ worker' = [worker EXCEPT ![w] = Asleep]
    /\ NoteLate(w)
    /\ UNCHANGED <<aborted, faults, reclaims, crashes>>

\* failJob's UPDATE hits the unique index: the error leaves drainQueue.
FailThrows(w) ==
    /\ worker[w].pc = "working"
    /\ Collides(worker[w].job)
    /\ \/ ~Exhausted(w) /\ UNCHANGED outages
       \/ outages < MaxOutages /\ outages' = outages + 1
    /\ aborted' = TRUE
    /\ worker' = [worker EXCEPT ![w] = Asleep]
    /\ NoteLate(w)
    /\ UNCHANGED <<jobs, faults, reclaims, crashes>>

Finish(w) == Complete(w) \/ FailDead(w) \/ FailRetry(w) \/ FailDeferred(w)
                \/ FailThrows(w)

\* The container is replaced mid-job; its successor starts with empty memory.
Crash(w) ==
    /\ worker[w].pc # "asleep"
    /\ crashes < MaxCrashes
    /\ crashes' = crashes + 1
    /\ worker' = [worker EXCEPT ![w] = Asleep]
    /\ UNCHANGED <<jobs, history, outages>>

Older(age) == IF age > Lease THEN age ELSE age + 1

\* Time passes for every delay and every lease.
Tick ==
    /\ jobs' = [j \in Jobs |->
         CASE jobs[j].status = "pending" ->
                [jobs[j] EXCEPT !.runAfter = IF @ > -AgeCap THEN @ - 1 ELSE @]
           [] jobs[j].status = "running" -> [jobs[j] EXCEPT !.age = Older(@)]
           [] OTHER -> jobs[j]]
    /\ worker' = [w \in Workers |->
         IF worker[w].pc = "working" THEN [worker[w] EXCEPT !.age = Older(@)]
         ELSE worker[w]]
    /\ UNCHANGED <<history, bounds>>

Next ==
    \/ \E j \in Jobs, kind \in Kinds, key \in Keys,
          max \in MaxAttemptsSet, delay \in DelaySet : Enqueue(j, kind, key, max, delay)
    \/ \E w \in Workers : StartDrain(w) \/ EndDrain(w) \/ Finish(w) \/ Crash(w)
    \/ \E w \in Workers, j \in Jobs : Claim(w, j)
    \/ Tick

Spec == Init /\ [][Next]_vars

\* The loops of the server run for as long as it does, handlers return and
\* time passes.  Nothing says that work is ever enqueued or that it succeeds.
Fairness ==
    /\ \A w \in Workers :
         WF_vars(StartDrain(w) \/ EndDrain(w) \/ (\E j \in Jobs : Claim(w, j)) \/ Finish(w))
    /\ WF_vars(Tick)

FairSpec == Spec /\ Fairness

-----------------------------------------------------------------------------
(***************************************************************************)
(* Properties                                                              *)
(***************************************************************************)

\* Every row, worker and counter is of its type.
TypeOK ==
    /\ jobs \in [Jobs -> Row]
    /\ worker \in [Workers -> WorkerRec]
    /\ \A w \in Workers : worker[w].pc = "working" => worker[w].job \in Jobs
    /\ late \in BOOLEAN
    /\ aborted \in BOOLEAN
    /\ faults \in [Jobs -> Nat]
    /\ reclaims \in [Jobs -> Nat]
    /\ crashes \in Nat
    /\ outages \in Nat

\* claimNext with reclaimStalled: as long as no handler has finished after its
\* lease, two workers inside their leases never run the same job.
ExclusiveClaim ==
    ~late => \A w, v \in Workers, j \in Jobs :
                Holds(w, j) /\ Holds(v, j) /\ Fresh(w) /\ Fresh(v) => w = v

\* A worker inside its lease acts on a row that is still as its claim left it:
\* the QueuedJob snapshot failJob reads is not stale, nobody reclaimed the row.
SnapshotCurrent ==
    ~late => \A w \in Workers :
        worker[w].pc = "working" /\ Fresh(w) =>
            LET r == jobs[worker[w].job] IN
            /\ r.status = "running"
            /\ r.age = worker[w].age
            /\ r.attempts = worker[w].attempts
            /\ r.max = worker[w].max

\* The attempts column counts exactly the attempts the job has to answer for:
\* its own errors and abandoned claims, never an outage (failJob's refund).
AttemptLedger ==
    ~late => \A j \in Jobs :
        jobs[j].attempts = faults[j] + reclaims[j]
                             + (IF jobs[j].status \in {"running", "done"} THEN 1 ELSE 0)

\* Outages never kill a job: a failed row had its full max_attempts of errors
\* and abandoned claims (the incident failJob's comment tells of).
DeadOnlyWhenExhausted ==
    ~late => \A j \in Jobs :
        jobs[j].status = "failed" => faults[j] + reclaims[j] >= jobs[j].max

\* max_attempts bounds a job's attempts up to the claims that were reclaimed,
\* even when handlers outlive their leases.
BudgetUpToReclaims ==
    \A j \in Jobs : jobs[j].attempts <= jobs[j].max + reclaims[j]

\* failJob never throws out of drainQueue unless a handler outlived its lease:
\* a row still held is still in the unique index.
DrainNeverAborts == aborted => late

\* done and failed are final unless a handler outlived its lease: no step of
\* one worker undoes the outcome another recorded.
SettledIsFinal ==
    [][\A j \in Jobs : Settled(j) /\ ~late' => jobs'[j].status = jobs[j].status]_vars

\* What handlers may rely on for each row, in so many words: OneJob.  A worker
\* holds the row for as long as it is inside the lease of its claim; past it the
\* row may be another's, and a worker that finishes then overruns.
StatusOf(j) == IF jobs[j].status = "absent" THEN "none" ELSE jobs[j].status
HolderOf(j) == {w \in Workers : Holds(w, j) /\ Fresh(w)}
Promise(j) ==
    INSTANCE OneJob WITH Outcomes <- {"done", "failed"}, status <- StatusOf(j),
                         holder <- HolderOf(j), overrun <- late
JobsKeepPromise ==
    /\ \A j \in Jobs : Promise(j)!Init
    /\ [][\A j \in Jobs : [Promise(j)!Next]_(Promise(j)!vars)]_vars

\* A job that is queued is eventually done or failed, through crashes,
\* outages and late handlers.
EventuallySettled == \A j \in Jobs : Outstanding(j) ~> Settled(j)
=============================================================================
