--------------------------- MODULE JobQueueProofs ---------------------------
(***************************************************************************)
(* Theorems about JobQueue, for any number of jobs, workers, kinds, keys,  *)
(* crashes and outages and any lease and backoff.                          *)
(***************************************************************************)
EXTENDS JobQueue, FiniteSetTheorems, TLAPS

(***************************************************************************)
(* Types                                                                   *)
(***************************************************************************)

\* A row that was never inserted, and a worker between jobs, are well typed.
LEMMA NullsTyped ==
    /\ NullRow \in Row
    /\ Asleep \in WorkerRec /\ Asleep.pc = "asleep"
    /\ \A n \in Int : Claiming(n) \in WorkerRec /\ Claiming(n).pc = "claiming"
  <1>1. NullRow \in Row
    BY JobsAssumption DEF NullRow, NewRow, Row
  <1>2. Asleep \in WorkerRec /\ Asleep.pc = "asleep"
    BY DEF Asleep, Free, WorkerRec
  <1>3. \A n \in Int : Claiming(n) \in WorkerRec /\ Claiming(n).pc = "claiming"
    BY DEF Claiming, Free, WorkerRec
  <1> QED BY <1>1, <1>2, <1>3

\* The doubling, capped, is a delay.
LEMMA BackoffTyped == ASSUME NEW n \in Nat PROVE Backoff(n) \in Int
  <1>1. BaseBackoff * 2^(n - 1) \in Int
    BY BoundsAssumption
  <1> QED BY <1>1, BoundsAssumption DEF Backoff

LEMMA RefundTyped == ASSUME NEW n \in Nat PROVE Refunded(n) \in Nat /\ Refunded(n + 1) = n
  BY DEF Refunded

\* What failJob's UPDATE leaves of a row it puts back.
LEMMA PutBackTyped ==
    ASSUME NEW r \in Row, NEW n, NEW d
    PROVE  /\ PutBack(r, n, d).status = "pending"
           /\ PutBack(r, n, d).attempts = n
           /\ PutBack(r, n, d).max = r.max
           /\ n \in Nat /\ d \in Int => PutBack(r, n, d) \in Row
  BY DEF PutBack, Row

\* A saturating age stays a natural number, and crosses the lease only upwards.
LEMMA OlderTyped ==
    ASSUME NEW a \in Nat PROVE Older(a) \in Nat /\ (Older(a) <= Lease => Older(a) = a + 1 /\ a <= Lease)
  BY BoundsAssumption DEF Older

\* NextJob puts the worker back at the top of its loop, well typed.
LEMMA NextJobTyped ==
    ASSUME TypeOK, NEW w \in Workers, NextJob(w)
    PROVE  /\ worker' \in [Workers -> WorkerRec]
           /\ worker'[w].pc = "claiming"
           /\ \A v \in Workers : v # w => worker'[v] = worker[v]
  <1>1. worker[w].left - 1 \in Int
    BY DEF TypeOK, WorkerRec
  <1> QED BY <1>1, NullsTyped DEF NextJob, TypeOK

\* TypeOK is preserved by every step of the queue.
LEMMA TypeStep == TypeOK /\ [Next]_vars => TypeOK'
  <1> SUFFICES ASSUME TypeOK, [Next]_vars PROVE TypeOK'
    OBVIOUS
  <1> USE DEF TypeOK
  <1>1. ASSUME NEW j \in Jobs, NEW kind \in Kinds, NEW key \in Keys \cup {NoKey},
               NEW max \in MaxAttemptsSet, NEW delay \in DelaySet,
               Enqueue(j, kind, key, max, delay)
        PROVE  TypeOK'
    <2>1. NewRow("pending", kind, key, max, delay) \in Row
      BY JobsAssumption DEF NewRow, Row
    <2> QED BY <1>1, <2>1 DEF Enqueue, history, bounds
  <1>2. ASSUME NEW w \in Workers, StartDrain(w) PROVE TypeOK'
    <2>1. \A j \in Jobs : Reclaimed(jobs[j]) \in Row
      BY ZenonT(40) DEF Reclaimed, Row
    <2>2. Claiming(Limit) \in WorkerRec /\ Claiming(Limit).pc = "claiming"
      BY BoundsAssumption, NullsTyped
    <2>3. jobs' \in [Jobs -> Row]
      BY <1>2, <2>1 DEF StartDrain
    <2>4. worker' \in [Workers -> WorkerRec]
      BY <1>2, <2>2 DEF StartDrain
    <2>5. \A v \in Workers : worker'[v].pc = "working" => worker'[v].job \in Jobs
      BY <1>2, <2>2 DEF StartDrain
    <2>6. reclaims' \in [Jobs -> Nat]
      BY <1>2 DEF StartDrain
    <2> QED BY <1>2, <2>3, <2>4, <2>5, <2>6 DEF StartDrain, bounds
  <1>3. ASSUME NEW w \in Workers, NEW j \in Jobs, Claim(w, j) PROVE TypeOK'
    BY <1>3 DEF Claim, history, bounds, Row, WorkerRec
  <1>4. ASSUME NEW w \in Workers, EndDrain(w) PROVE TypeOK'
    BY <1>4, NullsTyped DEF EndDrain, history, bounds
  <1>5. ASSUME NEW w \in Workers, Complete(w) PROVE TypeOK'
    <2>1. jobs' \in [Jobs -> Row]
      BY <1>5, ZenonT(40) DEF Complete, Row
    <2> QED BY <1>5, <2>1, NextJobTyped DEF Complete, NoteLate, bounds, Fresh
  <1>6. ASSUME NEW w \in Workers, FailDead(w) PROVE TypeOK'
    <2>1. jobs' \in [Jobs -> Row] /\ faults' \in [Jobs -> Nat]
      BY <1>6, SMTT(30) DEF FailDead, Row
    <2> QED BY <1>6, <2>1, NextJobTyped DEF FailDead, NoteLate, bounds, Fresh
  <1>7. ASSUME NEW w \in Workers, FailRetry(w) PROVE TypeOK'
    <2>1. Backoff(worker[w].attempts) \in Int
      BY BackoffTyped DEF WorkerRec
    <2>2. jobs' \in [Jobs -> Row] /\ faults' \in [Jobs -> Nat]
      BY <1>7, <2>1, PutBackTyped DEF FailRetry, Row
    <2> QED BY <1>7, <2>2, NextJobTyped DEF FailRetry, NoteLate, bounds, Fresh
  <1>8. ASSUME NEW w \in Workers, FailDeferred(w) PROVE TypeOK'
    <2>1. Refunded(jobs[worker[w].job].attempts) \in Nat
      BY <1>8, RefundTyped DEF FailDeferred, Row
    <2>2. jobs' \in [Jobs -> Row]
      BY <1>8, <2>1, BoundsAssumption, PutBackTyped DEF FailDeferred
    <2> QED BY <1>8, <2>2, NullsTyped DEF FailDeferred, NoteLate, Fresh
  <1>9. ASSUME NEW w \in Workers, FailThrows(w) PROVE TypeOK'
    BY <1>9, NullsTyped DEF FailThrows, NoteLate, Fresh
  <1>10. ASSUME NEW w \in Workers, Crash(w) PROVE TypeOK'
    BY <1>10, NullsTyped DEF Crash, history
  <1>11. CASE Tick
    <2>1. \A j \in Jobs : Older(jobs[j].age) \in Nat
      BY OlderTyped DEF Row
    <2>2. \A w \in Workers : Older(worker[w].age) \in Nat
      BY OlderTyped DEF WorkerRec
    <2>3. jobs' \in [Jobs -> Row]
      <3>1. \A j \in Jobs : [jobs[j] EXCEPT !.age = Older(@)] \in Row
        BY <2>1 DEF Row
      <3>2. \A j \in Jobs :
              [jobs[j] EXCEPT !.runAfter = IF @ > -AgeCap THEN @ - 1 ELSE @] \in Row
        BY BoundsAssumption DEF Row
      <3> QED BY <1>11, <3>1, <3>2 DEF Tick
    <2>4. worker' \in [Workers -> WorkerRec]
      <3>1. \A w \in Workers : [worker[w] EXCEPT !.age = Older(@)] \in WorkerRec
        BY <2>2 DEF WorkerRec
      <3> QED BY <1>11, <3>1 DEF Tick
    <2>5. \A w \in Workers : worker'[w].pc = "working" => worker'[w].job \in Jobs
      BY <1>11 DEF Tick, WorkerRec
    <2> QED BY <1>11, <2>3, <2>4, <2>5 DEF Tick, history, bounds
  <1>12. CASE UNCHANGED vars
    BY <1>12 DEF vars
  <1> QED
    BY <1>1, <1>2, <1>3, <1>4, <1>5, <1>6, <1>7, <1>8, <1>9, <1>10, <1>11, <1>12
    DEF Next, Finish

\* The queue is always well typed.
THEOREM TypeCorrect == Spec => []TypeOK
  <1>1. Init => TypeOK
    <2> SUFFICES ASSUME Init PROVE TypeOK
      OBVIOUS
    <2>1. jobs \in [Jobs -> Row]
      BY NullsTyped DEF Init
    <2>2. /\ worker \in [Workers -> WorkerRec]
          /\ \A w \in Workers : worker[w].pc # "working"
      BY NullsTyped DEF Init
    <2>3. faults \in [Jobs -> Nat] /\ reclaims \in [Jobs -> Nat]
      BY DEF Init
    <2> QED BY <2>1, <2>2, <2>3 DEF Init, TypeOK
  <1> QED BY <1>1, TypeStep, PTL DEF Spec

(***************************************************************************)
(* The lease.  ExclusiveClaim and SettledIsFinal are not inductive: that a *)
(* finishing worker touches nobody else's job needs SnapshotCurrent (its   *)
(* row is still running, with the age of its own claim), and the two       *)
(* together with the ledger are.  Everything is conditional on ~late, so a *)
(* step that makes late true has nothing to show.                          *)
(***************************************************************************)
LeaseInv == SnapshotCurrent /\ ExclusiveClaim /\ DrainNeverAborts
Unused == ~late => \A j \in Jobs : jobs[j].status = "absent" => jobs[j].attempts = 0
LedgerInv == AttemptLedger /\ DeadOnlyWhenExhausted /\ Unused

\* A worker that finishes inside its lease holds the only fresh claim on its
\* job, and its row is running.
LEMMA FinishFresh ==
    ASSUME TypeOK, LeaseInv, NEW w \in Workers, worker[w].pc = "working",
           NoteLate(w), ~late'
    PROVE  LET j == worker[w].job IN
           /\ ~late /\ Fresh(w) /\ j \in Jobs
           /\ jobs[j].status = "running"
           /\ jobs[j].attempts = worker[w].attempts
           /\ jobs[j].max = worker[w].max
           /\ \A v \in Workers \ {w} :
                worker[v].pc = "working" /\ Fresh(v) => worker[v].job # j
  <1>1. ~late /\ Fresh(w)
    BY DEF NoteLate
  <1> QED BY <1>1 DEF TypeOK, LeaseInv, SnapshotCurrent, ExclusiveClaim, Holds

\* A step that only rewrites the row of a worker finishing inside its lease and
\* releases that worker keeps the lease invariant.
LEMMA FinishKeepsLease ==
    ASSUME TypeOK, TypeOK', LeaseInv, NEW w \in Workers, worker[w].pc = "working",
           NoteLate(w), worker'[w].pc # "working",
           \A v \in Workers \ {w} : worker'[v] = worker[v],
           \A j \in Jobs : j # worker[w].job => jobs'[j] = jobs[j],
           aborted' => aborted \/ late'
    PROVE  LeaseInv'
  <1> SUFFICES ASSUME ~late' PROVE LeaseInv'
    BY DEF LeaseInv, SnapshotCurrent, ExclusiveClaim, DrainNeverAborts
  <1>1. ~late /\ \A v \in Workers \ {w} :
            worker[v].pc = "working" /\ Fresh(v) => worker[v].job # worker[w].job
    BY FinishFresh
  <1>2. SnapshotCurrent'
    BY <1>1 DEF SnapshotCurrent, LeaseInv, Fresh, TypeOK
  <1>3. ExclusiveClaim'
    BY <1>1 DEF ExclusiveClaim, LeaseInv, Holds, Fresh
  <1>4. DrainNeverAborts'
    BY <1>1 DEF DrainNeverAborts, LeaseInv
  <1> QED BY <1>2, <1>3, <1>4 DEF LeaseInv

\* Every step preserves the lease invariant.
LEMMA LeaseStep == TypeOK /\ TypeOK' /\ LeaseInv /\ [Next]_vars => LeaseInv'
  <1> SUFFICES ASSUME TypeOK, TypeOK', LeaseInv, [Next]_vars PROVE LeaseInv'
    OBVIOUS
  <1> USE DEF LeaseInv
  <1>1. ASSUME NEW j \in Jobs, NEW kind \in Kinds, NEW key \in Keys \cup {NoKey},
               NEW max \in MaxAttemptsSet, NEW delay \in DelaySet,
               Enqueue(j, kind, key, max, delay)
        PROVE  LeaseInv'
    <2>1. SnapshotCurrent'
      BY <1>1 DEF Enqueue, history, SnapshotCurrent, Fresh, TypeOK
    <2>2. ExclusiveClaim' /\ DrainNeverAborts'
      BY <1>1 DEF Enqueue, history, ExclusiveClaim, DrainNeverAborts, Holds, Fresh
    <2> QED BY <2>1, <2>2
  <1>2. ASSUME NEW w \in Workers, StartDrain(w) PROVE LeaseInv'
    <2>1. worker'[w].pc = "claiming" /\ \A v \in Workers \ {w} : worker'[v] = worker[v]
      BY <1>2, BoundsAssumption, NullsTyped DEF StartDrain, TypeOK
    <2>2. \A j \in Jobs : jobs[j].age <= Lease => jobs'[j] = jobs[j]
      BY <1>2, BoundsAssumption DEF StartDrain, Stalled, TypeOK, Row
    <2>3. SnapshotCurrent'
      BY <1>2, <2>1, <2>2 DEF StartDrain, SnapshotCurrent, Fresh, TypeOK
    <2>4. ExclusiveClaim' /\ DrainNeverAborts'
      BY <1>2, <2>1 DEF StartDrain, ExclusiveClaim, DrainNeverAborts, Holds, Fresh
    <2> QED BY <2>3, <2>4
  <1>3. ASSUME NEW w \in Workers, NEW j \in Jobs, Claim(w, j) PROVE LeaseInv'
    <2>1. ~late => \A v \in Workers : Holds(v, j) => ~Fresh(v)
      BY <1>3 DEF Claim, CanClaim, Runnable, SnapshotCurrent, Holds
    <2>2. /\ \A v \in Workers \ {w} : worker'[v] = worker[v]
          /\ \A i \in Jobs \ {j} : jobs'[i] = jobs[i]
          /\ worker'[w].pc = "working" /\ worker'[w].job = j
          /\ worker'[w].age = 0 /\ worker'[w].max = jobs[j].max
          /\ worker'[w].attempts = jobs[j].attempts + 1
          /\ jobs'[j].status = "running" /\ jobs'[j].age = 0
          /\ jobs'[j].attempts = jobs[j].attempts + 1 /\ jobs'[j].max = jobs[j].max
          /\ late' = late /\ aborted' = aborted
      BY <1>3 DEF Claim, history, TypeOK, Row, WorkerRec
    <2>3. SnapshotCurrent'
      BY <2>1, <2>2 DEF SnapshotCurrent, Fresh, Holds, TypeOK
    <2>4. ExclusiveClaim' /\ DrainNeverAborts'
      BY <2>1, <2>2 DEF ExclusiveClaim, DrainNeverAborts, Fresh, Holds
    <2> QED BY <2>3, <2>4
  <1>4. ASSUME NEW w \in Workers, EndDrain(w) \/ Crash(w) PROVE LeaseInv'
    <2>1. worker'[w].pc = "asleep" /\ \A v \in Workers \ {w} : worker'[v] = worker[v]
      BY <1>4, NullsTyped DEF EndDrain, Crash, TypeOK
    <2>2. jobs' = jobs /\ late' = late /\ aborted' = aborted
      BY <1>4 DEF EndDrain, Crash, history
    <2>3. SnapshotCurrent'
      BY <2>1, <2>2 DEF SnapshotCurrent, Fresh
    <2>4. ExclusiveClaim' /\ DrainNeverAborts'
      BY <2>1, <2>2 DEF ExclusiveClaim, DrainNeverAborts, Holds, Fresh
    <2> QED BY <2>3, <2>4
  <1>5. ASSUME NEW w \in Workers, Complete(w) PROVE LeaseInv'
    BY <1>5, NextJobTyped, FinishKeepsLease DEF Complete, TypeOK
  <1>6. ASSUME NEW w \in Workers, FailDead(w) PROVE LeaseInv'
    BY <1>6, NextJobTyped, FinishKeepsLease DEF FailDead, TypeOK
  <1>7. ASSUME NEW w \in Workers, FailRetry(w) PROVE LeaseInv'
    BY <1>7, NextJobTyped, FinishKeepsLease DEF FailRetry, TypeOK
  <1>8. ASSUME NEW w \in Workers, FailDeferred(w) PROVE LeaseInv'
    BY <1>8, NullsTyped, FinishKeepsLease DEF FailDeferred, TypeOK
  <1>9. ASSUME NEW w \in Workers, FailThrows(w) PROVE LeaseInv'
    <2>1. ~late' => FALSE
      BY <1>9, FinishFresh DEF FailThrows, Collides, Outstanding
    <2> QED BY <1>9, <2>1, NullsTyped, FinishKeepsLease DEF FailThrows, TypeOK
  <1>10. CASE Tick
    <2>1. \A v \in Workers : worker'[v] = IF worker[v].pc = "working"
                                THEN [worker[v] EXCEPT !.age = Older(@)] ELSE worker[v]
      BY <1>10 DEF Tick
    <2>2. \A v \in Workers :
            /\ worker'[v].pc = worker[v].pc /\ worker'[v].job = worker[v].job
            /\ worker'[v].attempts = worker[v].attempts /\ worker'[v].max = worker[v].max
            /\ worker[v].pc = "working" => worker'[v].age = Older(worker[v].age)
      BY <2>1 DEF TypeOK, WorkerRec
    <2>3. \A j \in Jobs : jobs[j].status = "running" =>
            /\ jobs'[j].status = "running" /\ jobs'[j].age = Older(jobs[j].age)
            /\ jobs'[j].attempts = jobs[j].attempts /\ jobs'[j].max = jobs[j].max
      BY <1>10 DEF Tick, TypeOK, Row
    <2>4. \A v \in Workers : worker[v].pc = "working" /\ Fresh(v)' => Fresh(v)
      BY <2>2, OlderTyped DEF Fresh, TypeOK, WorkerRec
    <2>5. late' = late /\ aborted' = aborted
      BY <1>10 DEF Tick, history
    <2>6. SnapshotCurrent'
      BY <2>2, <2>3, <2>4, <2>5 DEF SnapshotCurrent, TypeOK
    <2>7. ExclusiveClaim' /\ DrainNeverAborts'
      BY <2>2, <2>4, <2>5 DEF ExclusiveClaim, DrainNeverAborts, Holds
    <2> QED BY <2>6, <2>7
  <1>11. CASE UNCHANGED vars
    BY <1>11 DEF vars, SnapshotCurrent, ExclusiveClaim, DrainNeverAborts, Holds, Fresh
  <1> QED
    BY <1>1, <1>2, <1>3, <1>4, <1>5, <1>6, <1>7, <1>8, <1>9, <1>10, <1>11
    DEF Next, Finish

\* Every step preserves the ledger.
LEMMA LedgerStep ==
    TypeOK /\ TypeOK' /\ LeaseInv /\ LedgerInv /\ [Next]_vars => LedgerInv'
  <1> SUFFICES ASSUME TypeOK, TypeOK', LeaseInv, LedgerInv, [Next]_vars, ~late'
               PROVE  LedgerInv'
    BY DEF LedgerInv, AttemptLedger, DeadOnlyWhenExhausted, Unused
  <1> USE DEF LedgerInv, AttemptLedger, DeadOnlyWhenExhausted, Unused
  <1>a. \A j \in Jobs : /\ jobs[j] \in Row
                        /\ jobs[j].attempts \in Nat /\ jobs[j].max \in Nat
                        /\ faults[j] \in Nat /\ reclaims[j] \in Nat
    BY DEF TypeOK, Row
  <1>1. ASSUME NEW j \in Jobs, NEW kind \in Kinds, NEW key \in Keys \cup {NoKey},
               NEW max \in MaxAttemptsSet, NEW delay \in DelaySet,
               Enqueue(j, kind, key, max, delay)
        PROVE  LedgerInv'
    <2>1. /\ jobs[j].status = "absent" /\ jobs'[j].status = "pending"
          /\ jobs'[j].attempts = 0
          /\ \A i \in Jobs \ {j} : jobs'[i] = jobs[i]
      BY <1>1 DEF Enqueue, NewRow, TypeOK
    <2>2. faults[j] = 0 /\ reclaims[j] = 0
      <3>1. ~late /\ jobs[j].attempts = 0
        BY <1>1, <2>1 DEF Enqueue, history
      <3>2. jobs[j].attempts = faults[j] + reclaims[j]
        BY <3>1, <2>1, <1>a
      <3> QED BY <3>1, <3>2, <1>a
    <2> QED BY <1>1, <1>a, <2>1, <2>2 DEF Enqueue, history
  <1>2. ASSUME NEW w \in Workers, StartDrain(w) PROVE LedgerInv'
    <2>1. \A j \in Jobs :
            \/ /\ jobs[j].status = "running" /\ jobs'[j].status = "pending"
               /\ jobs'[j].attempts = jobs[j].attempts
               /\ reclaims'[j] = reclaims[j] + 1
            \/ jobs'[j] = jobs[j] /\ reclaims'[j] = reclaims[j]
      <3>1. \A j \in Jobs : jobs'[j] = IF Stalled(j) THEN Reclaimed(jobs[j]) ELSE jobs[j]
        BY <1>2 DEF StartDrain
      <3>2. \A j \in Jobs : reclaims'[j] = IF Stalled(j) THEN reclaims[j] + 1 ELSE reclaims[j]
        BY <1>2, <1>a DEF StartDrain
      <3>3. \A j \in Jobs : /\ Reclaimed(jobs[j]).status = "pending"
                             /\ Reclaimed(jobs[j]).attempts = jobs[j].attempts
        BY <1>a DEF Reclaimed, Row
      <3> QED BY <3>1, <3>2, <3>3 DEF Stalled
    <2>2. \A j \in Jobs : jobs'[j].max = jobs[j].max
      BY <1>2, <1>a DEF StartDrain, Reclaimed, Row
    <2> QED BY <2>2, <1>2, <1>a, <2>1 DEF StartDrain
  <1>3. ASSUME NEW w \in Workers, NEW j \in Jobs, Claim(w, j) PROVE LedgerInv'
    <2>1. /\ jobs[j].status = "pending" /\ jobs'[j].status = "running"
          /\ jobs'[j].attempts = jobs[j].attempts + 1
          /\ \A i \in Jobs \ {j} : jobs'[i] = jobs[i]
      BY <1>3, <1>a DEF Claim, CanClaim, Runnable, TypeOK, Row
    <2>2. UNCHANGED <<late, faults, reclaims>>
      BY <1>3 DEF Claim, history
    <2>3. AttemptLedger'
      <3>1. jobs'[j].attempts = faults[j] + reclaims[j] + 1
        <4>1. jobs[j].attempts = faults[j] + reclaims[j]
          BY <1>a, <2>1, <2>2
        <4> QED BY <4>1, <2>1, <1>a
      <3> QED BY <1>a, <2>1, <2>2, <3>1
    <2>4. DeadOnlyWhenExhausted' /\ Unused'
      BY <2>1, <2>2
    <2> QED BY <2>3, <2>4
  <1>4. ASSUME NEW w \in Workers, EndDrain(w) \/ Crash(w) PROVE LedgerInv'
    BY <1>4 DEF EndDrain, Crash, history
  <1>5. ASSUME NEW w \in Workers, Finish(w)
        PROVE  LedgerInv'
    <2> DEFINE j == worker[w].job
    <2>1. worker[w].pc = "working" /\ NoteLate(w)
      BY <1>5 DEF Finish, Complete, FailDead, FailRetry, FailDeferred, FailThrows
    <2>2. /\ ~late /\ j \in Jobs /\ jobs[j].status = "running"
          /\ jobs[j].attempts = worker[w].attempts /\ jobs[j].max = worker[w].max
      BY <2>1, FinishFresh
    <2>3. jobs[j].attempts = faults[j] + reclaims[j] + 1
      BY <2>2
    <2>4. CASE Complete(w)
      BY <2>2, <2>3, <2>4, <1>a DEF Complete, TypeOK
    <2>5. CASE FailDead(w)
      <3>1. faults[j] + 1 + reclaims[j] >= jobs[j].max
        BY <2>2, <2>3, <2>5, <1>a DEF FailDead, Exhausted
      <3> QED BY <2>2, <2>3, <2>5, <3>1, <1>a DEF FailDead, TypeOK
    <2>6. CASE FailRetry(w)
      <3>1. /\ jobs'[j].status = "pending" /\ jobs'[j].attempts = jobs[j].attempts
            /\ faults'[j] = faults[j] + 1 /\ reclaims' = reclaims
            /\ \A i \in Jobs \ {j} : jobs'[i] = jobs[i] /\ faults'[i] = faults[i]
        BY <2>6, <2>2, <1>a, PutBackTyped DEF FailRetry, TypeOK
      <3> QED BY <2>2, <2>3, <3>1, <1>a
    <2>7. CASE FailDeferred(w)
      <3>1. Refunded(jobs[j].attempts) = faults[j] + reclaims[j]
        BY <2>2, <2>3, <1>a, RefundTyped
      <3>2. /\ jobs'[j].status = "pending"
            /\ jobs'[j].attempts = Refunded(jobs[j].attempts)
            /\ faults' = faults /\ reclaims' = reclaims
            /\ \A i \in Jobs \ {j} : jobs'[i] = jobs[i]
        BY <2>7, <2>2, <1>a, PutBackTyped DEF FailDeferred, TypeOK
      <3> QED BY <2>2, <3>1, <3>2, <1>a
    <2>8. CASE FailThrows(w)
      BY <2>2, <2>8 DEF FailThrows, Collides, Outstanding
    <2> QED BY <1>5, <2>4, <2>5, <2>6, <2>7, <2>8 DEF Finish
  <1>6. CASE Tick
    <2>1. \A j \in Jobs : /\ jobs'[j].status = jobs[j].status
                          /\ jobs'[j].attempts = jobs[j].attempts
                          /\ jobs'[j].max = jobs[j].max
      BY <1>6, <1>a DEF Tick, Row
    <2> QED BY <1>6, <2>1 DEF Tick, history
  <1>7. CASE UNCHANGED vars
    BY <1>7 DEF vars
  <1> QED BY <1>1, <1>2, <1>3, <1>4, <1>5, <1>6, <1>7 DEF Next

\* A settled row changes only under a worker that finishes late.
LEMMA SettledStep ==
    TypeOK /\ LeaseInv /\ [Next]_vars =>
        \A j \in Jobs : Settled(j) /\ ~late' => jobs'[j].status = jobs[j].status
  <1> SUFFICES ASSUME TypeOK, LeaseInv, [Next]_vars, NEW j \in Jobs, Settled(j), ~late'
               PROVE  jobs'[j].status = jobs[j].status
    OBVIOUS
  <1> USE DEF TypeOK, Settled
  <1>1. ASSUME NEW w \in Workers, Finish(w) PROVE jobs'[j] = jobs[j]
    <2>1. worker[w].pc = "working" /\ NoteLate(w)
      BY <1>1 DEF Finish, Complete, FailDead, FailRetry, FailDeferred, FailThrows
    <2>2. worker[w].job # j
      BY <2>1, FinishFresh
    <2> QED BY <1>1, <2>2 DEF Finish, Complete, FailDead, FailRetry, FailDeferred, FailThrows
  <1>2. CASE Tick
    BY <1>2 DEF Tick
  <1>3. ASSUME NEW w \in Workers, StartDrain(w) PROVE jobs'[j] = jobs[j]
    BY <1>3 DEF StartDrain, Stalled
  <1>4. ASSUME NEW i \in Jobs, NEW kind \in Kinds, NEW key \in Keys \cup {NoKey},
               NEW max \in MaxAttemptsSet, NEW delay \in DelaySet,
               Enqueue(i, kind, key, max, delay)
        PROVE  jobs'[j] = jobs[j]
    BY <1>4 DEF Enqueue
  <1>5. ASSUME NEW w \in Workers, NEW i \in Jobs, Claim(w, i) PROVE jobs'[j] = jobs[j]
    BY <1>5 DEF Claim, CanClaim, Runnable
  <1> QED BY <1>1, <1>2, <1>3, <1>4, <1>5 DEF Next, EndDrain, Crash, vars

-----------------------------------------------------------------------------
\* The conjunction that every step preserves holds in every reachable state.
LEMMA QueueInvariant == Spec => [](TypeOK /\ LeaseInv /\ LedgerInv)
  <1>1. Init => LeaseInv /\ LedgerInv
    <2> SUFFICES ASSUME Init PROVE LeaseInv /\ LedgerInv
      OBVIOUS
    <2>1. \A w \in Workers : worker[w].pc # "working"
      BY NullsTyped DEF Init
    <2>2. \A j \in Jobs : jobs[j].status = "absent" /\ jobs[j].attempts = 0
      BY DEF Init, NullRow, NewRow
    <2>3. \A j \in Jobs : faults[j] = 0 /\ reclaims[j] = 0
      BY DEF Init
    <2>4. LeaseInv
      BY <2>1 DEF Init, LeaseInv, SnapshotCurrent, ExclusiveClaim, DrainNeverAborts, Holds
    <2>5. LedgerInv
      BY <2>2, <2>3 DEF LedgerInv, AttemptLedger, DeadOnlyWhenExhausted, Unused
    <2> QED BY <2>4, <2>5
  <1>2. TypeOK /\ LeaseInv /\ LedgerInv /\ [Next]_vars => (LeaseInv /\ LedgerInv)'
    BY TypeStep, LeaseStep, LedgerStep
  <1> QED BY <1>1, <1>2, TypeCorrect, PTL DEF Spec

\* claimNext and reclaimStalled together: two workers inside their leases never
\* run the same job, and their snapshots match their rows.
THEOREM ClaimsAreExclusive == Spec => [](ExclusiveClaim /\ SnapshotCurrent)
  BY QueueInvariant, PTL DEF LeaseInv

\* failJob throws out of a drain only after a handler outlived its lease.
THEOREM DrainsDoNotAbort == Spec => []DrainNeverAborts
  BY QueueInvariant, PTL DEF LeaseInv

\* The attempts column counts own errors, abandoned claims and the claim in hand.
THEOREM AttemptsAreExact == Spec => []AttemptLedger
  BY QueueInvariant, PTL DEF LedgerInv

\* However many outages the queue sees, a row is given up only after as many
\* errors of its own and abandoned claims as it was allowed.
THEOREM OutagesNeverKill == Spec => []DeadOnlyWhenExhausted
  BY QueueInvariant, PTL DEF LedgerInv

\* done and failed are final for as long as handlers keep to their leases.
THEOREM OutcomesAreFinal == Spec => SettledIsFinal
  <1>1. TypeOK /\ LeaseInv /\ [Next]_vars =>
          [\A j \in Jobs : Settled(j) /\ ~late' => jobs'[j].status = jobs[j].status]_vars
    BY SettledStep
  <1> QED BY <1>1, QueueInvariant, PTL DEF Spec, SettledIsFinal

-----------------------------------------------------------------------------
(***************************************************************************)
(* The budget, late handlers and all.  A pending row is one claim to come, *)
(* a worker on it one outcome to come, and only a reclaim makes one more   *)
(* of them.  Once the attempts reach max, those that can still lead to a   *)
(* claim - a pending row, a worker whose snapshot says it may retry - and  *)
(* the attempts made are bounded together: a claim turns one into the      *)
(* other, a refund the other into one.                                     *)
(***************************************************************************)
Holders(j) == {w \in Workers : Holds(w, j)}
Retriers(j) == {w \in Holders(j) : ~Exhausted(w)}
Waiting(j) == IF jobs[j].status = "pending" THEN 1 ELSE 0

Within(j) ==
    /\ jobs[j].status = "absent" => Holders(j) = {} /\ jobs[j].attempts = 0
    /\ jobs[j].status # "absent" => jobs[j].max > 0
    /\ Cardinality(Holders(j)) + Waiting(j) <= reclaims[j] + 1
    /\ jobs[j].attempts >= jobs[j].max =>
         jobs[j].attempts + Cardinality(Retriers(j)) + Waiting(j) <= jobs[j].max + reclaims[j]
BudgetInv == \A j \in Jobs : Within(j)

LEMMA HoldersFinite ==
    ASSUME NEW j \in Jobs
    PROVE  /\ IsFiniteSet(Holders(j)) /\ IsFiniteSet(Retriers(j))
           /\ Cardinality(Holders(j)) \in Nat /\ Cardinality(Retriers(j)) \in Nat
           /\ Cardinality(Retriers(j)) <= Cardinality(Holders(j))
  <1>1. IsFiniteSet(Workers)
    BY JobsAssumption
  <1>2. Holders(j) \in SUBSET Workers /\ Retriers(j) \in SUBSET Holders(j)
    BY DEF Holders, Retriers
  <1>3. IsFiniteSet(Holders(j))
    BY <1>1, <1>2, FS_Subset
  <1>4. IsFiniteSet(Retriers(j)) /\ Cardinality(Retriers(j)) <= Cardinality(Holders(j))
    BY <1>2, <1>3, FS_Subset
  <1> QED BY <1>3, <1>4, FS_CardinalityType

\* What a row says to the budget.
LEMMA RowTyped ==
    ASSUME TypeOK, NEW j \in Jobs
    PROVE  jobs[j].attempts \in Nat /\ jobs[j].max \in Nat /\ reclaims[j] \in Nat
  BY DEF TypeOK, Row

\* A worker lets go of what it holds.
LEMMA LettingGo ==
    ASSUME NEW w \in Workers, NEW j \in Jobs, worker'[w].pc # "working",
           \A v \in Workers \ {w} : worker'[v] = worker[v]
    PROVE  /\ Cardinality(Holders(j)') = Cardinality(Holders(j)) - (IF Holds(w, j) THEN 1 ELSE 0)
           /\ Cardinality(Retriers(j)') =
                Cardinality(Retriers(j)) - (IF Holds(w, j) /\ ~Exhausted(w) THEN 1 ELSE 0)
           /\ Holders(j) = {} => Holders(j)' = {}
  <1>1. Holders(j)' = Holders(j) \ {w}
    BY DEF Holders, Holds
  <1>2. Retriers(j)' = Retriers(j) \ {w}
    BY <1>1 DEF Retriers, Holders, Holds, Exhausted
  <1>3. w \in Holders(j) <=> Holds(w, j)
    BY DEF Holders
  <1>4. w \in Retriers(j) <=> Holds(w, j) /\ ~Exhausted(w)
    BY <1>3 DEF Retriers
  <1>5. Cardinality(Holders(j) \ {w}) =
          IF w \in Holders(j) THEN Cardinality(Holders(j)) - 1 ELSE Cardinality(Holders(j))
    BY HoldersFinite, FS_RemoveElement
  <1>6. Cardinality(Retriers(j) \ {w}) =
          IF w \in Retriers(j) THEN Cardinality(Retriers(j)) - 1 ELSE Cardinality(Retriers(j))
    BY HoldersFinite, FS_RemoveElement
  <1> QED BY <1>1, <1>2, <1>3, <1>4, <1>5, <1>6, HoldersFinite

\* A worker that held nothing takes a job.
LEMMA TakingUp ==
    ASSUME NEW w \in Workers, NEW j \in Jobs, worker[w].pc # "working", Holds(w, j)',
           \A v \in Workers \ {w} : worker'[v] = worker[v]
    PROVE  /\ Cardinality(Holders(j)') = Cardinality(Holders(j)) + 1
           /\ Cardinality(Retriers(j)') =
                Cardinality(Retriers(j)) + (IF Exhausted(w)' THEN 0 ELSE 1)
           /\ \A i \in Jobs \ {j} : Holders(i)' = Holders(i) /\ Retriers(i)' = Retriers(i)
  <1>1. Holders(j)' = Holders(j) \cup {w} /\ w \notin Holders(j)
    BY DEF Holders, Holds
  <1>2. /\ Retriers(j)' = IF Exhausted(w)' THEN Retriers(j) ELSE Retriers(j) \cup {w}
        /\ w \notin Retriers(j)
    BY <1>1 DEF Retriers, Holders, Holds, Exhausted
  <1>3. \A i \in Jobs \ {j} : Holders(i)' = Holders(i)
    BY DEF Holders, Holds
  <1>4. \A i \in Jobs \ {j} : Retriers(i)' = Retriers(i)
    BY <1>3 DEF Retriers, Holders, Holds, Exhausted
  <1>5. Cardinality(Holders(j) \cup {w}) = Cardinality(Holders(j)) + 1
    BY <1>1, HoldersFinite, FS_AddElement
  <1>6. Cardinality(Retriers(j) \cup {w}) = Cardinality(Retriers(j)) + 1
    BY <1>2, HoldersFinite, FS_AddElement
  <1> QED BY <1>1, <1>2, <1>3, <1>4, <1>5, <1>6, HoldersFinite

\* Nobody's hands change, and a row at most by a reclaim.
LEMMA RowsAlone ==
    ASSUME TypeOK, NEW j \in Jobs, Within(j),
           Holders(j)' = Holders(j), Retriers(j)' = Retriers(j),
           jobs'[j].attempts = jobs[j].attempts, jobs'[j].max = jobs[j].max,
           \/ jobs'[j].status = jobs[j].status /\ reclaims'[j] = reclaims[j]
           \/ /\ jobs[j].status = "running" /\ jobs'[j].status = "pending"
              /\ reclaims'[j] = reclaims[j] + 1
    PROVE  Within(j)'
  BY RowTyped, HoldersFinite DEF Within, Waiting

\* A worker lets go, and what it did with its row keeps the row's budget: it
\* settles the row, leaves it, or - if it may - puts it back for one more claim.
LEMMA HandsOff ==
    ASSUME TypeOK, BudgetInv, NEW w \in Workers, worker'[w].pc # "working",
           \A v \in Workers \ {w} : worker'[v] = worker[v], reclaims' = reclaims,
           NEW i \in Jobs, jobs'[i].max = jobs[i].max,
           \/ jobs'[i].status = jobs[i].status /\ jobs'[i].attempts = jobs[i].attempts
           \/ /\ Holds(w, i) /\ jobs'[i].status \in {"done", "failed"}
              /\ jobs'[i].attempts = jobs[i].attempts
           \/ /\ Holds(w, i) /\ jobs'[i].status = "pending"
              /\ \/ ~Exhausted(w) /\ jobs'[i].attempts = jobs[i].attempts
                 \/ jobs'[i].attempts = Refunded(jobs[i].attempts)
    PROVE  Within(i)'
  <1> DEFINE H == Cardinality(Holders(i))
             R == Cardinality(Retriers(i))
             heldBy == IF Holds(w, i) THEN 1 ELSE 0
             retries == IF Holds(w, i) /\ ~Exhausted(w) THEN 1 ELSE 0
  <1>1. /\ Cardinality(Holders(i)') = H - heldBy
        /\ Cardinality(Retriers(i)') = R - retries
        /\ Holders(i) = {} => Holders(i)' = {}
    BY LettingGo
  <1>2. Within(i)
    BY DEF BudgetInv
  <1>3. H \in Nat /\ R \in Nat /\ heldBy \in {0, 1} /\ retries \in {0, 1}
    BY HoldersFinite
  <1>4. jobs[i].attempts \in Nat /\ jobs[i].max \in Nat /\ reclaims[i] \in Nat
    BY RowTyped
  <1>5. Holds(w, i) => jobs[i].status # "absent" /\ heldBy = 1 /\ (~Exhausted(w) => retries = 1)
    BY <1>2 DEF Within, Holders
  <1>6. Refunded(jobs[i].attempts) \in Nat
        /\ (jobs[i].attempts > 0 => Refunded(jobs[i].attempts) = jobs[i].attempts - 1)
        /\ (jobs[i].attempts = 0 => Refunded(jobs[i].attempts) = 0)
    BY <1>4 DEF Refunded
  <1> HIDE DEF H, R, heldBy, retries
  <1>7. CASE jobs'[i].status = jobs[i].status /\ jobs'[i].attempts = jobs[i].attempts
    BY <1>1, <1>2, <1>3, <1>4, <1>7 DEF Within, Waiting, H, R
  <1>8. CASE Holds(w, i) /\ jobs'[i].status \in {"done", "failed"}
             /\ jobs'[i].attempts = jobs[i].attempts
    BY <1>1, <1>2, <1>3, <1>4, <1>5, <1>8 DEF Within, Waiting, H, R
  <1>9. CASE Holds(w, i) /\ jobs'[i].status = "pending" /\ ~Exhausted(w)
             /\ jobs'[i].attempts = jobs[i].attempts
    BY <1>1, <1>2, <1>3, <1>4, <1>5, <1>9 DEF Within, Waiting, H, R
  <1>10. CASE Holds(w, i) /\ jobs'[i].status = "pending"
              /\ jobs'[i].attempts = Refunded(jobs[i].attempts)
    BY <1>1, <1>2, <1>3, <1>4, <1>5, <1>6, <1>10 DEF Within, Waiting, H, R
  <1> QED BY <1>7, <1>8, <1>9, <1>10

\* Every step keeps every row within its budget.
LEMMA BudgetStep == TypeOK /\ TypeOK' /\ BudgetInv /\ [Next]_vars => BudgetInv'
  <1> SUFFICES ASSUME TypeOK, TypeOK', BudgetInv, [Next]_vars, NEW i \in Jobs
               PROVE  Within(i)'
    BY DEF BudgetInv
  <1>w. Within(i)
    BY DEF BudgetInv
  <1>1. ASSUME NEW j \in Jobs, NEW kind \in Kinds, NEW key \in Keys,
               NEW max \in MaxAttemptsSet, NEW delay \in DelaySet,
               Enqueue(j, kind, key, max, delay)
        PROVE  Within(i)'
    <2>1. Holders(i)' = Holders(i) /\ Retriers(i)' = Retriers(i) /\ reclaims' = reclaims
      BY <1>1 DEF Enqueue, history, Holders, Retriers, Holds, Exhausted
    <2>2. CASE i = j
      <3>1. jobs'[i].status = "pending" /\ jobs'[i].attempts = 0 /\ jobs'[i].max = max
        BY <1>1, <2>2 DEF Enqueue, NewRow, TypeOK
      <3>2. Holders(i) = {} /\ max > 0 /\ max \in Nat
        BY <1>1, <1>w, <2>2, JobsAssumption DEF Enqueue, Within
      <3>3. Cardinality(Holders(i)) = 0
        BY <3>2, FS_EmptySet
      <3> QED BY <2>1, <3>1, <3>2, <3>3, RowTyped DEF Within, Waiting
    <2>3. CASE i # j
      <3>1. jobs'[i] = jobs[i]
        BY <1>1, <2>3 DEF Enqueue, TypeOK
      <3> QED BY <1>w, <2>1, <3>1, RowsAlone
    <2> QED BY <2>2, <2>3
  <1>2. ASSUME NEW w \in Workers, StartDrain(w) PROVE Within(i)'
    <2>1. Holders(i)' = Holders(i) /\ Retriers(i)' = Retriers(i)
      <3>1. worker[w].pc = "asleep" /\ worker'[w].pc = "claiming"
            /\ \A v \in Workers \ {w} : worker'[v] = worker[v]
        BY <1>2, NullsTyped, BoundsAssumption DEF StartDrain, TypeOK
      <3>2. Holders(i)' = Holders(i)
        BY <3>1 DEF Holders, Holds
      <3> QED BY <3>1, <3>2 DEF Retriers, Holders, Holds, Exhausted
    <2>2. CASE Stalled(i)
      <3>1. jobs'[i] = Reclaimed(jobs[i]) /\ reclaims'[i] = reclaims[i] + 1
        BY <1>2, <2>2 DEF StartDrain
      <3>2. /\ jobs'[i].attempts = jobs[i].attempts /\ jobs'[i].max = jobs[i].max
            /\ jobs'[i].status = "pending" /\ jobs[i].status = "running"
        BY <2>2, <3>1 DEF Reclaimed, Stalled, TypeOK, Row
      <3> QED BY <1>w, <2>1, <3>1, <3>2, RowsAlone
    <2>3. CASE ~Stalled(i)
      <3>1. jobs'[i] = jobs[i] /\ reclaims'[i] = reclaims[i]
        BY <1>2, <2>3, RowTyped DEF StartDrain
      <3> QED BY <1>w, <2>1, <3>1, RowsAlone
    <2> QED BY <2>2, <2>3
  <1>3. ASSUME NEW w \in Workers, NEW j \in Jobs, Claim(w, j) PROVE Within(i)'
    <2>1. /\ worker[w].pc = "claiming" /\ Holds(w, j)'
          /\ worker'[w].attempts = jobs[j].attempts + 1 /\ worker'[w].max = jobs[j].max
          /\ \A v \in Workers \ {w} : worker'[v] = worker[v]
      BY <1>3 DEF Claim, Holds, TypeOK
    <2>2. /\ Cardinality(Holders(j)') = Cardinality(Holders(j)) + 1
          /\ Cardinality(Retriers(j)') =
                Cardinality(Retriers(j)) + (IF Exhausted(w)' THEN 0 ELSE 1)
          /\ \A k \in Jobs \ {j} : Holders(k)' = Holders(k) /\ Retriers(k)' = Retriers(k)
      BY <2>1, TakingUp
    <2>3. reclaims' = reclaims
      BY <1>3 DEF Claim, history
    <2>4. CASE i = j
      <3>1. /\ jobs[j].status = "pending" /\ jobs'[j].status = "running"
            /\ jobs'[j].attempts = jobs[j].attempts + 1 /\ jobs'[j].max = jobs[j].max
        BY <1>3 DEF Claim, CanClaim, Runnable, TypeOK, Row
      <3>2. Exhausted(w)' <=> jobs[j].attempts + 1 >= jobs[j].max
        BY <2>1 DEF Exhausted
      <3> QED BY <1>w, <2>2, <2>3, <2>4, <3>1, <3>2, RowTyped, HoldersFinite DEF Within, Waiting
    <2>5. CASE i # j
      <3>1. jobs'[i] = jobs[i]
        BY <1>3, <2>5 DEF Claim, TypeOK
      <3> QED BY <1>w, <2>2, <2>3, <2>5, <3>1, RowsAlone
    <2> QED BY <2>4, <2>5
  <1>4. ASSUME NEW w \in Workers, EndDrain(w) \/ Crash(w) \/ FailThrows(w) PROVE Within(i)'
    <2>1. /\ worker'[w].pc # "working" /\ \A v \in Workers \ {w} : worker'[v] = worker[v]
          /\ jobs' = jobs /\ reclaims' = reclaims
      BY <1>4, NullsTyped DEF EndDrain, Crash, FailThrows, history, TypeOK
    <2> QED BY <2>1, HandsOff
  <1>5. ASSUME NEW w \in Workers, Complete(w) \/ FailDead(w) \/ FailRetry(w) \/ FailDeferred(w)
        PROVE  Within(i)'
    <2>1. worker[w].pc = "working" /\ worker[w].job \in Jobs
      BY <1>5 DEF Complete, FailDead, FailRetry, FailDeferred, TypeOK
    <2>2. /\ worker'[w].pc # "working" /\ \A v \in Workers \ {w} : worker'[v] = worker[v]
          /\ reclaims' = reclaims
      BY <1>5, NextJobTyped, NullsTyped
         DEF Complete, FailDead, FailRetry, FailDeferred, TypeOK
    <2>3. CASE i # worker[w].job
      <3>1. jobs'[i] = jobs[i]
        BY <1>5, <2>1, <2>3 DEF Complete, FailDead, FailRetry, FailDeferred, TypeOK
      <3> QED BY <2>2, <3>1, HandsOff
    <2>4. CASE i = worker[w].job
      <3> USE <2>1, <2>4
      <3>0. Holds(w, i) /\ jobs[i] \in Row
        BY DEF Holds, TypeOK
      <3>1. CASE Complete(w) \/ FailDead(w)
        <4>1. /\ jobs'[i].status \in {"done", "failed"}
              /\ jobs'[i].attempts = jobs[i].attempts /\ jobs'[i].max = jobs[i].max
          BY <3>0, <3>1 DEF Complete, FailDead, TypeOK, Row
        <4> QED BY <2>2, <3>0, <4>1, HandsOff
      <3>2. CASE FailRetry(w)
        <4>1. ~Exhausted(w)
              /\ jobs'[i] = PutBack(jobs[i], jobs[i].attempts, Backoff(worker[w].attempts))
          BY <3>2 DEF FailRetry, TypeOK
        <4>2. /\ jobs'[i].status = "pending" /\ jobs'[i].attempts = jobs[i].attempts
              /\ jobs'[i].max = jobs[i].max
          BY <3>0, <4>1, PutBackTyped
        <4> QED BY <2>2, <3>0, <4>1, <4>2, HandsOff
      <3>3. CASE FailDeferred(w)
        <4>1. jobs'[i] = PutBack(jobs[i], Refunded(jobs[i].attempts), OutageBackoff)
          BY <3>3 DEF FailDeferred, TypeOK
        <4>2. /\ jobs'[i].status = "pending" /\ jobs'[i].attempts = Refunded(jobs[i].attempts)
              /\ jobs'[i].max = jobs[i].max
          BY <3>0, <4>1, PutBackTyped
        <4> QED BY <2>2, <3>0, <4>2, HandsOff
      <3> QED BY <1>5, <3>1, <3>2, <3>3
    <2> QED BY <2>3, <2>4
  <1>6. CASE Tick
    <2>1. \A v \in Workers : /\ worker'[v].pc = worker[v].pc /\ worker'[v].job = worker[v].job
                             /\ worker'[v].attempts = worker[v].attempts
                             /\ worker'[v].max = worker[v].max
      BY <1>6 DEF Tick, TypeOK, WorkerRec
    <2>2. Holders(i)' = Holders(i)
      BY <2>1 DEF Holders, Holds
    <2>3. Retriers(i)' = Retriers(i)
      BY <2>1, <2>2 DEF Retriers, Holders, Holds, Exhausted
    <2>4. /\ jobs'[i].status = jobs[i].status /\ jobs'[i].attempts = jobs[i].attempts
          /\ jobs'[i].max = jobs[i].max /\ reclaims' = reclaims
      BY <1>6 DEF Tick, TypeOK, Row, history
    <2> QED BY <1>w, <2>2, <2>3, <2>4, RowsAlone
  <1>7. CASE UNCHANGED vars
    <2>1. /\ Holders(i)' = Holders(i) /\ Retriers(i)' = Retriers(i)
          /\ jobs' = jobs /\ reclaims' = reclaims
      BY <1>7 DEF vars, Holders, Retriers, Holds, Exhausted
    <2> QED BY <1>w, <2>1, RowsAlone
  <1> QED BY <1>1, <1>2, <1>3, <1>4, <1>5, <1>6, <1>7 DEF Next, Finish

\* max_attempts bounds the attempts of every job up to the claims reclaimStalled
\* took back, however long handlers outlive their leases and whoever finishes last.
THEOREM BudgetHolds == Spec => []BudgetUpToReclaims
  <1>1. Init => BudgetInv
    <2> SUFFICES ASSUME Init, NEW j \in Jobs PROVE Within(j)
      BY DEF BudgetInv
    <2>1. Holders(j) = {} /\ Retriers(j) = {}
      BY NullsTyped DEF Init, Holders, Retriers, Holds
    <2>2. Cardinality(Holders(j)) = 0 /\ Cardinality(Retriers(j)) = 0
      BY <2>1, FS_EmptySet
    <2>3. jobs[j].status = "absent" /\ jobs[j].attempts = 0 /\ jobs[j].max = 0 /\ reclaims[j] = 0
      BY DEF Init, NullRow, NewRow
    <2> QED BY <2>1, <2>2, <2>3 DEF Within, Waiting
  <1>2. TypeOK /\ BudgetInv => BudgetUpToReclaims
    <2> SUFFICES ASSUME TypeOK, BudgetInv, NEW j \in Jobs
                 PROVE  jobs[j].attempts <= jobs[j].max + reclaims[j]
      BY DEF BudgetUpToReclaims
    <2>1. Within(j)
      BY DEF BudgetInv
    <2>2. Waiting(j) \in {0, 1}
      BY DEF Waiting
    <2> QED BY <2>1, <2>2, RowTyped, HoldersFinite DEF Within
  <1> QED BY <1>1, <1>2, BudgetStep, TypeCorrect, PTL DEF Spec

-----------------------------------------------------------------------------
(***************************************************************************)
(* The queue as its handlers see it: every step of it is, for each row, a  *)
(* step of OneJob or none.                                                 *)
(***************************************************************************)
\* Only a handler that finishes late makes late true, and nothing clears it.
LEMMA LateIsLate == ASSUME [Next]_vars, ~late' PROVE ~late
  BY DEF Next, Finish, Enqueue, StartDrain, Claim, EndDrain, Complete, FailDead,
         FailRetry, FailDeferred, FailThrows, Crash, Tick, NoteLate, history, vars

LEMMA LateTyped == [Next]_vars /\ TypeOK => late \in BOOLEAN /\ late' \in BOOLEAN
  BY TypeStep DEF TypeOK

\* A worker that holds nothing afterwards is struck from the holders of every row.
LEMMA HolderLetsGo ==
    ASSUME NEW w \in Workers, worker'[w].pc # "working",
           \A v \in Workers \ {w} : worker'[v] = worker[v], NEW i \in Jobs
    PROVE  HolderOf(i)' = HolderOf(i) \ {w}
  BY DEF HolderOf, Holds, Fresh

\* Until somebody is late, a row is held by at most one worker, and only while
\* it is running.
LEMMA OneHolder ==
    ASSUME TypeOK, LeaseInv, ~late, NEW i \in Jobs, NEW w \in HolderOf(i)
    PROVE  /\ HolderOf(i) = {w}
           /\ jobs[i].status = "running" /\ jobs[i].age = worker[w].age
           /\ worker[w].pc = "working" /\ worker[w].job = i /\ Fresh(w)
  BY DEF LeaseInv, SnapshotCurrent, ExclusiveClaim, HolderOf, Holds

\* A row nobody touches and whose holders stay is a stutter.
LEMMA PromiseStutters ==
    ASSUME NEW i \in Jobs, HolderOf(i)' = HolderOf(i), jobs'[i].status = jobs[i].status,
           late' = late
    PROVE  UNCHANGED Promise(i)!vars
  BY DEF Promise!vars, StatusOf

\* A worker is lost or outlives its lease: its row, if it held one, is given up.
LEMMA PromiseGivenUp ==
    ASSUME TypeOK, LeaseInv, ~late, late' = late, NEW i \in Jobs,
           jobs'[i].status = jobs[i].status,
           HolderOf(i)' = HolderOf(i) \/ (HolderOf(i) # {} /\ HolderOf(i)' = {})
    PROVE  [Promise(i)!Next]_(Promise(i)!vars)
  <1>1. CASE HolderOf(i)' = HolderOf(i)
    BY <1>1, PromiseStutters
  <1>2. CASE HolderOf(i) # {} /\ HolderOf(i)' = {}
    <2>1. jobs[i].status = "running"
      BY <1>2, OneHolder
    <2>2. Promise(i)!GiveUp
      BY <1>2, <2>1 DEF Promise!GiveUp, StatusOf
    <2> QED BY <2>2 DEF Promise!Next
  <1> QED BY <1>1, <1>2

\* Every step of the queue is a step of every row's promise.
LEMMA PromiseStep ==
    TypeOK /\ LeaseInv /\ [Next]_vars =>
        \A i \in Jobs : [Promise(i)!Next]_(Promise(i)!vars)
  <1> SUFFICES ASSUME TypeOK, LeaseInv, [Next]_vars, NEW i \in Jobs
               PROVE  [Promise(i)!Next]_(Promise(i)!vars)
    OBVIOUS
  <1>0. CASE late'
    BY <1>0, LateTyped DEF Promise!Next, Promise!Overrun
  <1> SUFFICES ASSUME ~late' PROVE [Promise(i)!Next]_(Promise(i)!vars)
    BY <1>0
  <1>a. ~late
    BY LateIsLate
  <1>b. late' = late
    BY <1>a, LateTyped
  <1>1. ASSUME NEW j \in Jobs, NEW kind \in Kinds, NEW key \in Keys,
               NEW max \in MaxAttemptsSet, NEW delay \in DelaySet,
               Enqueue(j, kind, key, max, delay)
        PROVE  [Promise(i)!Next]_(Promise(i)!vars)
    <2>1. HolderOf(i)' = HolderOf(i)
      BY <1>1 DEF Enqueue, HolderOf, Holds, Fresh
    <2>2. CASE i = j
      <3>1. StatusOf(i) = "none" /\ StatusOf(i)' = "pending"
        BY <1>1, <2>2 DEF Enqueue, StatusOf, NewRow, TypeOK
      <3>2. Promise(i)!Queue
        BY <1>b, <2>1, <3>1 DEF Promise!Queue
      <3> QED BY <3>2 DEF Promise!Next
    <2>3. CASE i # j
      <3>1. jobs'[i] = jobs[i]
        BY <1>1, <2>3 DEF Enqueue, TypeOK
      <3> QED BY <1>b, <2>1, <3>1, PromiseStutters
    <2> QED BY <2>2, <2>3
  <1>2. ASSUME NEW w \in Workers, StartDrain(w) PROVE [Promise(i)!Next]_(Promise(i)!vars)
    <2>1. HolderOf(i)' = HolderOf(i)
      <3>1. /\ worker[w].pc # "working" /\ worker'[w].pc # "working"
            /\ \A v \in Workers \ {w} : worker'[v] = worker[v]
        BY <1>2, NullsTyped, BoundsAssumption DEF StartDrain, TypeOK
      <3> QED BY <3>1 DEF HolderOf, Holds, Fresh
    <2>2. CASE Stalled(i)
      <3>1. jobs[i].status = "running" /\ jobs[i].age > Lease /\ jobs'[i].status = "pending"
        BY <1>2, <2>2 DEF StartDrain, Stalled, Reclaimed, TypeOK, Row
      <3>2. HolderOf(i) = {}
        <4> SUFFICES ASSUME NEW v \in HolderOf(i) PROVE FALSE
          OBVIOUS
        <4>1. v \in Workers /\ worker[v].age \in Nat /\ worker[v].age <= Lease
          BY <1>a, OneHolder DEF Fresh, HolderOf, TypeOK, WorkerRec
        <4>2. jobs[i].age = worker[v].age
          BY <1>a, OneHolder
        <4> QED BY <3>1, <4>1, <4>2, BoundsAssumption
      <3>3. Promise(i)!Reclaim
        BY <1>b, <2>1, <3>1, <3>2 DEF Promise!Reclaim, StatusOf
      <3> QED BY <3>3 DEF Promise!Next
    <2>3. CASE ~Stalled(i)
      <3>1. jobs'[i] = jobs[i]
        BY <1>2, <2>3 DEF StartDrain
      <3> QED BY <1>b, <2>1, <3>1, PromiseStutters
    <2> QED BY <2>2, <2>3
  <1>3. ASSUME NEW w \in Workers, NEW j \in Jobs, Claim(w, j)
        PROVE  [Promise(i)!Next]_(Promise(i)!vars)
    <2>1. /\ worker[w].pc = "claiming" /\ worker'[w].pc = "working"
          /\ worker'[w].job = j /\ worker'[w].age = 0
          /\ \A v \in Workers \ {w} : worker'[v] = worker[v]
          /\ jobs[j].status = "pending" /\ jobs'[j].status = "running"
          /\ \A k \in Jobs \ {j} : jobs'[k] = jobs[k]
      BY <1>3 DEF Claim, CanClaim, Runnable, TypeOK, Row
    <2>2. CASE i = j
      <3>1. HolderOf(i) = {}
        BY <1>a, <2>1, <2>2, OneHolder
      <3>2. HolderOf(i)' = HolderOf(i) \cup {w}
        BY <2>1, <2>2, BoundsAssumption DEF HolderOf, Holds, Fresh
      <3>3. Promise(i)!Claim(w)
        BY <1>b, <2>1, <2>2, <3>1, <3>2 DEF Promise!Claim, StatusOf
      <3> QED BY <3>3 DEF Promise!Next
    <2>3. CASE i # j
      <3>1. HolderOf(i)' = HolderOf(i)
        BY <2>1, <2>3 DEF HolderOf, Holds, Fresh
      <3> QED BY <1>b, <2>1, <2>3, <3>1, PromiseStutters
    <2> QED BY <2>2, <2>3
  <1>4. ASSUME NEW w \in Workers, EndDrain(w) \/ Crash(w)
        PROVE  [Promise(i)!Next]_(Promise(i)!vars)
    <2>1. /\ worker'[w].pc # "working" /\ \A v \in Workers \ {w} : worker'[v] = worker[v]
          /\ jobs' = jobs
      BY <1>4, NullsTyped DEF EndDrain, Crash, TypeOK
    <2>2. HolderOf(i)' = HolderOf(i) \ {w}
      BY <2>1, HolderLetsGo
    <2>3. HolderOf(i)' = HolderOf(i) \/ (HolderOf(i) # {} /\ HolderOf(i)' = {})
      BY <1>a, <2>2, OneHolder
    <2> QED BY <1>a, <1>b, <2>1, <2>3, PromiseGivenUp
  <1>5. ASSUME NEW w \in Workers, Finish(w) PROVE [Promise(i)!Next]_(Promise(i)!vars)
    <2> DEFINE j == worker[w].job
    <2>1. worker[w].pc = "working" /\ NoteLate(w)
      BY <1>5 DEF Finish, Complete, FailDead, FailRetry, FailDeferred, FailThrows
    <2>2. /\ Fresh(w) /\ j \in Jobs /\ jobs[j].status = "running"
          /\ ~FailThrows(w)
      BY <2>1, FinishFresh DEF FailThrows, Collides, Outstanding
    <2>3. /\ worker'[w].pc # "working" /\ \A v \in Workers \ {w} : worker'[v] = worker[v]
          /\ \A k \in Jobs \ {j} : jobs'[k] = jobs[k]
      BY <1>5, <2>2, NextJobTyped, NullsTyped
         DEF Finish, Complete, FailDead, FailRetry, FailDeferred, TypeOK
    <2>4. HolderOf(i)' = HolderOf(i) \ {w}
      BY <2>3, HolderLetsGo
    <2>5. CASE i = j
      <3>1. w \in HolderOf(i)
        BY <2>1, <2>2, <2>5 DEF HolderOf, Holds
      <3>2. HolderOf(i) = {w} /\ HolderOf(i)' = {}
        BY <1>a, <2>4, <3>1, OneHolder
      <3>3. jobs'[i].status \in {"done", "failed", "pending"}
        <4>1. jobs[i] \in Row
          BY DEF TypeOK
        <4>2. CASE Complete(w) \/ FailDead(w)
          BY <2>2, <2>5, <4>1, <4>2 DEF Complete, FailDead, TypeOK, Row
        <4>3. CASE FailRetry(w) \/ FailDeferred(w)
          BY <2>2, <2>5, <4>1, <4>3, PutBackTyped DEF FailRetry, FailDeferred, TypeOK
        <4> QED BY <1>5, <2>2, <4>2, <4>3 DEF Finish
      <3>4. Promise(i)!Settle(w)
        BY <1>b, <2>2, <2>5, <3>2, <3>3 DEF Promise!Settle, StatusOf
      <3> QED BY <3>4 DEF Promise!Next
    <2>6. CASE i # j
      <3>1. w \notin HolderOf(i)
        BY <2>6 DEF HolderOf, Holds
      <3> QED BY <1>b, <2>3, <2>4, <2>6, <3>1, PromiseStutters
    <2> QED BY <2>5, <2>6
  <1>6. CASE Tick
    <2>1. jobs'[i].status = jobs[i].status
      BY <1>6 DEF Tick, TypeOK, Row
    <2>2. HolderOf(i)' \subseteq HolderOf(i)
      <3> SUFFICES ASSUME NEW v \in Workers, Holds(v, i)', Fresh(v)'
                   PROVE  Holds(v, i) /\ Fresh(v)
        BY DEF HolderOf
      <3>1. worker[v] \in WorkerRec
        BY DEF TypeOK
      <3>2. CASE worker[v].pc = "working"
        <4>1. worker'[v] = [worker[v] EXCEPT !.age = Older(@)]
          BY <1>6, <3>2 DEF Tick
        <4>2. worker'[v].job = worker[v].job /\ worker'[v].age = Older(worker[v].age)
          BY <3>1, <4>1 DEF WorkerRec
        <4> QED BY <3>1, <3>2, <4>2, OlderTyped DEF Holds, Fresh, WorkerRec
      <3>3. CASE worker[v].pc # "working"
        BY <1>6, <3>3 DEF Tick, Holds
      <3> QED BY <3>2, <3>3
    <2>3. HolderOf(i)' = HolderOf(i) \/ (HolderOf(i) # {} /\ HolderOf(i)' = {})
      BY <1>a, <2>2, OneHolder
    <2> QED BY <1>a, <1>b, <2>1, <2>3, PromiseGivenUp
  <1>7. CASE UNCHANGED vars
    <2>1. HolderOf(i)' = HolderOf(i) /\ jobs' = jobs
      BY <1>7 DEF vars, HolderOf, Holds, Fresh
    <2> QED BY <1>b, <2>1, PromiseStutters
  <1> QED BY <1>1, <1>2, <1>3, <1>4, <1>5, <1>6, <1>7 DEF Next

\* The queue implements OneJob for every row: until a handler finishes after its
\* lease, one worker at a time, and an outcome only from the worker that holds the row.
THEOREM QueueKeepsPromise == Spec => JobsKeepPromise
  <1>1. Init => \A j \in Jobs : Promise(j)!Init
    <2> SUFFICES ASSUME Init, NEW j \in Jobs PROVE Promise(j)!Init
      OBVIOUS
    <2>1. HolderOf(j) = {}
      BY NullsTyped DEF Init, HolderOf, Holds
    <2>2. StatusOf(j) = "none"
      BY DEF Init, StatusOf, NullRow, NewRow
    <2> QED BY <2>1, <2>2 DEF Init, Promise!Init
  <1>2. TypeOK /\ LeaseInv /\ [Next]_vars =>
          [\A j \in Jobs : [Promise(j)!Next]_(Promise(j)!vars)]_vars
    BY PromiseStep
  <1> QED BY <1>1, <1>2, QueueInvariant, PTL DEF Spec, JobsKeepPromise

=============================================================================
