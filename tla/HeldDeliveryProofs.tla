------------------------- MODULE HeldDeliveryProofs -------------------------
(***************************************************************************)
(* Proofs about HeldDelivery, for any calendar, any number of jobs, drain  *)
(* loops and deferrals.                                                    *)
(***************************************************************************)
EXTENDS HeldDelivery, TLAPS

\* Integer division, as the keys of the jobs use it.
LEMMA DivLemma ==
    ASSUME NEW a \in Nat, NEW b \in Nat \ {0}
    PROVE  /\ a \div b \in Nat
           /\ (a \div b) * b <= a
           /\ a >= b => a \div b >= 1
  OBVIOUS

LEMMA TimesLemma ==
    ASSUME NEW d \in Int, d >= 1, NEW b \in Nat
    PROVE  d * b >= b
  OBVIOUS

-----------------------------------------------------------------------------
(* Types. *)

LEMMA EmptyTypes == Absent \in Job /\ Idle \in WorkerRec
  <1>1. Absent \in Job
    BY DEF Absent, Job
  <1>2. -1 \in Jobs \cup {-1}
    OBVIOUS
  <1>3. Idle \in WorkerRec
    BY <1>2 DEF Idle, WorkerRec
  <1> QED  BY <1>1, <1>3

\* What is scheduled waits a natural number of ticks.
LEMMA RetryNat ==
    ASSUME TypeOK, NEW reason, NEW retry \in RetryAfter(reason)
    PROVE  retry \in Nat
  <1>1. CASE reason = "capped"
    BY <1>1, HeldAssumption DEF TypeOK, RetryAfter
  <1>2. CASE reason = "address"
    BY <1>2, HeldAssumption DEF TypeOK, RetryAfter
  <1>3. CASE reason # "capped" /\ reason # "address"
    <2>1. RetryAfter(reason) = {Soon}
      BY <1>3 DEF RetryAfter
    <2> QED  BY <2>1, HeldAssumption
  <1> QED  BY <1>1, <1>2, <1>3

\* A row that is scheduled is a row, its key a day.
LEMMA ScheduleType ==
    ASSUME TypeOK, NEW retry \in Nat, NEW own, Schedule(retry, own)
    PROVE  /\ jobs' \in [Jobs -> Job]
           /\ promised' = TRUE /\ overtaken' \in BOOLEAN /\ died' \in BOOLEAN
           /\ deferrals' \in 0..MaxDeferrals
  <1>1. PICK jitter \in 0..Jitter :
          /\ deferrals < MaxDeferrals
          /\ deferrals' = deferrals + 1
          /\ promised' = TRUE
          /\ overtaken' \in BOOLEAN /\ died' \in BOOLEAN
          /\ \/ UNCHANGED jobs
             \/ jobs' = [jobs EXCEPT ![NextId] = [status |-> "pending", wait |-> retry + jitter,
                                                  day |-> KeyDay(retry + jitter)]]
    BY DEF Schedule
  <1>2. retry + jitter \in Nat /\ phase + (retry + jitter) \in Nat
    BY <1>1, HeldAssumption DEF TypeOK
  <1>3. KeyDay(retry + jitter) \in Int
    BY <1>2, DivLemma, HeldAssumption DEF KeyDay
  <1>4. jobs' \in [Jobs -> Job]
    BY <1>1, <1>2, <1>3 DEF TypeOK, Job
  <1> QED  BY <1>1, <1>4, HeldAssumption DEF TypeOK

LEMMA DeferType ==
    ASSUME TypeOK, NEW reasons, NEW own, Defer(reasons, own)
    PROVE  /\ jobs' \in [Jobs -> Job]
           /\ promised' = TRUE /\ overtaken' \in BOOLEAN /\ died' \in BOOLEAN
           /\ deferrals' \in 0..MaxDeferrals
  <1>1. PICK reason \in reasons \cap Reasons : \E retry \in RetryAfter(reason) : Schedule(retry, own)
    BY DEF Defer
  <1>2. PICK retry \in RetryAfter(reason) : Schedule(retry, own)
    BY <1>1
  <1> QED  BY <1>2, RetryNat, ScheduleType

\* Every step keeps the types.
LEMMA TypeStep ==
    ASSUME TypeOK, [Next]_vars
    PROVE  TypeOK'
  <1> USE DEF TypeOK
  <1>1. CASE Request
    <2>1. /\ jobs' \in [Jobs -> Job]
          /\ promised' = TRUE /\ overtaken' \in BOOLEAN /\ died' \in BOOLEAN
          /\ deferrals' \in 0..MaxDeferrals
      <3>1. CASE Defer({"capped", "locked"}, -1)
        BY <3>1, DeferType
      <3>2. CASE \E retry \in Soon..DayLength : Schedule(retry, -1)
        <4>1. PICK retry \in Soon..DayLength : Schedule(retry, -1)
          BY <3>2
        <4>2. retry \in Nat
          BY <4>1, HeldAssumption
        <4> QED  BY <4>1, <4>2, ScheduleType
      <3> QED  BY <1>1, <3>1, <3>2 DEF Request
    <2> QED  BY <1>1, <2>1 DEF Request, send
  <1>2. CASE SentElsewhere
    BY <1>2 DEF SentElsewhere, word
  <1>3. CASE Dismiss
    BY <1>3 DEF Dismiss, word
  <1>4. CASE PersonStops
    BY <1>4 DEF PersonStops, word
  <1>5. CASE Tick
    <2>1. phase' \in 0..(DayLength - 1)
      BY <1>5, HeldAssumption DEF Tick
    <2>2. ASSUME NEW job \in Job, NEW midnight \in BOOLEAN
          PROVE  Later(job, midnight) \in Job
      <3>1. job.status \in {"absent", "pending", "running"} /\ job.wait \in Nat /\ job.day \in Int
        BY <2>2 DEF Job
      <3>2. (IF job.wait > 0 THEN job.wait - 1 ELSE 0) \in Nat
        BY <3>1
      <3>3. (IF midnight /\ job.day >= 0 THEN job.day - 1 ELSE job.day) \in Int
        BY <3>1
      <3> QED  BY <2>2, <3>1, <3>2, <3>3 DEF Later, Job
    <2>3. jobs' \in [Jobs -> Job]
      <3>1. (phase + 1 = DayLength) \in BOOLEAN
        OBVIOUS
      <3>2. ASSUME NEW j \in Jobs
            PROVE  (IF j \in Outstanding THEN Later(jobs[j], phase + 1 = DayLength) ELSE Absent) \in Job
        BY <3>1, <2>2, EmptyTypes
      <3> QED  BY <1>5, <3>2 DEF Tick
    <2> QED  BY <1>5, <2>1, <2>3 DEF Tick, send, word
  <1>6. ASSUME NEW w \in Workers, Claim(w) \/ Complete(w) \/ Throw(w) \/ Crash(w)
        PROVE  TypeOK'
    <2>1. CASE Claim(w)
      <3>1. PICK j \in Jobs :
              /\ jobs' = [jobs EXCEPT ![j].status = "running"]
              /\ worker' = [worker EXCEPT ![w] =
                              [pc |-> "reading", job |-> j, atClaim |-> stopped \/ ~approved]]
        BY <2>1 DEF Claim
      <3>2. jobs' \in [Jobs -> Job]
        BY <3>1 DEF Job
      <3>3. (stopped \/ ~approved) \in BOOLEAN
        OBVIOUS
      <3>4. worker' \in [Workers -> WorkerRec]
        BY <3>1, <3>3 DEF WorkerRec
      <3> QED  BY <2>1, <3>2, <3>4 DEF Claim, send, word
    <2>2. CASE Complete(w)
      BY <2>2, EmptyTypes DEF Complete, send, word
    <2>3. CASE Throw(w)
      BY <2>3, EmptyTypes DEF Throw, send, word
    <2>4. CASE Crash(w)
      <3>1. crashes' \in 0..MaxCrashes
        BY <2>4, HeldAssumption DEF Crash
      <3> QED  BY <2>4, <3>1, EmptyTypes DEF Crash, send, word
    <2> QED  BY <1>6, <2>1, <2>2, <2>3, <2>4
  <1>7. ASSUME NEW w \in Workers, Read(w) \/ Ask(w) \/ Cancel(w)
        PROVE  TypeOK'
    <2>1. PICK pc \in {"asking", "cancelling", "choosing", "closing"} : Goto(w, pc)
      BY <1>7 DEF Read, Ask, Cancel, Settle
    <2>2. worker' \in [Workers -> WorkerRec]
      BY <2>1 DEF Goto, WorkerRec
    <2>3. /\ UNCHANGED <<phase, jobs, approved, stopped, deferrals, crashes>>
          /\ action' \in {action, "cancelled"}
          /\ {promised', overtaken', died'} \subseteq BOOLEAN
      BY <1>7 DEF Read, Ask, Cancel, Settle, word, send
    <2> QED  BY <2>2, <2>3
  <1>8. ASSUME NEW w \in Workers, ChooseMailbox(w)
        PROVE  TypeOK'
    <2>1. /\ jobs' \in [Jobs -> Job]
          /\ promised' \in BOOLEAN /\ overtaken' \in BOOLEAN /\ died' \in BOOLEAN
          /\ deferrals' \in 0..MaxDeferrals
      BY <1>8, DeferType DEF ChooseMailbox, Settle, word
    <2>2. worker' \in [Workers -> WorkerRec]
      BY <1>8 DEF ChooseMailbox, Settle, Goto, WorkerRec
    <2> QED  BY <1>8, <2>1, <2>2 DEF ChooseMailbox, send
  <1>9. ASSUME NEW w \in Workers, Deliver(w)
        PROVE  TypeOK'
    <2>1. /\ jobs' \in [Jobs -> Job]
          /\ promised' \in BOOLEAN /\ overtaken' \in BOOLEAN /\ died' \in BOOLEAN
          /\ deferrals' \in 0..MaxDeferrals
      BY <1>9, DeferType DEF Deliver, Settle, word
    <2>2. worker' \in [Workers -> WorkerRec]
      BY <1>9 DEF Deliver, Settle, Goto, WorkerRec
    <2>3. action' \in {"queued", "completed", "failed", "cancelled"} /\ approved' \in BOOLEAN
      BY <1>9 DEF Deliver
    <2> QED  BY <1>9, <2>1, <2>2, <2>3 DEF Deliver
  <1>10. ASSUME NEW j \in Jobs, Reclaim(j)
         PROVE  TypeOK'
    BY <1>10 DEF Reclaim, Job, send, word
  <1>11. CASE UNCHANGED vars
    BY <1>11 DEF vars
  <1> QED
    BY <1>1, <1>2, <1>3, <1>4, <1>5, <1>6, <1>7, <1>8, <1>9, <1>10, <1>11 DEF Next, Run

\* The jobs, the loops and the action are well typed, for any calendar.
THEOREM HeldTypeCorrect == Spec => []TypeOK
  <1>1. Init => TypeOK
    <2> SUFFICES ASSUME Init PROVE TypeOK
      OBVIOUS
    <2> USE DEF Init
    <2>1. /\ phase \in 0..(DayLength - 1)
          /\ deferrals \in 0..MaxDeferrals /\ crashes \in 0..MaxCrashes
      BY HeldAssumption
    <2>2. jobs \in [Jobs -> Job]
      BY EmptyTypes
    <2>3. worker \in [Workers -> WorkerRec]
      BY EmptyTypes
    <2> QED  BY <2>1, <2>2, <2>3 DEF TypeOK
  <1>2. TypeOK /\ [Next]_vars => TypeOK'
    BY TypeStep
  <1> QED  BY <1>1, <1>2, PTL DEF Spec

-----------------------------------------------------------------------------
(* Stops. *)

\* A stop is never undone, and a loop that goes on had found none: what was
\* stopped at the claim is still stopped when the facts are read again.
StopsInv ==
    \A w \in Workers :
        /\ worker[w].atClaim => stopped \/ ~approved
        /\ worker[w].pc = "asking" /\ ~stopped => ~worker[w].atClaim
        /\ worker[w].pc \in {"choosing", "sending"} => ~worker[w].atClaim

\* A send stopped before its job was claimed is never made by that job.
THEOREM HeldStopsHonoured == Spec => []StopsAreHonoured
  <1>1. Init => StopsInv
    BY DEF Init, StopsInv, Idle
  <1>2. ASSUME TypeOK, StopsInv, [Next]_vars
        PROVE  StopsInv'
    <2>1. /\ (stopped => stopped') /\ (~approved => ~approved')
          /\ approved \in BOOLEAN /\ stopped \in BOOLEAN
      BY <1>2 DEF TypeOK, Next, vars, send, word, Request, SentElsewhere, Dismiss, PersonStops, Tick, Run,
         Claim, Read, Ask, Cancel, ChooseMailbox, Deliver, Complete, Throw, Crash, Reclaim
    <2>2. CASE UNCHANGED worker
      BY <1>2, <2>1, <2>2 DEF StopsInv
    <2>3. ASSUME NEW w \in Workers, Claim(w)
          PROVE  StopsInv'
      <3>1. PICK j \in Jobs :
              worker' = [worker EXCEPT ![w] =
                           [pc |-> "reading", job |-> j, atClaim |-> stopped \/ ~approved]]
        BY <2>3 DEF Claim
      <3> QED  BY <1>2, <2>1, <3>1 DEF StopsInv, TypeOK
    <2>4. ASSUME NEW w \in Workers, Read(w)
          PROVE  StopsInv'
      <3>1. CASE MaySend /\ Goto(w, "asking")
        BY <1>2, <2>1, <3>1 DEF StopsInv, TypeOK, Goto, MaySend
      <3>2. CASE Settle(w)
        BY <1>2, <2>1, <3>2 DEF StopsInv, TypeOK, Goto, Settle
      <3> QED  BY <2>4, <3>1, <3>2 DEF Read
    <2>8. ASSUME NEW w \in Workers, Ask(w)
          PROVE  StopsInv'
      <3>1. CASE stopped /\ Goto(w, "cancelling")
        BY <1>2, <2>1, <3>1 DEF StopsInv, TypeOK, Goto
      <3>2. CASE ~stopped /\ Goto(w, "choosing")
        <4>1. ~worker[w].atClaim
          BY <1>2, <2>8, <3>2 DEF StopsInv, Ask
        <4> QED  BY <1>2, <2>1, <3>2, <4>1 DEF StopsInv, TypeOK, Goto
      <3> QED  BY <2>8, <3>1, <3>2 DEF Ask
    <2>9. ASSUME NEW w \in Workers, Cancel(w)
          PROVE  StopsInv'
      <3>1. worker' = [worker EXCEPT ![w].pc = "closing"]
        BY <2>9 DEF Cancel, Settle, Goto
      <3> QED  BY <1>2, <2>1, <3>1 DEF StopsInv, TypeOK, WorkerRec
    <2>5. ASSUME NEW w \in Workers, ChooseMailbox(w)
          PROVE  StopsInv'
      <3>1. worker[w].pc = "choosing" /\ (Goto(w, "sending") \/ Goto(w, "closing"))
        BY <2>5 DEF ChooseMailbox, Settle
      <3>2. PICK pc \in {"sending", "closing"} : worker' = [worker EXCEPT ![w].pc = pc]
        BY <3>1 DEF Goto
      <3> QED  BY <1>2, <2>1, <3>1, <3>2 DEF StopsInv, TypeOK, WorkerRec
    <2>6. ASSUME NEW w \in Workers, Deliver(w)
          PROVE  StopsInv'
      <3>1. Goto(w, "closing")
        BY <2>6 DEF Deliver, Settle
      <3>2. worker' = [worker EXCEPT ![w].pc = "closing"]
        BY <3>1 DEF Goto
      <3> QED  BY <1>2, <2>1, <3>2 DEF StopsInv, TypeOK, WorkerRec
    <2>7. ASSUME NEW w \in Workers, Complete(w) \/ Throw(w) \/ Crash(w)
          PROVE  StopsInv'
      <3>1. worker' = [worker EXCEPT ![w] = Idle]
        BY <2>7 DEF Complete, Throw, Crash
      <3> QED  BY <1>2, <2>1, <3>1 DEF StopsInv, TypeOK, Idle
    <2> QED
      BY <1>2, <2>2, <2>3, <2>4, <2>5, <2>6, <2>7, <2>8, <2>9
         DEF Next, Run, vars, Request, SentElsewhere, Dismiss, PersonStops, Tick, Reclaim
  <1>3. StopsInv => StopsAreHonoured
    BY DEF StopsInv, StopsAreHonoured
  <1> QED  BY <1>1, <1>2, <1>3, HeldTypeCorrect, PTL DEF Spec

-----------------------------------------------------------------------------
(* Promises, whatever the reasons a send is deferred for. *)

\* A loop and its row belong to each other.
OwnInv ==
    /\ \A w \in Workers : worker[w].pc # "idle" =>
         worker[w].job \in Jobs /\ jobs[worker[w].job].status = "running"
    /\ \A v, w \in Workers : v # w /\ worker[v].pc # "idle" /\ worker[w].pc # "idle" =>
         worker[v].job # worker[w].job

\* A row is of no later day than the one its wait ends in, so a row that runs
\* is of today or of a day past.
DayInv ==
    \A j \in Jobs :
        /\ jobs[j].status = "pending" /\ jobs[j].day >= 1 =>
             jobs[j].day * DayLength <= phase + jobs[j].wait
        /\ jobs[j].status = "running" => jobs[j].day <= 0

HeldInv == OwnInv /\ DayInv /\ PromiseHasLiveJob

\* What asking for a row comes to: a row of its own, of a day it can keep; or a
\* row that refuses it, not the asker's own nor done with unless it is overtaken.
LEMMA ScheduleRows ==
    ASSUME TypeOK, NEW retry \in Nat, NEW own, Schedule(retry, own)
    PROVE  /\ \A j \in Jobs : \/ jobs'[j] = jobs[j]
                              \/ /\ jobs[j].status = "absent"
                                 /\ jobs'[j].status = "pending"
                                 /\ jobs'[j].day * DayLength <= phase + jobs'[j].wait
           /\ \/ \E j \in Jobs : jobs'[j].status = "pending"
              \/ \E j \in Outstanding : j # own /\ ~Done(j) /\ jobs' = jobs
              \/ overtaken'
  <1> USE DEF TypeOK
  <1>1. PICK jitter \in 0..Jitter :
          LET wait == retry + jitter
              refusing == {j \in Outstanding : jobs[j].day = KeyDay(wait)}
          IN  /\ overtaken' = (refusing # {} /\ \A j \in refusing : j = own \/ Done(j))
              /\ \/ refusing # {} /\ UNCHANGED jobs
                 \/ /\ refusing = {}
                    /\ Outstanding # Jobs
                    /\ jobs' = [jobs EXCEPT ![NextId] = [status |-> "pending", wait |-> wait,
                                                         day |-> KeyDay(wait)]]
    BY DEF Schedule
  <1> DEFINE wait == retry + jitter
             refusing == {j \in Outstanding : jobs[j].day = KeyDay(wait)}
  <1>2. wait \in Nat /\ phase + wait \in Nat /\ DayLength \in Nat \ {0}
    BY <1>1, HeldAssumption
  <1>3. KeyDay(wait) \in Nat /\ KeyDay(wait) * DayLength <= phase + wait
    BY <1>2, DivLemma DEF KeyDay
  <1>4. CASE refusing # {} /\ UNCHANGED jobs
    <2>1. CASE \E j \in refusing : j # own /\ ~Done(j)
      <3>1. PICK j \in refusing : j # own /\ ~Done(j)
        BY <2>1
      <3> QED  BY <1>4, <3>1
    <2>2. CASE ~ \E j \in refusing : j # own /\ ~Done(j)
      <3>1. overtaken'
        BY <1>1, <1>4, <2>2
      <3> QED  BY <1>4, <3>1
    <2> QED  BY <2>1, <2>2
  <1>5. CASE /\ Outstanding # Jobs
             /\ jobs' = [jobs EXCEPT ![NextId] = [status |-> "pending", wait |-> wait,
                                                  day |-> KeyDay(wait)]]
    <2>1. \E j \in Jobs \ Outstanding : TRUE
      BY <1>5 DEF Outstanding
    <2>2. NextId \in Jobs \ Outstanding
      BY <2>1 DEF NextId
    <2>3. jobs[NextId].status = "absent"
      BY <2>2 DEF Outstanding, Job
    <2> QED  BY <1>3, <1>5, <2>2, <2>3
  <1> QED  BY <1>1, <1>4, <1>5

\* Every step keeps rows, calendar and promise.
LEMMA HeldStep ==
    ASSUME TypeOK, HeldInv, [Next]_vars
    PROVE  HeldInv'
  <1> USE DEF TypeOK
  <1>t. TypeOK'
    BY TypeStep
  <1>d. DayLength \in Nat \ {0} /\ phase \in Nat
    BY HeldAssumption
  \* What leaves the loops and the rows alone, and says nothing.
  <1>0. ASSUME UNCHANGED <<phase, jobs, worker, word>>
        PROVE  HeldInv'
    BY <1>0 DEF HeldInv, OwnInv, DayInv, PromiseHasLiveJob, Live, Done, word
  \* What moves a loop on to its next step, the rows as they were.
  <1>1. ASSUME NEW w \in Workers, NEW pc \in {"asking", "cancelling", "choosing", "sending"},
               worker[w].pc # "idle", worker[w].pc # "closing",
               worker' = [worker EXCEPT ![w].pc = pc],
               UNCHANGED <<phase, jobs, word>>
        PROVE  HeldInv'
    <2>1. \A v \in Workers : /\ worker'[v].job = worker[v].job
                             /\ worker'[v].pc = "closing" <=> worker[v].pc = "closing"
                             /\ worker'[v].pc = "idle" <=> worker[v].pc = "idle"
      BY <1>1 DEF WorkerRec
    <2>2. OwnInv' /\ DayInv'
      BY <1>1, <2>1 DEF HeldInv, OwnInv, DayInv
    <2>3. PromiseHasLiveJob'
      BY <1>1, <2>1 DEF HeldInv, PromiseHasLiveJob, Live, Done, word
    <2> QED  BY <2>2, <2>3 DEF HeldInv
  \* What closes a job with a final word.
  <1>2. ASSUME NEW w \in Workers, worker[w].pc # "idle", Settle(w), UNCHANGED <<phase, jobs>>
        PROVE  HeldInv'
    <2>1. worker' = [worker EXCEPT ![w].pc = "closing"] /\ promised' = FALSE
      BY <1>2 DEF Settle, Goto
    <2>2. \A v \in Workers : /\ worker'[v].job = worker[v].job
                             /\ worker'[v].pc = "idle" <=> worker[v].pc = "idle"
      BY <1>2, <2>1 DEF WorkerRec
    <2> QED  BY <1>2, <2>1, <2>2 DEF HeldInv, OwnInv, DayInv, PromiseHasLiveJob
  \* What defers the send, from a loop or from a request.
  <1>3. ASSUME NEW retry \in Nat, NEW own, Schedule(retry, own), UNCHANGED phase,
               \/ UNCHANGED worker
               \/ \E w \in Workers : /\ worker[w].pc # "idle" /\ worker[w].job = own
                                     /\ Goto(w, "closing")
        PROVE  HeldInv'
    <2>1. /\ \A j \in Jobs : \/ jobs'[j] = jobs[j]
                             \/ /\ jobs[j].status = "absent"
                                /\ jobs'[j].status = "pending"
                                /\ jobs'[j].day * DayLength <= phase + jobs'[j].wait
          /\ \/ \E j \in Jobs : jobs'[j].status = "pending"
             \/ \E j \in Outstanding : j # own /\ ~Done(j) /\ jobs' = jobs
             \/ overtaken'
      BY <1>3, ScheduleRows
    <2>2. \A v \in Workers : /\ worker'[v].job = worker[v].job
                             /\ worker'[v].pc = "idle" <=> worker[v].pc = "idle"
                             /\ worker'[v].pc = "closing" =>
                                  worker[v].pc = "closing" \/ worker[v].job = own
      BY <1>3 DEF Goto, WorkerRec
    <2>3. OwnInv'
      <3>1. ASSUME NEW j \in Jobs, jobs[j].status = "running"
            PROVE  jobs'[j].status = "running"
        BY <2>1, <3>1
      <3> QED  BY <2>2, <3>1 DEF HeldInv, OwnInv
    <2>4. DayInv'
      <3> SUFFICES ASSUME NEW j \in Jobs
                   PROVE  /\ jobs'[j].status = "pending" /\ jobs'[j].day >= 1 =>
                               jobs'[j].day * DayLength <= phase + jobs'[j].wait
                          /\ jobs'[j].status = "running" => jobs'[j].day <= 0
        BY <1>3 DEF DayInv
      <3> QED  BY <2>1 DEF HeldInv, DayInv
    <2>5. PromiseHasLiveJob'
      <3>1. CASE \E j \in Jobs : jobs'[j].status = "pending"
        BY <3>1 DEF PromiseHasLiveJob, Live
      <3>2. CASE \E j \in Outstanding : j # own /\ ~Done(j) /\ jobs' = jobs
        <4>1. PICK j \in Outstanding : j # own /\ ~Done(j) /\ jobs' = jobs
          BY <3>2
        <4>2. ~Done(j)'
          BY <2>2, <4>1 DEF Done
        <4>3. j \in Jobs /\ jobs[j].status \in {"pending", "running"}
          BY <4>1 DEF Outstanding, Job
        <4>4. j \in Live'
          BY <4>1, <4>2, <4>3 DEF Live
        <4> QED  BY <4>4 DEF PromiseHasLiveJob
      <3>3. CASE overtaken'
        BY <3>3 DEF PromiseHasLiveJob
      <3> QED  BY <2>1, <3>1, <3>2, <3>3
    <2> QED  BY <2>3, <2>4, <2>5 DEF HeldInv
  <1>4. CASE Request
    <2>1. CASE Defer({"capped", "locked"}, -1)
      <3>1. PICK reason \in {"capped", "locked"} \cap Reasons :
              \E retry \in RetryAfter(reason) : Schedule(retry, -1)
        BY <2>1 DEF Defer
      <3>2. PICK retry \in RetryAfter(reason) : Schedule(retry, -1)
        BY <3>1
      <3> QED  BY <1>4, <1>3, <3>2, RetryNat DEF Request
    <2>2. CASE \E retry \in Soon..DayLength : Schedule(retry, -1)
      <3>1. PICK retry \in Soon..DayLength : Schedule(retry, -1)
        BY <2>2
      <3>2. retry \in Nat
        BY <3>1, HeldAssumption
      <3> QED  BY <1>4, <1>3, <3>1, <3>2 DEF Request
    <2> QED  BY <1>4, <2>1, <2>2 DEF Request
  <1>5. CASE SentElsewhere \/ Dismiss \/ PersonStops
    BY <1>5, <1>0 DEF SentElsewhere, Dismiss, PersonStops
  <1>6. CASE UNCHANGED vars
    BY <1>6, <1>0 DEF vars, word
  \* A loop that defers goes on to close its own row.
  <1>7. ASSUME NEW w \in Workers, worker[w].pc # "idle", NEW reasons,
               Defer(reasons, worker[w].job), Goto(w, "closing"), UNCHANGED phase
        PROVE  HeldInv'
    <2>1. PICK reason \in reasons \cap Reasons :
            \E retry \in RetryAfter(reason) : Schedule(retry, worker[w].job)
      BY <1>7 DEF Defer
    <2>2. PICK retry \in RetryAfter(reason) : Schedule(retry, worker[w].job)
      BY <2>1
    <2> QED  BY <1>7, <1>3, <2>2, RetryNat
  <1>8. ASSUME NEW w \in Workers, Read(w)
        PROVE  HeldInv'
    <2>1. CASE Goto(w, "asking") /\ UNCHANGED word
      BY <1>8, <2>1, <1>1 DEF Read, Goto
    <2>2. CASE Settle(w)
      BY <1>8, <2>2, <1>2 DEF Read
    <2> QED  BY <1>8, <2>1, <2>2 DEF Read
  <1>15. ASSUME NEW w \in Workers, Ask(w) \/ Cancel(w)
         PROVE  HeldInv'
    <2>1. CASE Ask(w)
      BY <2>1, <1>1 DEF Ask, Goto
    <2>2. CASE Cancel(w)
      BY <2>2, <1>2 DEF Cancel
    <2> QED  BY <1>15, <2>1, <2>2
  <1>9. ASSUME NEW w \in Workers, ChooseMailbox(w)
        PROVE  HeldInv'
    <2>1. CASE Goto(w, "sending") /\ UNCHANGED <<jobs, word, deferrals>>
      BY <1>9, <2>1, <1>1 DEF ChooseMailbox, Goto
    <2>2. CASE Settle(w) /\ UNCHANGED <<jobs, deferrals>>
      BY <1>9, <2>2, <1>2 DEF ChooseMailbox
    <2>3. CASE Defer({"capped", "locked"}, worker[w].job) /\ Goto(w, "closing")
      BY <1>9, <2>3, <1>7 DEF ChooseMailbox
    <2> QED  BY <1>9, <2>1, <2>2, <2>3 DEF ChooseMailbox
  <1>10. ASSUME NEW w \in Workers, Deliver(w)
         PROVE  HeldInv'
    <2>1. CASE Settle(w) /\ UNCHANGED <<jobs, deferrals>>
      BY <1>10, <2>1, <1>2 DEF Deliver
    <2>2. CASE /\ Goto(w, "closing")
               /\ Defer({"address"}, worker[w].job) \/ Defer({"queue"}, worker[w].job)
      BY <1>10, <2>2, <1>7 DEF Deliver
    <2> QED  BY <1>10, <2>1, <2>2 DEF Deliver
  <1>11. ASSUME NEW w \in Workers, Claim(w)
         PROVE  HeldInv'
    <2>1. PICK j \in Jobs :
            /\ jobs[j].status = "pending" /\ jobs[j].wait = 0
            /\ jobs' = [jobs EXCEPT ![j].status = "running"]
            /\ worker' = [worker EXCEPT ![w] =
                            [pc |-> "reading", job |-> j, atClaim |-> stopped \/ ~approved]]
      BY <1>11 DEF Claim
    <2>2. worker[w].pc = "idle" /\ UNCHANGED <<phase, word>>
      BY <1>11 DEF Claim
    <2>3. OwnInv'
      BY <2>1, <2>2 DEF HeldInv, OwnInv, Job
    <2>4. jobs[j].day <= 0
      <3>1. SUFFICES ASSUME jobs[j].day >= 1 PROVE FALSE
        BY DEF Job
      <3>2. jobs[j].day * DayLength <= phase
        BY <2>1, <3>1, <1>d DEF HeldInv, DayInv
      <3>3. jobs[j].day * DayLength >= DayLength
        BY <3>1, <1>d, TimesLemma DEF Job
      <3>4. jobs[j].day * DayLength \in Int
        BY <1>d DEF Job
      <3> QED  BY <3>2, <3>3, <3>4, <1>d
    <2>5. DayInv'
      BY <2>1, <2>2, <2>4 DEF HeldInv, DayInv, Job
    <2>6. Live \subseteq Live'
      <3> SUFFICES ASSUME NEW k \in Live PROVE k \in Live'
        OBVIOUS
      <3>1. CASE k = j
        <4>1. jobs'[k].status = "running" /\ k \in Jobs
          BY <2>1, <3>1
        <4>2. ASSUME NEW v \in Workers, worker'[v].pc = "closing" PROVE worker'[v].job # k
          <5>1. v # w /\ worker[v].pc = "closing" /\ worker'[v].job = worker[v].job
            BY <2>1, <4>2
          <5> QED  BY <5>1, <3>1, <2>1 DEF HeldInv, OwnInv
        <4> QED  BY <4>1, <4>2 DEF Live, Done
      <3>2. CASE k # j
        <4>1. jobs'[k] = jobs[k] /\ k \in Jobs
          BY <2>1, <3>2 DEF Live
        <4>2. \A v \in Workers : worker'[v].pc = "closing" =>
                worker[v].pc = "closing" /\ worker'[v].job = worker[v].job
          BY <2>1
        <4> QED  BY <4>1, <4>2 DEF Live, Done
      <3> QED  BY <3>1, <3>2
    <2>7. PromiseHasLiveJob'
      BY <2>2, <2>6 DEF HeldInv, PromiseHasLiveJob, word
    <2> QED  BY <2>3, <2>5, <2>7 DEF HeldInv
  \* What frees a loop: its row goes, or stays as it was.
  <1>12. ASSUME NEW w \in Workers, Complete(w) \/ Throw(w) \/ Crash(w)
         PROVE  HeldInv'
    <2>1. /\ worker' = [worker EXCEPT ![w] = Idle]
          /\ UNCHANGED phase
          /\ worker[w].pc # "idle"
          /\ jobs' = [jobs EXCEPT ![worker[w].job] = Absent] \/ UNCHANGED jobs
      BY <1>12 DEF Complete, Throw, Crash
    <2>2. worker[w].job \in Jobs
      BY <2>1 DEF HeldInv, OwnInv
    <2>3. OwnInv'
      BY <2>1, <2>2 DEF HeldInv, OwnInv, Idle
    <2>4. DayInv'
      BY <2>1, <2>2 DEF HeldInv, DayInv, Absent
    <2>5. PromiseHasLiveJob'
      <3>1. CASE Throw(w)
        BY <3>1 DEF Throw, PromiseHasLiveJob
      <3>2. CASE Complete(w) \/ Crash(w)
        <4>1. UNCHANGED word
          BY <3>2 DEF Complete, Crash
        <4>2. Live \subseteq Live'
          <5> SUFFICES ASSUME NEW k \in Live PROVE k \in Live'
            OBVIOUS
          <5>1. k \in Jobs /\ jobs'[k] = jobs[k]
            BY <3>2, <2>1, <2>2 DEF Complete, Crash, Live, Done, HeldInv, OwnInv
          <5>2. \A v \in Workers : worker'[v].pc = "closing" =>
                  worker[v].pc = "closing" /\ worker'[v].job = worker[v].job
            BY <2>1 DEF Idle
          <5> QED  BY <5>1, <5>2 DEF Live, Done
        <4> QED  BY <4>1, <4>2 DEF HeldInv, PromiseHasLiveJob, word
      <3> QED  BY <1>12, <3>1, <3>2
    <2> QED  BY <2>3, <2>4, <2>5 DEF HeldInv
  <1>13. ASSUME NEW j \in Jobs, Reclaim(j)
         PROVE  HeldInv'
    <2>1. /\ jobs[j].status = "running" /\ jobs' = [jobs EXCEPT ![j].status = "pending"]
          /\ \A w \in Workers : worker[w].job # j
          /\ UNCHANGED <<phase, worker>>
      BY <1>13 DEF Reclaim
    <2>2. OwnInv'
      BY <2>1 DEF HeldInv, OwnInv
    <2>3. DayInv'
      BY <2>1 DEF HeldInv, DayInv, Job
    <2>4. j \in Live'
      BY <2>1 DEF Live, Job
    <2>5. PromiseHasLiveJob'
      BY <2>4 DEF PromiseHasLiveJob
    <2> QED  BY <2>2, <2>3, <2>5 DEF HeldInv
  <1>14. CASE Tick
    <2> DEFINE midnight == phase + 1 = DayLength
    <2>1. /\ phase' = IF midnight THEN 0 ELSE phase + 1
          /\ jobs' = [j \in Jobs |-> IF j \in Outstanding THEN Later(jobs[j], midnight) ELSE Absent]
          /\ UNCHANGED <<worker, word>>
      BY <1>14 DEF Tick
    <2>2. \A j \in Jobs :
            /\ jobs'[j].status = jobs[j].status
            /\ jobs[j].status # "absent" =>
                 /\ jobs'[j].wait = IF jobs[j].wait > 0 THEN jobs[j].wait - 1 ELSE 0
                 /\ jobs'[j].day = IF midnight /\ jobs[j].day >= 0 THEN jobs[j].day - 1 ELSE jobs[j].day
      BY <2>1 DEF Later, Absent, Outstanding, Job
    <2>3. OwnInv' /\ PromiseHasLiveJob'
      <3>1. Live' = Live
        BY <2>1, <2>2 DEF Live, Done
      <3> QED  BY <2>1, <2>2, <3>1 DEF HeldInv, OwnInv, PromiseHasLiveJob, word
    <2>4. DayInv'
      <3> SUFFICES ASSUME NEW j \in Jobs
                   PROVE  /\ jobs'[j].status = "pending" /\ jobs'[j].day >= 1 =>
                               jobs'[j].day * DayLength <= phase' + jobs'[j].wait
                          /\ jobs'[j].status = "running" => jobs'[j].day <= 0
        BY DEF DayInv
      <3> DEFINE d == jobs[j].day
                 t == jobs[j].wait
      <3>1. d \in Int /\ t \in Nat
        BY DEF Job
      <3>2. jobs'[j].status = "running" => jobs'[j].day <= 0
        BY <2>2, <3>1 DEF HeldInv, DayInv
      <3>3. ASSUME jobs'[j].status = "pending", jobs'[j].day >= 1
            PROVE  jobs'[j].day * DayLength <= phase' + jobs'[j].wait
        <4>1. /\ jobs[j].status = "pending" /\ d >= 1
              /\ jobs'[j].wait = IF t > 0 THEN t - 1 ELSE 0
              /\ jobs'[j].day = IF midnight THEN d - 1 ELSE d
          BY <2>2, <3>1, <3>3
        <4>2. d * DayLength <= phase + t
          BY <4>1 DEF HeldInv, DayInv
        <4>3. d * DayLength >= DayLength /\ d * DayLength \in Int
          BY <3>1, <4>1, <1>d, TimesLemma
        <4>4. phase < DayLength
          BY <1>d
        <4>5. t > 0
          BY <4>2, <4>3, <4>4, <3>1, <1>d
        <4>6. CASE midnight
          <5>1. (d - 1) * DayLength = d * DayLength - DayLength
            BY <3>1, <1>d
          <5> QED  BY <2>1, <4>1, <4>2, <4>3, <4>5, <4>6, <5>1, <3>1, <1>d
        <4>7. CASE ~midnight
          BY <2>1, <4>1, <4>2, <4>3, <4>5, <4>7, <3>1, <1>d
        <4> QED  BY <4>6, <4>7
      <3> QED  BY <3>2, <3>3
    <2> QED  BY <2>3, <2>4 DEF HeldInv
  <1> QED
    BY <1>4, <1>5, <1>6, <1>8, <1>9, <1>10, <1>11, <1>12, <1>13, <1>14, <1>15
       DEF Next, Run

\* Rows, calendar and promise hold together in every reachable state.
LEMMA HeldInvariant == Spec => [](TypeOK /\ HeldInv)
  <1>1. Init => HeldInv
    BY DEF Init, HeldInv, OwnInv, DayInv, PromiseHasLiveJob, Absent, Idle
  <1>2. TypeOK /\ HeldInv /\ [Next]_vars => HeldInv'
    BY HeldStep
  <1> QED  BY <1>1, <1>2, HeldTypeCorrect, PTL DEF Spec

\* A promise has a job that will still be run, whatever the sends are put off
\* for, unless the row that refused it was already done with or a job of it died.
THEOREM PromisesHaveLiveJobs == Spec => []PromiseHasLiveJob
  BY HeldInvariant, PTL DEF HeldInv

-----------------------------------------------------------------------------
(* Promises, when a send is deferred only until the caps reset. *)

\* Before the first deferral there is nothing; and no promise is overtaken.
FirstInv == deferrals = 0 => Outstanding = {} /\ \A w \in Workers : worker[w].pc = "idle"
CappedInv == FirstInv /\ ~overtaken

\* A deferral until the caps reset is to a later day, so that the row which
\* refuses it can only be a waiting one.
LEMMA CappedSchedule ==
    ASSUME TypeOK, HeldInv, NEW own, own \in Jobs => jobs[own].status = "running",
           Schedule(DayLength - phase, own)
    PROVE  ~overtaken' /\ deferrals' # 0
  <1> USE DEF TypeOK
  <1>1. PICK jitter \in 0..Jitter :
          LET wait == DayLength - phase + jitter
              refusing == {j \in Outstanding : jobs[j].day = KeyDay(wait)}
          IN  /\ deferrals' = deferrals + 1
              /\ overtaken' = (refusing # {} /\ \A j \in refusing : j = own \/ Done(j))
    BY DEF Schedule
  <1> DEFINE wait == DayLength - phase + jitter
             refusing == {j \in Outstanding : jobs[j].day = KeyDay(wait)}
  <1>2. wait \in Nat /\ phase + wait \in Nat /\ phase + wait >= DayLength /\ DayLength \in Nat \ {0}
    BY <1>1, HeldAssumption
  <1>3. KeyDay(wait) \in Nat /\ KeyDay(wait) >= 1
    BY <1>2, DivLemma DEF KeyDay
  <1>4. ASSUME NEW j \in refusing PROVE j # own /\ ~Done(j)
    <2>1. j \in Jobs /\ jobs[j].status # "running"
      BY <1>3, <1>4 DEF HeldInv, DayInv, Outstanding
    <2> QED  BY <2>1 DEF Done, HeldInv, OwnInv
  <1>5. deferrals' # 0
    BY <1>1, HeldAssumption
  <1> QED  BY <1>1, <1>4, <1>5

LEMMA CappedDefer ==
    ASSUME TypeOK, HeldInv, Reasons \subseteq {"capped"}, NEW reasons, NEW own,
           own \in Jobs => jobs[own].status = "running", Defer(reasons, own)
    PROVE  ~overtaken' /\ deferrals' # 0
  <1>1. PICK reason \in reasons \cap Reasons :
          \E retry \in RetryAfter(reason) : Schedule(retry, own)
    BY DEF Defer
  <1>2. Schedule(DayLength - phase, own)
    BY <1>1 DEF RetryAfter
  <1> QED  BY <1>2, CappedSchedule

\* No step overtakes a promise when the only deferrals are to the next day.
LEMMA CappedStep ==
    ASSUME TypeOK, HeldInv, CappedInv, Reasons \subseteq {"capped"}, [Next]_vars
    PROVE  CappedInv'
  <1> USE DEF CappedInv
  \* What adds no row and takes up none.
  <1>0. ASSUME ~overtaken', UNCHANGED deferrals, Outstanding' \subseteq Outstanding,
               \A w \in Workers : worker[w].pc = "idle" => worker'[w].pc = "idle"
        PROVE  CappedInv'
    BY <1>0 DEF FirstInv
  <1>1. CASE Request
    <2>1. CASE Defer({"capped", "locked"}, -1)
      BY <2>1, CappedDefer, HeldAssumption DEF FirstInv
    <2>2. CASE deferrals = 0 /\ \E retry \in Soon..DayLength : Schedule(retry, -1)
      <3>1. Outstanding = {}
        BY <2>2 DEF FirstInv
      <3>2. PICK retry \in Soon..DayLength : Schedule(retry, -1)
        BY <2>2
      <3>3. ~overtaken' /\ deferrals' = deferrals + 1
        BY <3>1, <3>2 DEF Schedule
      <3> QED  BY <2>2, <3>3 DEF FirstInv
    <2> QED  BY <1>1, <2>1, <2>2 DEF Request
  <1>2. CASE SentElsewhere \/ Dismiss \/ PersonStops \/ UNCHANGED vars
    BY <1>2, <1>0 DEF SentElsewhere, Dismiss, PersonStops, vars, word, Outstanding
  <1>3. ASSUME NEW w \in Workers,
               Read(w) \/ Ask(w) \/ Cancel(w) \/ ChooseMailbox(w) \/ Deliver(w)
        PROVE  CappedInv'
    <2>1. worker[w].pc # "idle"
      BY <1>3 DEF Read, Ask, Cancel, ChooseMailbox, Deliver
    <2>2. jobs[worker[w].job].status = "running"
      BY <2>1 DEF HeldInv, OwnInv
    <2>3. CASE \E reasons \in {{"capped", "locked"}, {"address"}, {"queue"}} :
                  Defer(reasons, worker[w].job)
      BY <2>2, <2>3, CappedDefer DEF FirstInv
    <2>4. CASE /\ UNCHANGED <<jobs, deferrals>>
               /\ ~overtaken'
               /\ \E pc \in {"asking", "cancelling", "choosing", "sending", "closing"} : Goto(w, pc)
      <3>1. \A v \in Workers : worker[v].pc = "idle" => worker'[v].pc = "idle"
        BY <2>1, <2>4 DEF Goto, TypeOK, WorkerRec
      <3> QED  BY <1>0, <2>4, <3>1 DEF Outstanding
    <2>5. CASE Read(w) \/ Ask(w) \/ Cancel(w)
      BY <2>4, <2>5 DEF Read, Ask, Cancel, Settle, word
    <2>6. CASE ChooseMailbox(w)
      BY <2>3, <2>4, <2>6 DEF ChooseMailbox, Settle, word
    <2>7. CASE Deliver(w)
      BY <2>3, <2>4, <2>7 DEF Deliver, Settle
    <2> QED  BY <1>3, <2>5, <2>6, <2>7
  <1>4. ASSUME NEW w \in Workers, Claim(w)
        PROVE  CappedInv'
    <2>1. Outstanding # {} /\ UNCHANGED <<overtaken, deferrals>>
      BY <1>4 DEF Claim, Outstanding, word
    <2> QED  BY <2>1 DEF FirstInv
  <1>5. ASSUME NEW w \in Workers, Complete(w) \/ Throw(w) \/ Crash(w)
        PROVE  CappedInv'
    <2>1. Outstanding' \subseteq Outstanding
      <3>1. jobs' = [jobs EXCEPT ![worker[w].job] = Absent] \/ UNCHANGED jobs
        BY <1>5 DEF Complete, Throw, Crash
      <3> QED  BY <3>1 DEF Outstanding, Absent, TypeOK
    <2>2. ~overtaken' /\ UNCHANGED deferrals /\ worker' = [worker EXCEPT ![w] = Idle]
      BY <1>5 DEF Complete, Throw, Crash, word
    <2> QED  BY <1>0, <2>1, <2>2 DEF TypeOK, Idle
  <1>6. ASSUME NEW j \in Jobs, Reclaim(j)
        PROVE  CappedInv'
    BY <1>6, <1>0 DEF Reclaim, word, Outstanding, TypeOK
  <1>7. CASE Tick
    <2>1. Outstanding' \subseteq Outstanding
      BY <1>7 DEF Tick, Outstanding, Absent
    <2> QED  BY <1>7, <1>0, <2>1 DEF Tick, word
  <1> QED  BY <1>1, <1>2, <1>3, <1>4, <1>5, <1>6, <1>7 DEF Next, Run

\* When sends are deferred only until the caps reset, no promise is left without
\* a job unless one died of an error, for any calendar, jitter, number of loops and
\* deferrals.
THEOREM CappedPromisesKept ==
    ASSUME Reasons \subseteq {"capped"}
    PROVE  Spec => [](~died => PromiseHasJob)
  <1>1. Init => CappedInv
    BY DEF Init, CappedInv, FirstInv, Outstanding, Absent, Idle
  <1>2. TypeOK /\ HeldInv /\ CappedInv /\ [Next]_vars => CappedInv'
    BY CappedStep
  <1>3. HeldInv /\ CappedInv => (~died => PromiseHasJob)
    BY DEF HeldInv, CappedInv, PromiseHasLiveJob, PromiseHasJob, Live, Outstanding
  <1> QED  BY <1>1, <1>2, <1>3, HeldInvariant, PTL DEF Spec

-----------------------------------------------------------------------------
(* The rows as the job queue promises them to their handlers. *)

\* A row whose status and holders stay is a stutter.
LEMMA PromiseStutters ==
    ASSUME NEW i \in Jobs, HolderOf(i)' = HolderOf(i), jobs'[i].status = jobs[i].status
    PROVE  UNCHANGED Promise(i)!vars
  BY DEF Promise!vars, StatusOf

\* A row has at most one holder, and has one only while it runs.
LEMMA OneHolder ==
    ASSUME OwnInv, NEW i \in Jobs, NEW w \in HolderOf(i)
    PROVE  HolderOf(i) = {w} /\ jobs[i].status = "running"
  BY DEF OwnInv, HolderOf

\* A loop that keeps its row, and rows that keep their status or are inserted.
LEMMA PromiseQueues ==
    ASSUME NEW i \in Jobs, HolderOf(i)' = HolderOf(i),
           \/ jobs'[i].status = jobs[i].status
           \/ jobs[i].status = "absent" /\ jobs'[i].status = "pending"
    PROVE  [Promise(i)!Next]_(Promise(i)!vars)
  <1>1. CASE jobs'[i].status = jobs[i].status
    BY <1>1, PromiseStutters
  <1>2. CASE jobs[i].status = "absent" /\ jobs'[i].status = "pending"
    <2>1. Promise(i)!Queue
      BY <1>2 DEF Promise!Queue, StatusOf
    <2> QED  BY <2>1 DEF Promise!Next
  <1> QED  BY <1>1, <1>2

\* A row that is asked for is inserted or nothing is.
LEMMA DeferRows ==
    ASSUME TypeOK, NEW reasons, NEW own, Defer(reasons, own), NEW i \in Jobs
    PROVE  \/ jobs'[i].status = jobs[i].status
           \/ jobs[i].status = "absent" /\ jobs'[i].status = "pending"
  <1>1. PICK reason \in reasons \cap Reasons :
          \E retry \in RetryAfter(reason) : Schedule(retry, own)
    BY DEF Defer
  <1>2. PICK retry \in RetryAfter(reason) : Schedule(retry, own)
    BY <1>1
  <1> QED  BY <1>2, RetryNat, ScheduleRows

\* Every step of the deliveries is a step of every row's promise.
LEMMA PromiseStep ==
    TypeOK /\ HeldInv /\ [Next]_vars =>
        \A i \in Jobs : [Promise(i)!Next]_(Promise(i)!vars)
  <1> SUFFICES ASSUME TypeOK, HeldInv, [Next]_vars, NEW i \in Jobs
               PROVE  [Promise(i)!Next]_(Promise(i)!vars)
    OBVIOUS
  <1> USE DEF TypeOK
  <1>0. OwnInv
    BY DEF HeldInv
  <1>1. CASE Request
    <2>1. HolderOf(i)' = HolderOf(i)
      BY <1>1 DEF Request, HolderOf
    <2>2. CASE Defer({"capped", "locked"}, -1)
      BY <2>1, <2>2, DeferRows, PromiseQueues
    <2>3. CASE \E retry \in Soon..DayLength : Schedule(retry, -1)
      <3>1. PICK retry \in Soon..DayLength : Schedule(retry, -1)
        BY <2>3
      <3>2. retry \in Nat
        BY <3>1, HeldAssumption
      <3> QED  BY <2>1, <3>1, <3>2, ScheduleRows, PromiseQueues
    <2> QED  BY <1>1, <2>2, <2>3 DEF Request
  <1>2. CASE SentElsewhere \/ Dismiss \/ PersonStops \/ UNCHANGED vars
    <2>1. HolderOf(i)' = HolderOf(i) /\ jobs' = jobs
      BY <1>2 DEF SentElsewhere, Dismiss, PersonStops, vars, HolderOf
    <2> QED  BY <2>1, PromiseStutters
  <1>3. ASSUME NEW w \in Workers,
               Read(w) \/ Ask(w) \/ Cancel(w) \/ ChooseMailbox(w) \/ Deliver(w)
        PROVE  [Promise(i)!Next]_(Promise(i)!vars)
    <2>1. /\ worker[w].pc # "idle"
          /\ \E pc \in {"asking", "cancelling", "choosing", "sending", "closing"} : Goto(w, pc)
      BY <1>3 DEF Read, Ask, Cancel, ChooseMailbox, Deliver, Settle
    <2>2. HolderOf(i)' = HolderOf(i)
      BY <2>1 DEF Goto, HolderOf, WorkerRec
    <2>3. \/ jobs'[i].status = jobs[i].status
          \/ jobs[i].status = "absent" /\ jobs'[i].status = "pending"
      BY <1>3, DeferRows DEF Read, Ask, Cancel, ChooseMailbox, Deliver
    <2> QED  BY <2>2, <2>3, PromiseQueues
  <1>4. ASSUME NEW w \in Workers, Claim(w)
        PROVE  [Promise(i)!Next]_(Promise(i)!vars)
    <2>1. PICK j \in Jobs :
            /\ jobs[j].status = "pending"
            /\ jobs' = [jobs EXCEPT ![j].status = "running"]
            /\ worker' = [worker EXCEPT ![w] =
                            [pc |-> "reading", job |-> j, atClaim |-> stopped \/ ~approved]]
      BY <1>4 DEF Claim
    <2>2. worker[w].pc = "idle"
      BY <1>4 DEF Claim
    <2>3. CASE i = j
      <3>1. HolderOf(i) = {}
        BY <1>0, <2>1, <2>3, OneHolder
      <3>2. HolderOf(i)' = HolderOf(i) \cup {w}
        BY <2>1, <2>3 DEF HolderOf
      <3>3. jobs'[i].status = "running"
        BY <2>1, <2>3
      <3>4. Promise(i)!Claim(w)
        BY <2>1, <2>3, <3>1, <3>2, <3>3 DEF Promise!Claim, StatusOf
      <3> QED  BY <3>4 DEF Promise!Next
    <2>4. CASE i # j
      <3>1. HolderOf(i)' = HolderOf(i)
        BY <2>1, <2>2, <2>4 DEF HolderOf
      <3> QED  BY <2>1, <2>4, <3>1, PromiseStutters
    <2> QED  BY <2>3, <2>4
  \* What frees a loop: its row is settled, or given up.
  <1>5. ASSUME NEW w \in Workers, Complete(w) \/ Throw(w) \/ Crash(w)
        PROVE  [Promise(i)!Next]_(Promise(i)!vars)
    <2>1. worker[w].pc # "idle" /\ worker' = [worker EXCEPT ![w] = Idle]
      BY <1>5 DEF Complete, Throw, Crash
    <2>2. HolderOf(i)' = HolderOf(i) \ {w}
      BY <2>1 DEF HolderOf, Idle
    <2>3. CASE worker[w].job = i
      <3>1. HolderOf(i) = {w} /\ jobs[i].status = "running" /\ HolderOf(i)' = {}
        <4>1. w \in HolderOf(i)
          BY <2>1, <2>3 DEF HolderOf
        <4> QED  BY <1>0, <2>2, <4>1, OneHolder
      <3>2. CASE Crash(w)
        <4>1. Promise(i)!GiveUp
          BY <3>1, <3>2 DEF Promise!GiveUp, StatusOf, Crash
        <4> QED  BY <4>1 DEF Promise!Next
      <3>3. CASE Complete(w) \/ Throw(w)
        <4>1. StatusOf(i) = "running" /\ StatusOf(i)' = "none"
          BY <2>3, <3>1, <3>3 DEF Complete, Throw, StatusOf, Absent
        <4>2. Promise(i)!Settle(w)
          BY <3>1, <4>1 DEF Promise!Settle
        <4> QED  BY <4>2 DEF Promise!Next
      <3> QED  BY <1>5, <3>2, <3>3
    <2>4. CASE worker[w].job # i
      <3>1. HolderOf(i)' = HolderOf(i)
        BY <2>2, <2>4 DEF HolderOf
      <3>2. jobs'[i] = jobs[i]
        BY <1>5, <2>4 DEF Complete, Throw, Crash
      <3> QED  BY <3>1, <3>2, PromiseStutters
    <2> QED  BY <2>3, <2>4
  <1>6. ASSUME NEW j \in Jobs, Reclaim(j)
        PROVE  [Promise(i)!Next]_(Promise(i)!vars)
    <2>1. HolderOf(i)' = HolderOf(i)
      BY <1>6 DEF Reclaim, HolderOf
    <2>2. CASE i = j
      <3>1. HolderOf(i) = {} /\ jobs[i].status = "running" /\ jobs'[i].status = "pending"
        BY <1>6, <2>2 DEF Reclaim, HolderOf
      <3>2. Promise(i)!Reclaim
        BY <2>1, <3>1 DEF Promise!Reclaim, StatusOf
      <3> QED  BY <3>2 DEF Promise!Next
    <2>3. CASE i # j
      BY <1>6, <2>1, <2>3, PromiseStutters DEF Reclaim
    <2> QED  BY <2>2, <2>3
  <1>7. CASE Tick
    <2>1. HolderOf(i)' = HolderOf(i)
      BY <1>7 DEF Tick, HolderOf
    <2>2. jobs'[i].status = jobs[i].status
      BY <1>7 DEF Tick, Later, Absent, Outstanding, Job
    <2> QED  BY <2>1, <2>2, PromiseStutters
  <1> QED  BY <1>1, <1>2, <1>3, <1>4, <1>5, <1>6, <1>7 DEF Next, Run

\* The deliveries use each row as OneJob promises it, so that what the job queue
\* keeps for every row is what they were checked against.
THEOREM DeliveriesTrustQueue == Spec => JobsKeepPromise
  <1>1. Init => \A j \in Jobs : Promise(j)!Init
    BY DEF Init, Promise!Init, StatusOf, HolderOf, Absent, Idle
  <1>2. TypeOK /\ HeldInv /\ [Next]_vars =>
          [\A j \in Jobs : [Promise(j)!Next]_(Promise(j)!vars)]_vars
    BY PromiseStep
  <1> QED  BY <1>1, <1>2, HeldInvariant, PTL DEF Spec, JobsKeepPromise
=============================================================================
