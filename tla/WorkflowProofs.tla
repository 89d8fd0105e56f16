---------------------------- MODULE WorkflowProofs ----------------------------
(***************************************************************************)
(* Proofs about Workflow, for any graph of steps, any number of workers,   *)
(* attempts, slots, requests and failures.                                 *)
(***************************************************************************)
EXTENDS Workflow, TLAPS

Executing == {"check", "record", "finish"}

\* What the fields of a worker say where it stands.
Shape(w) ==
    LET me == worker[w] IN
    /\ me.at \in 0..MaxSlots
    /\ me.pc \in {"claim", "start", "insert"} =>
         /\ me.why = "slot" => me.slot[1] = kind /\ me.slot[2] \in 1..MaxSlots
         /\ me.why = "retry" => me.of \in 1..Len(runs)
    /\ me.pc = "claim" /\ me.why # "slot" => me.of \in 1..Len(runs)
    /\ me.pc \in Executing =>
         /\ me.run \in 1..Len(runs)
         /\ runs[me.run].slot = me.slot /\ runs[me.run].attempt = me.attempt
    /\ me.run # 0 => me.pc \in Executing
    /\ me.pc \in {"check", "record"} => me.node \in Nodes
    /\ me.pc \in {"idle", "claim", "start", "insert"} => me.node = 1 /\ me.out = Idle.out
    /\ me.pc = "record" => me.node \in SideEffects

\* A run that waits for its retry is not at its last attempt.
Waiting == \A r \in 1..Len(runs) : runs[r].status = "retry_scheduled" => runs[r].attempt < MaxAttempts

Typed == TypeOK /\ Waiting /\ \A w \in Workers : Shape(w)

LEMMA IdleType == Idle \in WorkerRec
  <1>1. <<"manual", 0>> \in Slots /\ 1 \in 1..MaxAttempts /\ 1 \in Nat
    BY WorkflowAssumption DEF Slots
  <1> QED  BY <1>1 DEF Idle, WorkerRec, Results

LEMMA TypedInit == Init => Typed
  <1> SUFFICES ASSUME Init PROVE Typed
    OBVIOUS
  <1>1. TypeOK
    BY IdleType, WorkflowAssumption DEF Init, TypeOK
  <1>2. Len(runs) = 0
    BY DEF Init
  <1>3. \A w \in Workers : Shape(w)
    <2>1. /\ Idle.pc = "idle" /\ Idle.at = 0 /\ Idle.run = 0 /\ Idle.node = 1
      BY DEF Idle
    <2>2. \A w \in Workers : worker[w] = Idle
      BY DEF Init
    <2>3. \A w \in Workers : /\ worker[w].pc = "idle" /\ worker[w].at = 0 /\ worker[w].run = 0
                             /\ worker[w].node = 1 /\ worker[w].out = Idle.out
      BY <2>1, <2>2
    <2>4. 0 \in 0..MaxSlots
      BY WorkflowAssumption
    <2> QED  BY <2>3, <2>4 DEF Shape, Executing
  <1> QED  BY <1>1, <1>2, <1>3 DEF Typed, Waiting

\* A worker that moves alone leaves the others as they were.
LEMMA Moved ==
    ASSUME TypeOK, NEW w \in Workers, NEW rec \in WorkerRec, worker' = [worker EXCEPT ![w] = rec]
    PROVE  /\ worker' \in [Workers -> WorkerRec] /\ worker'[w] = rec
           /\ \A v \in Workers \ {w} : worker'[v] = worker[v]
  BY DEF TypeOK

\* Runs that only change status are the same runs.
LEMMA StatusType ==
    ASSUME TypeOK, NEW r \in 1..Len(runs), NEW status \in Statuses, SetStatus(r, status)
    PROVE  /\ runs' \in Seq(Run) /\ Len(runs') = Len(runs)
           /\ \A q \in 1..Len(runs) : /\ runs'[q].slot = runs[q].slot
                                      /\ runs'[q].attempt = runs[q].attempt
                                      /\ runs'[q].status = IF q = r THEN status ELSE runs[q].status
  <1>1. runs \in Seq(Run) /\ \A q \in 1..Len(runs) : runs[q] \in Run
    BY DEF TypeOK
  <1>2. [runs[r] EXCEPT !.status = status] \in Run
    BY <1>1 DEF Run
  <1>3. runs' = [runs EXCEPT ![r] = [runs[r] EXCEPT !.status = status]]
    BY DEF SetStatus
  <1>4. runs' \in Seq(Run) /\ Len(runs') = Len(runs)
    BY <1>1, <1>2, <1>3
  <1>5. \A q \in 1..Len(runs) : runs'[q] = IF q = r THEN [runs[r] EXCEPT !.status = status] ELSE runs[q]
    BY <1>1, <1>3
  <1> QED  BY <1>1, <1>4, <1>5 DEF Run

\* A claim being taken up.
LEMMA Asked ==
    ASSUME Typed, NEW w \in Workers, NEW pc \in {"claim", "start"},
           NEW why \in {"slot", "retry", "manual", "resume"}, NEW slot \in Slots,
           NEW attempt \in 1..MaxAttempts, NEW of \in 0..Len(runs), Ask(w, pc, why, slot, attempt, of),
           why = "slot" => slot[1] = kind /\ slot[2] \in 1..MaxSlots,
           why = "retry" => of # 0, pc = "claim" /\ why # "slot" => of # 0,
           UNCHANGED <<kind, runs>>
    PROVE  worker' \in [Workers -> WorkerRec] /\ \A v \in Workers : Shape(v)'
  <1> DEFINE rec == [Idle EXCEPT !.pc = pc, !.why = why, !.slot = slot, !.attempt = attempt, !.of = of]
  <1>1. rec \in WorkerRec
    <2>1. of \in Nat
      BY DEF Typed, TypeOK
    <2>2. Idle \in WorkerRec
      BY IdleType
    <2> QED  BY <2>1, <2>2 DEF WorkerRec
  <1>2. worker' = [worker EXCEPT ![w] = rec]
    BY DEF Ask
  <1>3. /\ worker' \in [Workers -> WorkerRec] /\ worker'[w] = rec
        /\ \A v \in Workers \ {w} : worker'[v] = worker[v]
    BY <1>1, <1>2, Moved DEF Typed
  <1>4. /\ rec.pc = pc /\ rec.why = why /\ rec.slot = slot /\ rec.of = of /\ rec.at = 0
        /\ rec.run = 0 /\ rec.node = 1 /\ rec.out = Idle.out
    BY DEF Idle
  <1>5. Shape(w)'
    BY <1>3, <1>4, WorkflowAssumption, SMTT(30) DEF Shape, Executing, Typed, TypeOK
  <1>6. \A v \in Workers \ {w} : Shape(v)'
    BY <1>3 DEF Shape, Typed
  <1> QED  BY <1>3, <1>5, <1>6

\* A worker that stands still keeps its shape while runs are added or change
\* status.
LEMMA StillShaped ==
    ASSUME Typed, NEW w \in Workers, worker'[w] = worker[w], kind' = kind,
           Len(runs') \in Nat, Len(runs) <= Len(runs'),
           \A q \in 1..Len(runs) : runs'[q].slot = runs[q].slot /\ runs'[q].attempt = runs[q].attempt
    PROVE  Shape(w)'
  <1>1. Shape(w) /\ Len(runs) \in Nat
    BY DEF Typed, TypeOK
  <1>2. 1..Len(runs) \subseteq 1..Len(runs')
    BY <1>1
  <1> QED  BY <1>1, <1>2 DEF Shape

\* Leaving, and moving on, with what is known of the worker.
LEMMA Left ==
    ASSUME Typed, NEW w \in Workers, Leave(w)
    PROVE  /\ worker' \in [Workers -> WorkerRec] /\ Shape(w)'
           /\ \A v \in Workers \ {w} : worker'[v] = worker[v]
  <1>1. /\ worker' \in [Workers -> WorkerRec] /\ worker'[w] = Idle
        /\ \A v \in Workers \ {w} : worker'[v] = worker[v]
    BY IdleType, Moved DEF Leave, Typed
  <1>2. /\ worker'[w].pc = "idle" /\ worker'[w].at = 0 /\ worker'[w].run = 0
        /\ worker'[w].node = 1 /\ worker'[w].out = Idle.out
    BY <1>1 DEF Idle
  <1>3. 0 \in 0..MaxSlots
    BY WorkflowAssumption
  <1> QED  BY <1>1, <1>2, <1>3 DEF Shape, Executing

LEMMA Stepped ==
    ASSUME Typed, NEW w \in Workers, worker[w].pc \in {"check", "record"},
           NEW result \in Results, Step(w, result), UNCHANGED <<kind, runs>>
    PROVE  /\ worker' \in [Workers -> WorkerRec] /\ Shape(w)'
           /\ \A v \in Workers \ {w} : worker'[v] = worker[v]
           /\ worker'[w].slot = worker[w].slot /\ worker'[w].run = worker[w].run
           /\ worker'[w].attempt = worker[w].attempt
           /\ worker[w].node \in Nodes /\ worker'[w].node = worker[w].node + 1
           /\ worker'[w].out = [worker[w].out EXCEPT ![worker[w].node] = result]
           /\ worker'[w].pc = IF worker[w].node = Last THEN "finish" ELSE "check"
  <1> DEFINE n == worker[w].node
             rec == [worker[w] EXCEPT !.pc = IF n = Last THEN "finish" ELSE "check",
                                      !.node = n + 1, !.out = [worker[w].out EXCEPT ![n] = result]]
  <1>1. worker[w] \in WorkerRec /\ Shape(w) /\ n \in Nodes /\ n \in Nat /\ Last \in Nat
    BY WorkflowAssumption DEF Typed, TypeOK, Shape, Nodes
  <1>2. [worker[w].out EXCEPT ![n] = result] \in [Nodes -> Results]
    BY <1>1 DEF WorkerRec
  <1>3. rec \in WorkerRec
    <2>1. (IF n = Last THEN "finish" ELSE "check") \in {"finish", "check"} /\ n + 1 \in Nat
      BY <1>1
    <2> QED  BY <1>1, <1>2, <2>1 DEF WorkerRec
  <1>4. worker' = [worker EXCEPT ![w] = rec]
    BY DEF Step
  <1>5. /\ worker' \in [Workers -> WorkerRec] /\ worker'[w] = rec
        /\ \A v \in Workers \ {w} : worker'[v] = worker[v]
    BY <1>3, <1>4, Moved DEF Typed
  <1>6. /\ rec.slot = worker[w].slot /\ rec.run = worker[w].run /\ rec.attempt = worker[w].attempt
        /\ rec.at = worker[w].at /\ rec.node = n + 1
        /\ rec.out = [worker[w].out EXCEPT ![n] = result]
        /\ rec.pc = IF n = Last THEN "finish" ELSE "check"
    BY <1>1 DEF WorkerRec
  <1>7. rec.pc = "check" => n + 1 \in Nodes
    BY <1>1, <1>6 DEF Nodes
  <1>8. Shape(w)'
    BY <1>1, <1>5, <1>6, <1>7 DEF Shape, Executing
  <1> QED  BY <1>1, <1>5, <1>6, <1>8

-----------------------------------------------------------------------------
(* Types. *)

LEMMA TypedAsk ==
    ASSUME Typed, NEW w \in Workers, SeeSlot(w) \/ SeeRetry(w) \/ Request(w)
    PROVE  Typed'
  <1>1. /\ UNCHANGED <<trigger, runs, effects, history>> /\ turns' \in 0..MaxTurns
        /\ Len(runs) \in Nat
    BY WorkflowAssumption DEF SeeSlot, SeeRetry, Request, Turn, Typed, TypeOK
  <1>2. /\ kind' = kind /\ 1 \in 1..MaxAttempts /\ 0 \in 0..Len(runs)
        /\ \A r \in 1..Len(runs) : /\ runs[r].slot \in Slots /\ runs[r].attempt \in 1..MaxAttempts
                                   /\ r \in 0..Len(runs) /\ r # 0
    <2>1. \A r \in 1..Len(runs) : runs[r] \in Run
      BY DEF Typed, TypeOK
    <2> QED  BY <1>1, <2>1, WorkflowAssumption DEF trigger, Run
  <1>3. worker' \in [Workers -> WorkerRec] /\ \A v \in Workers : Shape(v)'
    <2>1. CASE SeeSlot(w)
      <3>1. PICK k \in {<<"schedule", next>>, <<"event", arrived>>} :
              Ask(w, "claim", "slot", k, 1, 0) /\ k[1] = kind /\ k[2] \in 1..MaxSlots
        BY <2>1 DEF SeeSlot, Typed, TypeOK
      <3>2. k \in Slots
        BY <3>1, WorkflowAssumption DEF Slots, Typed, TypeOK
      <3> QED  BY <1>1, <1>2, <3>1, <3>2, Asked
    <2>2. CASE SeeRetry(w)
      <3>1. PICK r \in 1..Len(runs) : /\ runs[r].status = "retry_scheduled"
                                     /\ Ask(w, "claim", "retry", runs[r].slot, runs[r].attempt + 1, r)
        BY <2>2 DEF SeeRetry
      <3>2. runs[r].attempt + 1 \in 1..MaxAttempts
        BY <1>2, <3>1, WorkflowAssumption DEF Typed, Waiting
      <3> QED  BY <1>1, <1>2, <3>1, <3>2, Asked
    <2>3. CASE Request(w)
      <3>1. <<"manual", turns'>> \in Slots
        BY <1>1 DEF Slots
      <3>2. CASE Ask(w, "start", "manual", <<"manual", turns'>>, 1, 0)
        BY <1>1, <1>2, <3>1, <3>2, Asked
      <3>3. ASSUME NEW r \in 1..Len(runs), NEW pc \in {"start", "claim"},
                   Ask(w, pc, "resume", runs[r].slot, 1, r)
            PROVE  worker' \in [Workers -> WorkerRec] /\ \A v \in Workers : Shape(v)'
        BY <1>1, <1>2, <3>3, Asked
      <3> QED  BY <2>3, <3>2, <3>3 DEF Request
    <2> QED  BY <2>1, <2>2, <2>3
  <1>4. TypeOK'
    BY <1>1, <1>3 DEF Typed, TypeOK, trigger, history
  <1> QED  BY <1>1, <1>3, <1>4 DEF Typed, Waiting

\* Moving to a field of the record that says nothing new about runs.
LEMMA Shifted ==
    ASSUME Typed, NEW w \in Workers, worker[w].pc \in {"claim", "start"},
           NEW pc \in {"start", "insert"}, NEW at \in 0..MaxSlots,
           worker' = [worker EXCEPT ![w].pc = pc, ![w].at = at],
           kind' = kind, Len(runs') = Len(runs)
    PROVE  /\ worker' \in [Workers -> WorkerRec] /\ Shape(w)'
           /\ \A v \in Workers \ {w} : worker'[v] = worker[v]
  <1> DEFINE rec == [worker[w] EXCEPT !.pc = pc, !.at = at]
  <1>1. worker[w] \in WorkerRec /\ Shape(w) /\ at \in Nat
    BY WorkflowAssumption DEF Typed, TypeOK
  <1>2. rec \in WorkerRec
    BY <1>1 DEF WorkerRec
  <1>3. worker' = [worker EXCEPT ![w] = rec]
    OBVIOUS
  <1>4. /\ worker' \in [Workers -> WorkerRec] /\ worker'[w] = rec
        /\ \A v \in Workers \ {w} : worker'[v] = worker[v]
    BY <1>2, <1>3, Moved DEF Typed
  <1>5. /\ rec.pc = pc /\ rec.at = at /\ rec.why = worker[w].why /\ rec.slot = worker[w].slot
        /\ rec.of = worker[w].of /\ rec.run = worker[w].run /\ rec.node = worker[w].node
        /\ rec.out = worker[w].out
    BY <1>1 DEF WorkerRec
  <1>6. Shape(w)'
    BY <1>1, <1>4, <1>5 DEF Shape, Executing
  <1> QED  BY <1>4, <1>6

LEMMA Shifted1 ==
    ASSUME Typed, NEW w \in Workers, worker[w].pc = "claim", Set(w, "start"),
           kind' = kind, Len(runs') = Len(runs)
    PROVE  /\ worker' \in [Workers -> WorkerRec] /\ Shape(w)'
           /\ \A v \in Workers \ {w} : worker'[v] = worker[v]
  <1>1. worker[w] \in WorkerRec /\ worker[w].at \in 0..MaxSlots /\ worker \in [Workers -> WorkerRec]
    BY DEF Typed, TypeOK, Shape
  <1>2. [worker[w] EXCEPT !.pc = "start"] = [worker[w] EXCEPT !.pc = "start", !.at = worker[w].at]
    BY <1>1 DEF WorkerRec
  <1>3. worker' = [worker EXCEPT ![w].pc = "start", ![w].at = worker[w].at]
    BY <1>1, <1>2 DEF Set
  <1> QED  BY <1>1, <1>3, Shifted

LEMMA TypedClaim ==
    ASSUME Typed, NEW w \in Workers, ClaimSlot(w) \/ ClaimRetry(w) \/ Start(w)
    PROVE  Typed'
  <1>1. Len(runs) \in Nat
    BY DEF Typed, TypeOK
  <1>2. CASE ClaimSlot(w)
    <2>1. /\ UNCHANGED <<kind, active, arrived, runs, effects, history, turns>>
          /\ worker[w].pc = "claim" /\ worker[w].why = "slot" /\ (Set(w, "start") \/ Leave(w))
      BY <1>2 DEF ClaimSlot
    <2>2. /\ worker' \in [Workers -> WorkerRec] /\ Shape(w)'
          /\ \A v \in Workers \ {w} : worker'[v] = worker[v]
      BY <2>1, Shifted1, Left
    <2>3. \A v \in Workers \ {w} : Shape(v)'
      BY <1>1, <2>1, <2>2, StillShaped
    <2>4. worker[w].slot[2] \in 1..MaxSlots
      BY <2>1 DEF Typed, Shape
    <2>5. next' \in 0..MaxSlots /\ gone' \in 0..MaxSlots /\ last' \in 0..MaxSlots
      BY <1>2, <2>4, WorkflowAssumption DEF ClaimSlot, Typed, TypeOK
    <2>6. TypeOK'
      BY <2>1, <2>2, <2>5 DEF Typed, TypeOK, history
    <2> QED  BY <2>1, <2>2, <2>3, <2>6 DEF Typed, Waiting
  <1>3. CASE ClaimRetry(w)
    <2>1. /\ UNCHANGED <<trigger, effects, history, turns>>
          /\ worker[w].pc = "claim" /\ worker[w].why # "slot" /\ (Set(w, "start") \/ Leave(w))
          /\ UNCHANGED runs \/ SetStatus(worker[w].of, "failed")
      BY <1>3 DEF ClaimRetry
    <2>2. worker[w].of \in 1..Len(runs)
      BY <2>1 DEF Typed, Shape
    <2>3. /\ runs' \in Seq(Run) /\ Len(runs') = Len(runs)
          /\ \A q \in 1..Len(runs) : /\ runs'[q].slot = runs[q].slot
                                     /\ runs'[q].attempt = runs[q].attempt
                                     /\ runs'[q].status \in {runs[q].status, "failed"}
      <3>1. CASE UNCHANGED runs
        BY <3>1 DEF Typed, TypeOK
      <3>2. CASE SetStatus(worker[w].of, "failed")
        <4>1. "failed" \in Statuses
          BY DEF Statuses
        <4> QED  BY <2>2, <3>2, <4>1, StatusType DEF Typed
      <3> QED  BY <2>1, <3>1, <3>2
    <2>4. /\ worker' \in [Workers -> WorkerRec] /\ Shape(w)'
          /\ \A v \in Workers \ {w} : worker'[v] = worker[v]
      BY <2>1, <2>3, Shifted1, Left DEF trigger
    <2>5. \A v \in Workers \ {w} : Shape(v)'
      BY <1>1, <2>1, <2>3, <2>4, StillShaped DEF trigger
    <2>6. TypeOK'
      BY <2>1, <2>3, <2>4 DEF Typed, TypeOK, trigger, history
    <2> QED  BY <2>3, <2>4, <2>5, <2>6 DEF Typed, Waiting
  <1>4. CASE Start(w)
    <2>1. /\ UNCHANGED <<trigger, runs, effects, history, turns>> /\ worker[w].pc = "start"
          /\ \/ Leave(w)
             \/ worker' = [worker EXCEPT ![w].pc = "insert", ![w].at = arrived]
      BY <1>4 DEF Start
    <2>2. arrived \in 0..MaxSlots /\ kind' = kind
      BY <2>1 DEF Typed, TypeOK, trigger
    <2>3. /\ worker' \in [Workers -> WorkerRec] /\ Shape(w)'
          /\ \A v \in Workers \ {w} : worker'[v] = worker[v]
      BY <2>1, <2>2, Shifted, Left
    <2>4. \A v \in Workers \ {w} : Shape(v)'
      BY <1>1, <2>1, <2>2, <2>3, StillShaped
    <2>5. TypeOK'
      BY <2>1, <2>3 DEF Typed, TypeOK, trigger, history
    <2> QED  BY <2>1, <2>3, <2>4, <2>5 DEF Typed, Waiting
  <1> QED  BY <1>2, <1>3, <1>4

\* What the new row and its worker look like.
LEMMA Inserted ==
    ASSUME Typed, NEW w \in Workers, InsertRun(w)
    PROVE  /\ runs' \in Seq(Run) /\ Len(runs') = Len(runs) + 1 /\ Len(runs) \in Nat
           /\ \A q \in 1..Len(runs) : runs'[q] = runs[q]
           /\ runs'[Len(runs) + 1] = [slot |-> worker[w].slot, attempt |-> worker[w].attempt,
                                      status |-> "running"]
           /\ worker' \in [Workers -> WorkerRec] /\ Shape(w)'
           /\ \A v \in Workers \ {w} : worker'[v] = worker[v]
           /\ worker'[w].pc = "check" /\ worker'[w].run = Len(runs) + 1
           /\ worker'[w].slot = worker[w].slot /\ worker'[w].node = 1 /\ worker'[w].out = Idle.out
  <1> DEFINE row == [slot |-> worker[w].slot, attempt |-> worker[w].attempt, status |-> "running"]
             rec == [worker[w] EXCEPT !.pc = "check", !.run = Len(runs) + 1, !.of = 0]
  <1>1. worker[w] \in WorkerRec /\ Shape(w) /\ worker[w].pc = "insert" /\ kind' = kind
    BY DEF InsertRun, Typed, TypeOK, trigger
  <1>2. row \in Run
    BY <1>1 DEF Run, WorkerRec, Statuses
  <1>3. runs' = Append(runs, row) /\ runs \in Seq(Run)
    BY DEF InsertRun, Typed, TypeOK
  <1>4. /\ runs' \in Seq(Run) /\ Len(runs') = Len(runs) + 1 /\ Len(runs) \in Nat
        /\ \A q \in 1..Len(runs) : runs'[q] = runs[q]
        /\ runs'[Len(runs) + 1] = row
    BY <1>2, <1>3
  <1>5. rec \in WorkerRec
    <2>1. Len(runs) + 1 \in Nat /\ 0 \in Nat /\ worker[w] \in WorkerRec
      BY <1>1, <1>4
    <2> HIDE DEF row
    <2> QED  BY <2>1 DEF WorkerRec
  <1>6. worker' = [worker EXCEPT ![w] = rec]
    BY DEF InsertRun
  <1>7. /\ worker' \in [Workers -> WorkerRec] /\ worker'[w] = rec
        /\ \A v \in Workers \ {w} : worker'[v] = worker[v]
    BY <1>5, <1>6, Moved DEF Typed
  <1>8. /\ rec.pc = "check" /\ rec.run = Len(runs) + 1 /\ rec.at = worker[w].at
        /\ rec.slot = worker[w].slot /\ rec.attempt = worker[w].attempt
        /\ rec.node = 1 /\ rec.out = Idle.out
    BY <1>1 DEF WorkerRec, Shape
  <1>9. Shape(w)'
    <2>1. 1 \in Nodes /\ Len(runs) + 1 \in 1..Len(runs')
      BY <1>4, WorkflowAssumption DEF Nodes
    <2> QED  BY <1>1, <1>4, <1>7, <1>8, <2>1 DEF Shape, Executing
  <1> QED  BY <1>4, <1>7, <1>8, <1>9

LEMMA TypedInsert ==
    ASSUME Typed, NEW w \in Workers, InsertRun(w)
    PROVE  Typed'
  <1>1. /\ UNCHANGED <<trigger, effects, again, unsure, rewound, revived, stopped, turns>>
        /\ beside' \subseteq Slots
    BY DEF InsertRun, Typed, TypeOK, WorkerRec
  <1>2. /\ runs' \in Seq(Run) /\ Len(runs') = Len(runs) + 1 /\ Len(runs) \in Nat
        /\ \A q \in 1..Len(runs) : runs'[q] = runs[q]
        /\ runs'[Len(runs) + 1] = [slot |-> worker[w].slot, attempt |-> worker[w].attempt,
                                   status |-> "running"]
        /\ worker' \in [Workers -> WorkerRec] /\ Shape(w)'
        /\ \A v \in Workers \ {w} : worker'[v] = worker[v]
    BY Inserted
  <1>3. \A v \in Workers \ {w} : Shape(v)'
    <2>1. kind' = kind /\ Len(runs') \in Nat /\ Len(runs) <= Len(runs')
      BY <1>1, <1>2 DEF trigger
    <2> QED  BY <1>2, <2>1, StillShaped
  <1>4. 1..Len(runs) \subseteq 1..Len(runs')
    BY <1>2
  <1>5. TypeOK'
    BY <1>1, <1>2, <1>4 DEF Typed, TypeOK, trigger
  <1>6. Waiting'
    <2>1. \A r \in 1..Len(runs') : r \in 1..Len(runs) \/ r = Len(runs) + 1
      BY <1>2
    <2> QED  BY <1>2, <2>1 DEF Waiting, Typed
  <1> QED  BY <1>2, <1>3, <1>5, <1>6 DEF Typed

\* About to record what the step did.
LEMMA Recording ==
    ASSUME Typed, NEW w \in Workers, worker[w].pc = "check", HasEffect(w), Set(w, "record"),
           UNCHANGED <<kind, runs>>
    PROVE  /\ worker' \in [Workers -> WorkerRec] /\ Shape(w)'
           /\ \A v \in Workers \ {w} : worker'[v] = worker[v]
           /\ worker'[w].pc = "record" /\ worker'[w].slot = worker[w].slot
           /\ worker'[w].run = worker[w].run /\ worker'[w].node = worker[w].node
           /\ worker'[w].out = worker[w].out
  <1> DEFINE rec == [worker[w] EXCEPT !.pc = "record"]
  <1>1. worker[w] \in WorkerRec /\ Shape(w)
    BY DEF Typed, TypeOK
  <1>2. rec \in WorkerRec
    BY <1>1 DEF WorkerRec
  <1>3. worker' = [worker EXCEPT ![w] = rec]
    BY DEF Set
  <1>4. /\ worker' \in [Workers -> WorkerRec] /\ worker'[w] = rec
        /\ \A v \in Workers \ {w} : worker'[v] = worker[v]
    BY <1>2, <1>3, Moved DEF Typed
  <1>5. /\ rec.pc = "record" /\ rec.run = worker[w].run /\ rec.at = worker[w].at
        /\ rec.slot = worker[w].slot /\ rec.attempt = worker[w].attempt
        /\ rec.node = worker[w].node /\ rec.out = worker[w].out
    BY <1>1 DEF WorkerRec
  <1>6. Shape(w)'
    BY <1>1, <1>4, <1>5 DEF Shape, Executing, HasEffect
  <1> QED  BY <1>4, <1>5, <1>6

\* A step either has a result, or is about to be recorded.
LEMMA RunStepCases ==
    ASSUME Typed, NEW w \in Workers, RunStep(w)
    PROVE  /\ worker[w].pc = "check"
           /\ \/ /\ \E result \in Results : Step(w, result)
                 /\ \/ again' = again /\ unsure' = unsure
                    \/ HasEffect(w) /\ Change(w) /\ Key(w) \notin effects
                       /\ unsure' = unsure \cup {Key(w)}
              \/ /\ HasEffect(w) /\ Set(w, "record") /\ Key(w) \notin effects
                 /\ Change(w) /\ unsure' = unsure
           /\ UNCHANGED <<trigger, runs, effects, beside, started, restarted, rewound, revived, stopped>>
           /\ turns' \in 0..MaxTurns
  <1>1. \A x \in {"cancelled", "blocked", "done", "failed"} : x \in Results
    BY DEF Results
  <1>2. turns' \in 0..MaxTurns
    BY WorkflowAssumption DEF RunStep, Act, Turn, Typed, TypeOK
  <1> QED  BY <1>1, <1>2 DEF RunStep, Act, Replayed

LEMMA TypedRunStep ==
    ASSUME Typed, NEW w \in Workers, RunStep(w)
    PROVE  Typed'
  <1>1. kind' = kind /\ runs' = runs /\ Len(runs) \in Nat
    BY RunStepCases DEF trigger, Typed, TypeOK
  <1>2. /\ worker' \in [Workers -> WorkerRec] /\ Shape(w)'
        /\ \A v \in Workers \ {w} : worker'[v] = worker[v]
    BY <1>1, RunStepCases, Stepped, Recording
  <1>3. \A v \in Workers \ {w} : Shape(v)'
    BY <1>1, <1>2, StillShaped
  <1>4. HasEffect(w) => Key(w) \in Slots \X SideEffects
    <2>1. worker[w] \in WorkerRec
      BY DEF Typed, TypeOK
    <2> QED  BY <2>1 DEF HasEffect, Key, WorkerRec
  <1>5. again' \subseteq Slots \X SideEffects /\ unsure' \subseteq Slots \X SideEffects
    BY <1>4, RunStepCases DEF Change, Typed, TypeOK
  <1>6. TypeOK'
    BY <1>2, <1>5, RunStepCases DEF Typed, TypeOK, trigger
  <1> QED  BY <1>1, <1>2, <1>3, <1>6 DEF Typed, Waiting

LEMMA RecordKey ==
    ASSUME Typed, NEW w \in Workers, worker[w].pc = "record"
    PROVE  Key(w) \in Slots \X SideEffects
  <1>1. worker[w] \in WorkerRec /\ worker[w].node \in SideEffects
    BY DEF Typed, TypeOK, Shape
  <1> QED  BY <1>1 DEF Key, WorkerRec

LEMMA TypedRecord ==
    ASSUME Typed, NEW w \in Workers, Record(w)
    PROVE  Typed'
  <1>1. /\ worker[w].pc = "record" /\ Step(w, "done") /\ effects' = effects \cup {Key(w)}
        /\ UNCHANGED <<trigger, runs, history, turns>> /\ kind' = kind /\ Len(runs) \in Nat
    BY DEF Record, trigger, Typed, TypeOK
  <1>2. /\ worker' \in [Workers -> WorkerRec] /\ Shape(w)'
        /\ \A v \in Workers \ {w} : worker'[v] = worker[v]
    BY <1>1, Stepped DEF Results
  <1>3. \A v \in Workers \ {w} : Shape(v)'
    BY <1>1, <1>2, StillShaped
  <1>4. TypeOK'
    BY <1>1, <1>2, RecordKey DEF Typed, TypeOK, trigger, history
  <1> QED  BY <1>1, <1>2, <1>3, <1>4 DEF Typed, Waiting

\* Which outcome a run has.
LEMMA OutcomeType ==
    ASSUME Typed, NEW w \in Workers
    PROVE  /\ Outcome(w) \in Statuses \ {"running"}
           /\ Outcome(w) = "retry_scheduled" => worker[w].attempt < MaxAttempts
  BY DEF Outcome, Statuses

\* The end of a run: its row has the outcome, its worker lets go of it.
LEMMA Finished ==
    ASSUME Typed, NEW w \in Workers, Finish(w)
    PROVE  /\ worker[w].run \in 1..Len(runs)
           /\ runs' \in Seq(Run) /\ Len(runs') = Len(runs) /\ Len(runs) \in Nat
           /\ \A q \in 1..Len(runs) :
                /\ runs'[q].slot = runs[q].slot /\ runs'[q].attempt = runs[q].attempt
                /\ runs'[q].status = IF q = worker[w].run THEN Outcome(w) ELSE runs[q].status
           /\ worker' \in [Workers -> WorkerRec] /\ Shape(w)'
           /\ \A v \in Workers \ {w} : worker'[v] = worker[v]
           /\ worker'[w].pc = "after" /\ worker'[w].run = 0
  <1> DEFINE r == worker[w].run
             rec == [Idle EXCEPT !.pc = "after", !.at = worker[w].at]
  <1>1. /\ worker[w] \in WorkerRec /\ Shape(w) /\ worker[w].pc = "finish" /\ kind' = kind
        /\ SetStatus(r, Outcome(w)) /\ worker' = [worker EXCEPT ![w] = rec] /\ Len(runs) \in Nat
    BY DEF Finish, Typed, TypeOK, trigger
  <1>2. r \in 1..Len(runs)
    BY <1>1 DEF Shape, Executing
  <1>3. Outcome(w) \in Statuses
    BY OutcomeType
  <1>4. /\ runs' \in Seq(Run) /\ Len(runs') = Len(runs)
        /\ \A q \in 1..Len(runs) :
             /\ runs'[q].slot = runs[q].slot /\ runs'[q].attempt = runs[q].attempt
             /\ runs'[q].status = IF q = r THEN Outcome(w) ELSE runs[q].status
    BY <1>1, <1>2, <1>3, StatusType DEF Typed
  <1>5. rec \in WorkerRec
    <2>1. Idle \in WorkerRec /\ worker[w].at \in Nat
      BY <1>1, IdleType DEF WorkerRec
    <2> QED  BY <2>1 DEF WorkerRec
  <1>6. /\ worker' \in [Workers -> WorkerRec] /\ worker'[w] = rec
        /\ \A v \in Workers \ {w} : worker'[v] = worker[v]
    BY <1>1, <1>5, Moved DEF Typed
  <1>7. rec.pc = "after" /\ rec.run = 0 /\ rec.at = worker[w].at
    BY DEF Idle
  <1>8. Shape(w)'
    BY <1>1, <1>6, <1>7 DEF Shape, Executing
  <1> QED  BY <1>1, <1>2, <1>4, <1>6, <1>7, <1>8

LEMMA TypedFinish ==
    ASSUME Typed, NEW w \in Workers, Finish(w)
    PROVE  Typed'
  <1> DEFINE r == worker[w].run
  <1>1. /\ UNCHANGED <<trigger, effects, again, beside, unsure, started, restarted, rewound, stopped, turns>>
        /\ revived' \in {revived, revived \cup {r}}
    BY DEF Finish
  <1>2. /\ r \in 1..Len(runs)
        /\ runs' \in Seq(Run) /\ Len(runs') = Len(runs) /\ Len(runs) \in Nat
        /\ \A q \in 1..Len(runs) :
             /\ runs'[q].slot = runs[q].slot /\ runs'[q].attempt = runs[q].attempt
             /\ runs'[q].status = IF q = r THEN Outcome(w) ELSE runs[q].status
        /\ worker' \in [Workers -> WorkerRec] /\ Shape(w)'
        /\ \A v \in Workers \ {w} : worker'[v] = worker[v]
    BY Finished
  <1>3. \A v \in Workers \ {w} : Shape(v)'
    <2>1. kind' = kind
      BY <1>1 DEF trigger
    <2> QED  BY <1>2, <2>1, StillShaped
  <1>4. Outcome(w) = "retry_scheduled" => runs[r].attempt < MaxAttempts
    <2>1. worker[w].pc = "finish" /\ Shape(w)
      BY DEF Finish, Typed
    <2>2. runs[r].attempt = worker[w].attempt
      BY <2>1 DEF Shape, Executing
    <2> QED  BY <2>2, OutcomeType
  <1>5. Waiting'
    BY <1>2, <1>4 DEF Waiting, Typed
  <1>6. TypeOK'
    BY <1>1, <1>2 DEF Typed, TypeOK, trigger
  <1> QED  BY <1>2, <1>3, <1>5, <1>6 DEF Typed

LEMMA TypedLeave ==
    ASSUME Typed, NEW w \in Workers, Settle(w) \/ Crash(w)
    PROVE  Typed'
  <1>1. /\ Leave(w) /\ UNCHANGED <<kind, active, next, gone, arrived, effects, again, beside, revived, stopped>>
        /\ Len(runs) \in Nat /\ turns' \in 0..MaxTurns
    BY WorkflowAssumption DEF Settle, Crash, Turn, trigger, Typed, TypeOK
  <1>2. last' \in 0..MaxSlots
    <2>1. Shape(w) /\ last \in 0..MaxSlots
      BY DEF Typed, TypeOK
    <2> QED  BY <2>1 DEF Settle, Crash, trigger, Shape
  <1>3. unsure' \subseteq Slots \X SideEffects
    BY RecordKey DEF Settle, Crash, Typed, TypeOK
  <1>4. /\ worker' \in [Workers -> WorkerRec] /\ Shape(w)'
        /\ \A v \in Workers \ {w} : worker'[v] = worker[v]
    BY <1>1, Left
  <1>5. /\ runs' \in Seq(Run) /\ Len(runs') = Len(runs)
        /\ \A q \in 1..Len(runs) :
             /\ runs'[q].slot = runs[q].slot /\ runs'[q].attempt = runs[q].attempt
             /\ runs'[q].status \in {runs[q].status, "failed"}
    <2>1. CASE UNCHANGED runs
      BY <2>1 DEF Typed, TypeOK
    <2>2. CASE worker[w].run # 0 /\ SetStatus(worker[w].run, "failed")
      <3>1. worker[w].run \in 1..Len(runs) /\ "failed" \in Statuses
        BY <2>2 DEF Typed, Shape, Statuses
      <3> QED  BY <2>2, <3>1, StatusType DEF Typed
    <2> QED  BY <2>1, <2>2 DEF Settle, Crash
  <1>6. \A v \in Workers \ {w} : Shape(v)'
    BY <1>1, <1>4, <1>5, StillShaped
  <1>7. TypeOK'
    BY <1>1, <1>2, <1>3, <1>4, <1>5 DEF Typed, TypeOK
  <1> QED  BY <1>4, <1>5, <1>6, <1>7 DEF Typed, Waiting

\* What happens beside the workers: statuses change, the trigger moves.
LEMMA TypedBeside ==
    ASSUME Typed, RecoverOrphan \/ RecoverSlow \/ Cancel \/ Pause \/ Resume \/ Reply
    PROVE  Typed'
  <1>1. /\ UNCHANGED <<kind, last, effects, worker, again, beside, unsure, revived>>
        /\ Len(runs) \in Nat /\ turns' \in 0..MaxTurns
    BY WorkflowAssumption DEF RecoverOrphan, RecoverSlow, Recover, Cancel, Pause, Resume, Reply, Turn,
                              trigger, history, Typed, TypeOK
  <1>2. /\ active' \in BOOLEAN /\ next' \in 0..MaxSlots /\ gone' \in 0..MaxSlots
        /\ arrived' \in 0..MaxSlots
    <2>1. CASE RecoverOrphan \/ RecoverSlow \/ Cancel
      BY <2>1 DEF RecoverOrphan, RecoverSlow, Recover, Cancel, trigger, Typed, TypeOK
    <2>2. CASE Pause
      <3>1. active' = FALSE /\ next' = 0 /\ gone' = gone /\ arrived' = arrived
        BY <2>2 DEF Pause
      <3>2. active' \in BOOLEAN
        BY <3>1
      <3>3. 0 \in 0..MaxSlots /\ gone \in 0..MaxSlots /\ arrived \in 0..MaxSlots
        BY WorkflowAssumption DEF Typed, TypeOK
      <3> QED  BY <3>1, <3>2, <3>3
    <2>3. CASE Resume
      BY <2>3, WorkflowAssumption DEF Resume, Typed, TypeOK
    <2>4. CASE Reply
      BY <2>4, WorkflowAssumption DEF Reply, Typed, TypeOK
    <2> QED  BY <2>1, <2>2, <2>3, <2>4
  <1>3. stopped' \subseteq 1..Len(runs)
    BY DEF RecoverOrphan, RecoverSlow, Recover, Cancel, Pause, Resume, Reply, history, Typed, TypeOK
  <1> DEFINE Goal == /\ runs' \in Seq(Run) /\ Len(runs') = Len(runs)
                     /\ \A q \in 1..Len(runs) :
                          /\ runs'[q].slot = runs[q].slot /\ runs'[q].attempt = runs[q].attempt
                          /\ runs'[q].status = "retry_scheduled" => runs'[q].attempt < MaxAttempts
  <1>4. Goal
    <2>1. CASE UNCHANGED runs
      BY <2>1 DEF Typed, TypeOK, Waiting
    <2>2. ASSUME NEW r \in 1..Len(runs), SetStatus(r, Presumed(runs[r].attempt)) PROVE Goal
      <3>1. /\ Presumed(runs[r].attempt) \in Statuses
            /\ Presumed(runs[r].attempt) = "retry_scheduled" => runs[r].attempt < MaxAttempts
        BY DEF Presumed, Statuses
      <3> QED  BY <2>2, <3>1, StatusType DEF Typed, Waiting
    <2>3. ASSUME NEW r \in 1..Len(runs), SetStatus(r, "cancelled") PROVE Goal
      <3>1. "cancelled" \in Statuses
        BY DEF Statuses
      <3> QED  BY <2>3, <3>1, StatusType DEF Typed, Waiting
    <2>4. CASE Pause
      <3>1. \A q \in 1..Len(runs) : runs[q] \in Run
        BY DEF Typed, TypeOK
      <3>2. \A q \in 1..Len(runs) : [runs[q] EXCEPT !.status = "cancelled"] \in Run
        BY <3>1 DEF Run, Statuses
      <3>3. runs' = [q \in 1..Len(runs) |-> IF runs[q].status = "retry_scheduled"
                                           THEN [runs[q] EXCEPT !.status = "cancelled"] ELSE runs[q]]
        BY <2>4 DEF Pause
      <3>4. runs' \in Seq(Run) /\ Len(runs') = Len(runs)
        BY <1>1, <3>1, <3>2, <3>3
      <3>5. \A q \in 1..Len(runs) : runs'[q] \in {runs[q], [runs[q] EXCEPT !.status = "cancelled"]}
        BY <3>3
      <3> QED  BY <3>1, <3>4, <3>5 DEF Run, Typed, Waiting
    <2> QED  BY <2>1, <2>2, <2>3, <2>4 DEF RecoverOrphan, RecoverSlow, Recover, Cancel, Resume, Reply
  <1>5. \A v \in Workers : Shape(v)'
    BY <1>1, <1>4, StillShaped
  <1>6. TypeOK'
    BY <1>1, <1>2, <1>3, <1>4 DEF Typed, TypeOK
  <1> QED  BY <1>4, <1>5, <1>6 DEF Typed, Waiting

LEMMA TypedStep == Typed /\ [Next]_vars => Typed'
  <1> SUFFICES ASSUME Typed, [Next]_vars PROVE Typed'
    OBVIOUS
  <1>1. CASE UNCHANGED vars
    BY <1>1 DEF vars, trigger, history, Typed, TypeOK, Waiting, Shape
  <1> QED  BY <1>1, TypedAsk, TypedClaim, TypedInsert, TypedRunStep, TypedRecord, TypedFinish,
              TypedLeave, TypedBeside DEF Next, Work

\* Runs, records and workers are what they are declared to be, through crashes,
\* late endings and everything people ask for.
THEOREM TypeCorrect == Spec => []TypeOK
  <1>1. Typed => TypeOK
    BY DEF Typed
  <1> QED  BY <1>1, TypedInit, TypedStep, PTL DEF Spec

-----------------------------------------------------------------------------
(* What was done is done once. *)

Apart == \A v, w \in Workers :
           v # w /\ worker[v].run # 0 /\ worker[w].run # 0 /\ worker[v].slot = worker[w].slot =>
             worker[v].slot \in beside

ActInv == Apart /\ ActedOnce

LEMMA ActStep == Typed /\ ActInv /\ [Next]_vars => ActInv'
  <1> SUFFICES ASSUME Typed, ActInv, [Next]_vars PROVE ActInv'
    OBVIOUS
  <1>1. worker \in [Workers -> WorkerRec]
    BY DEF Typed, TypeOK
  \* A step after which every worker works for whom it worked, or for nobody.
  <1>2. ASSUME beside \subseteq beside', again' = again, unsure \subseteq unsure',
               \A w \in Workers : worker'[w].run # 0 =>
                 worker[w].run # 0 /\ worker'[w].slot = worker[w].slot
        PROVE  ActInv'
    BY <1>2 DEF ActInv, Apart, ActedOnce
  <1>3. ASSUME NEW w \in Workers, SeeSlot(w) \/ SeeRetry(w) \/ Request(w) PROVE ActInv'
    <2>1. UNCHANGED history
      BY <1>3 DEF SeeSlot, SeeRetry, Request
    <2>2. worker'[w].run = 0 /\ \A v \in Workers \ {w} : worker'[v] = worker[v]
      <3>1. \E pc, why, slot, attempt, of : Ask(w, pc, why, slot, attempt, of)
        BY <1>3 DEF SeeSlot, SeeRetry, Request
      <3> QED  BY <1>1, <3>1 DEF Ask, Idle
    <2> QED  BY <1>2, <2>1, <2>2 DEF history
  <1>4. ASSUME NEW w \in Workers, ClaimSlot(w) \/ ClaimRetry(w) \/ Start(w) PROVE ActInv'
    <2>1. UNCHANGED history /\ worker[w].pc \notin Executing
      BY <1>4 DEF ClaimSlot, ClaimRetry, Start, Executing
    <2>2. worker[w].run = 0
      BY <2>1 DEF Typed, Shape
    <2>3. worker'[w].run = 0 /\ \A v \in Workers \ {w} : worker'[v] = worker[v]
      BY <1>1, <1>4, <2>2 DEF ClaimSlot, ClaimRetry, Start, Set, Leave, Idle, WorkerRec
    <2> QED  BY <1>2, <2>1, <2>3 DEF history
  <1>5. ASSUME NEW w \in Workers, InsertRun(w) PROVE ActInv'
    <2>1. /\ again' = again /\ unsure' = unsure
          /\ beside' = IF \E v \in Workers \ {w} : worker[v].run # 0 /\ worker[v].slot = worker[w].slot
                       THEN beside \cup {worker[w].slot} ELSE beside
      BY <1>5 DEF InsertRun
    <2>2. /\ worker'[w].slot = worker[w].slot
          /\ \A v \in Workers \ {w} : worker'[v] = worker[v]
      BY <1>5, Inserted
    <2> QED  BY <2>1, <2>2 DEF ActInv, Apart, ActedOnce
  <1>6. ASSUME NEW w \in Workers, RunStep(w) PROVE ActInv'
    <2>1. kind' = kind /\ runs' = runs /\ beside' = beside /\ unsure \subseteq unsure' /\ worker[w].pc = "check"
      BY <1>6, RunStepCases DEF trigger
    <2>2. worker[w].run # 0
      BY <2>1 DEF Typed, Shape, Executing, TypeOK
    <2>3. /\ worker'[w].slot = worker[w].slot
          /\ \A v \in Workers \ {w} : worker'[v] = worker[v]
      BY <1>6, <2>1, RunStepCases, Stepped, Recording
    <2>4. Apart'
      BY <2>1, <2>2, <2>3 DEF ActInv, Apart
    <2>5. ASSUME NEW key \in again', key \notin again PROVE key[1] \in beside \/ key \in unsure
      <3>1. key = Key(w) /\ Key(w) \notin effects /\ Acted(Key(w))
        BY <1>6, <2>5, RunStepCases DEF Change
      <3>2. CASE key \in unsure
        BY <3>2
      <3>3. CASE \E v \in Workers : worker[v].pc = "record" /\ Key(v) = Key(w)
        <4>1. PICK v \in Workers : worker[v].pc = "record" /\ Key(v) = Key(w)
          BY <3>3
        <4>2. v # w /\ worker[v].run # 0 /\ worker[v].slot = worker[w].slot
          BY <2>1, <4>1 DEF Typed, TypeOK, Shape, Executing, Key
        <4> QED  BY <2>2, <3>1, <4>2 DEF ActInv, Apart, Key
      <3> QED  BY <3>1, <3>2, <3>3 DEF Acted
    <2> QED  BY <2>1, <2>4, <2>5 DEF ActInv, ActedOnce
  <1>7. ASSUME NEW w \in Workers, Record(w) PROVE ActInv'
    <2>1. /\ worker[w].pc = "record" /\ Step(w, "done") /\ UNCHANGED history /\ UNCHANGED <<kind, runs>>
          /\ "done" \in Results
      BY <1>7 DEF Record, trigger, Results
    <2>2. /\ worker'[w].slot = worker[w].slot /\ worker'[w].run = worker[w].run
          /\ \A v \in Workers \ {w} : worker'[v] = worker[v]
      BY <2>1, Stepped
    <2> QED  BY <1>2, <2>1, <2>2 DEF history
  <1>8. ASSUME NEW w \in Workers, Finish(w) PROVE ActInv'
    <2>1. UNCHANGED <<again, beside, unsure>>
      BY <1>8 DEF Finish
    <2>2. worker'[w].run = 0 /\ \A v \in Workers \ {w} : worker'[v] = worker[v]
      BY <1>8, Finished
    <2> QED  BY <1>2, <2>1, <2>2
  <1>9. ASSUME NEW w \in Workers, Settle(w) \/ Crash(w) PROVE ActInv'
    <2>1. again' = again /\ beside' = beside /\ unsure \subseteq unsure' /\ Leave(w)
      BY <1>9 DEF Settle, Crash
    <2>2. worker'[w].run = 0 /\ \A v \in Workers \ {w} : worker'[v] = worker[v]
      BY <1>1, <2>1 DEF Leave, Idle
    <2> QED  BY <1>2, <2>1, <2>2
  <1>10. CASE RecoverOrphan \/ RecoverSlow \/ Cancel \/ Pause \/ Resume \/ Reply \/ UNCHANGED vars
    <2>1. UNCHANGED <<again, beside, unsure, worker>>
      BY <1>10 DEF RecoverOrphan, RecoverSlow, Recover, Cancel, Pause, Resume, Reply, vars, history
    <2> QED  BY <1>2, <2>1
  <1> QED  BY <1>3, <1>4, <1>5, <1>6, <1>7, <1>8, <1>9, <1>10 DEF Next, Work

\* No retry, resume or recovery does again what a step did for its slot, but
\* beside another run of the slot, or after a change that a dead worker or a
\* handler that threw half-way left without a record.
THEOREM DoneOnce == Spec => []ActedOnce
  <1>1. Init => ActInv
    BY DEF Init, ActInv, Apart, ActedOnce, Idle
  <1>2. ActInv => ActedOnce
    BY DEF ActInv
  <1> QED  BY <1>1, <1>2, TypedInit, TypedStep, ActStep, PTL DEF Spec

-----------------------------------------------------------------------------
(* Cancelled, and succeeded. *)

\* The results of the steps behind a worker, and none ahead of it.
Behind(w) ==
    LET me == worker[w] IN
    /\ me.pc = "finish" => me.node = Last + 1
    /\ me.pc \in Executing => \A n \in Nodes : me.out[n] = "none" <=> n >= me.node
    /\ me.out \in [Nodes -> Results]
    /\ \A n \in Nodes : /\ me.out[n] = "blocked" => Had(w, "failed") \/ Had(w, "cancelled")
                        /\ me.out[n] = "done" /\ n \in SideEffects => <<me.slot, n>> \in effects

\* A cancelled worker will look at its run again, or has seen it.
Heeds(w) ==
    worker[w].run \in stopped =>
      \/ worker[w].pc = "check"
      \/ worker[w].pc = "record" /\ worker[w].node < Last
      \/ Had(w, "cancelled")

RunInv ==
    /\ \A w \in Workers : Behind(w) /\ Heeds(w)
    /\ StopIsKept
    /\ SucceededIsDone

\* A step that has a result, whichever the reason.
LEMMA ResultKept ==
    ASSUME Typed, RunInv, NEW w \in Workers, worker[w].pc \in {"check", "record"},
           NEW result \in Results \ {"none"}, Step(w, result), UNCHANGED <<kind, runs, stopped>>,
           effects \subseteq effects',
           result = "blocked" => Had(w, "failed") \/ Had(w, "cancelled"),
           result = "done" /\ worker[w].node \in SideEffects => Key(w) \in effects',
           worker[w].pc = "check" /\ worker[w].run \in stopped => result = "cancelled"
    PROVE  RunInv'
  <1> DEFINE n == worker[w].node
  <1>1. /\ \A v \in Workers \ {w} : worker'[v] = worker[v]
        /\ worker'[w].slot = worker[w].slot /\ worker'[w].run = worker[w].run
        /\ n \in Nodes /\ worker'[w].node = n + 1
        /\ worker'[w].out = [worker[w].out EXCEPT ![n] = result]
        /\ worker'[w].pc = IF n = Last THEN "finish" ELSE "check"
    BY Stepped
  <1>2. Behind(w) /\ Heeds(w) /\ worker[w].out \in [Nodes -> Results] /\ Last \in Nat
    BY WorkflowAssumption DEF RunInv, Behind
  <1>3. \A m \in Nodes : worker'[w].out[m] = IF m = n THEN result ELSE worker[w].out[m]
    BY <1>1, <1>2
  <1>4. worker[w].out[n] = "none"
    <2>1. n >= n
      BY <1>1 DEF Nodes
    <2> QED  BY <1>1, <1>2, <2>1 DEF Behind, Executing
  <1>5. \A x \in {"failed", "cancelled"} : Had(w, x) => Had(w, x)'
    BY <1>1, <1>3, <1>4 DEF Had
  <1>6. Behind(w)'
    <2>1. worker'[w].pc = "finish" => worker'[w].node = Last + 1
      BY <1>1
    <2>2. \A m \in Nodes : worker'[w].out[m] = "none" <=> m >= n + 1
      <3>1. \A m \in Nodes : worker[w].out[m] = "none" <=> m >= n
        BY <1>2 DEF Behind, Executing
      <3>2. \A m \in Nodes : (m >= n + 1) <=> (m >= n /\ m # n)
        BY <1>1 DEF Nodes
      <3> QED  BY <1>3, <3>1, <3>2
    <2>3. worker'[w].out \in [Nodes -> Results]
      BY <1>1, <1>2
    <2>4. \A m \in Nodes : worker'[w].out[m] = "blocked" => Had(w, "failed")' \/ Had(w, "cancelled")'
      BY <1>2, <1>3, <1>5 DEF Behind
    <2>5. \A m \in Nodes : worker'[w].out[m] = "done" /\ m \in SideEffects =>
                           <<worker'[w].slot, m>> \in effects'
      BY <1>1, <1>2, <1>3 DEF Behind, Key
    <2> QED  BY <1>1, <2>1, <2>2, <2>3, <2>4, <2>5 DEF Behind
  <1>7. Heeds(w)'
    <2> SUFFICES ASSUME worker'[w].run \in stopped', worker'[w].pc # "check" PROVE Had(w, "cancelled")'
      BY DEF Heeds
    <2>1. n = Last /\ worker[w].run \in stopped
      BY <1>1
    <2>2. CASE worker[w].pc = "check"
      BY <1>1, <1>3, <2>1, <2>2 DEF Had
    <2>3. CASE worker[w].pc = "record"
      <3>1. ~(n < Last)
        BY <1>2, <2>1
      <3>2. Had(w, "cancelled")
        BY <1>2, <2>1, <2>3, <3>1 DEF Heeds
      <3> QED  BY <1>5, <3>2
    <2> QED  BY <2>2, <2>3
  <1>8. \A v \in Workers \ {w} : Behind(v)' /\ Heeds(v)'
    BY <1>1 DEF RunInv, Behind, Heeds, Had
  <1>9. StopIsKept' /\ SucceededIsDone'
    BY DEF RunInv, StopIsKept, SucceededIsDone
  <1> QED  BY <1>6, <1>7, <1>8, <1>9 DEF RunInv

\* A worker without a run has no results.
LEMMA Resting ==
    ASSUME RunInv, NEW w \in Workers, worker'[w].pc \notin Executing, worker'[w].run = 0,
           worker'[w].out = Idle.out, 0 \notin stopped'
    PROVE  Behind(w)' /\ Heeds(w)'
  <1>1. \A n \in Nodes : worker'[w].out[n] = "none"
    BY DEF Idle
  <1>2. worker'[w].out \in [Nodes -> Results]
    BY DEF Idle, Results
  <1> QED  BY <1>1, <1>2 DEF Behind, Heeds, Executing

\* Statuses that change, but to succeeded, of runs that were not stopped.
LEMMA StatusKept ==
    ASSUME Typed, RunInv, Len(runs') = Len(runs), effects' = effects, stopped' = stopped,
           \A q \in 1..Len(runs) :
             /\ runs'[q].slot = runs[q].slot
             /\ \/ runs'[q].status = runs[q].status
                \/ runs'[q].status # "succeeded" /\ q \notin stopped
    PROVE  StopIsKept' /\ SucceededIsDone'
  <1>1. stopped \subseteq 1..Len(runs)
    BY DEF Typed, TypeOK
  <1> QED  BY <1>1 DEF RunInv, StopIsKept, SucceededIsDone

LEMMA RunRest ==
    ASSUME Typed, RunInv, NEW w \in Workers,
           SeeSlot(w) \/ SeeRetry(w) \/ Request(w) \/ ClaimSlot(w) \/ ClaimRetry(w) \/ Start(w)
             \/ Settle(w) \/ Crash(w)
    PROVE  RunInv'
  <1>1. worker[w] \in WorkerRec /\ Shape(w) /\ worker \in [Workers -> WorkerRec] /\ 0 \notin stopped
    BY DEF Typed, TypeOK
  <1>2. /\ effects' = effects /\ stopped' = stopped
        /\ \A v \in Workers \ {w} : worker'[v] = worker[v]
    BY <1>1 DEF SeeSlot, SeeRetry, Request, ClaimSlot, ClaimRetry, Start, Settle, Crash, Ask, Set, Leave, history
  <1>3. worker'[w].pc \notin Executing /\ worker'[w].run = 0 /\ worker'[w].out = Idle.out
    <2>1. CASE SeeSlot(w) \/ SeeRetry(w) \/ Request(w)
      <3>1. \E pc \in {"claim", "start"} : \E why, slot, attempt, of : Ask(w, pc, why, slot, attempt, of)
        BY <2>1 DEF SeeSlot, SeeRetry, Request
      <3> QED  BY <1>1, <3>1 DEF Ask, Idle, Executing
    <2>2. CASE Leave(w)
      BY <1>1, <2>2 DEF Leave, Idle, Executing
    <2>3. ASSUME worker[w].pc \in {"claim", "start"},
                 \/ Set(w, "start")
                 \/ worker' = [worker EXCEPT ![w].pc = "insert", ![w].at = arrived]
          PROVE  worker'[w].pc \notin Executing /\ worker'[w].run = 0 /\ worker'[w].out = Idle.out
      <3>1. worker[w].run = 0 /\ worker[w].out = Idle.out
        BY <1>1, <2>3 DEF Shape, Executing
      <3> QED  BY <1>1, <2>3, <3>1 DEF Set, Executing, WorkerRec
    <2> QED  BY <2>1, <2>2, <2>3 DEF ClaimSlot, ClaimRetry, Start, Settle, Crash
  <1>4. Behind(w)' /\ Heeds(w)'
    BY <1>1, <1>2, <1>3, Resting
  <1>5. \A v \in Workers \ {w} : Behind(v)' /\ Heeds(v)'
    BY <1>2 DEF RunInv, Behind, Heeds, Had
  <1>6. StopIsKept' /\ SucceededIsDone'
    <2>1. CASE UNCHANGED runs
      BY <1>2, <2>1, StatusKept
    <2>2. ASSUME NEW r \in 1..Len(runs), runs[r].status # "cancelled", SetStatus(r, "failed")
          PROVE  StopIsKept' /\ SucceededIsDone'
      <3>1. r \notin stopped /\ "failed" \in Statuses
        BY <2>2 DEF RunInv, StopIsKept, Statuses
      <3>2. /\ Len(runs') = Len(runs)
            /\ \A q \in 1..Len(runs) : /\ runs'[q].slot = runs[q].slot
                                       /\ runs'[q].status = IF q = r THEN "failed" ELSE runs[q].status
        BY <2>2, <3>1, StatusType DEF Typed
      <3> QED  BY <1>2, <3>1, <3>2, StatusKept
    <2>3. CASE ClaimRetry(w)
      <3>1. worker[w].of \in 1..Len(runs)
        BY <1>1, <2>3 DEF ClaimRetry, Shape
      <3> QED  BY <2>1, <2>2, <2>3, <3>1 DEF ClaimRetry
    <2>4. CASE Crash(w)
      <3>1. worker[w].run # 0 => worker[w].run \in 1..Len(runs)
        BY <1>1 DEF Shape
      <3> QED  BY <2>1, <2>2, <2>4, <3>1 DEF Crash
    <2> QED  BY <2>1, <2>3, <2>4 DEF SeeSlot, SeeRetry, Request, ClaimSlot, Start, Settle
  <1> QED  BY <1>4, <1>5, <1>6 DEF RunInv

LEMMA RunInsert ==
    ASSUME Typed, RunInv, NEW w \in Workers, InsertRun(w)
    PROVE  RunInv'
  <1>1. /\ Len(runs') = Len(runs) + 1 /\ Len(runs) \in Nat
        /\ \A q \in 1..Len(runs) : runs'[q] = runs[q]
        /\ runs'[Len(runs) + 1] = [slot |-> worker[w].slot, attempt |-> worker[w].attempt,
                                   status |-> "running"]
        /\ \A v \in Workers \ {w} : worker'[v] = worker[v]
        /\ worker'[w].pc = "check" /\ worker'[w].run = Len(runs) + 1
        /\ worker'[w].node = 1 /\ worker'[w].out = Idle.out
    BY Inserted
  <1>2. effects' = effects /\ stopped' = stopped /\ stopped \subseteq 1..Len(runs)
    BY DEF InsertRun, Typed, TypeOK
  <1>3. \A n \in Nodes : worker'[w].out[n] = "none" /\ n >= 1
    BY <1>1 DEF Idle, Nodes
  <1>4. Behind(w)' /\ Heeds(w)'
    BY <1>1, <1>3 DEF Behind, Heeds, Idle, Results
  <1>5. \A v \in Workers \ {w} : Behind(v)' /\ Heeds(v)'
    BY <1>1, <1>2 DEF RunInv, Behind, Heeds, Had
  <1>6. StopIsKept'
    BY <1>1, <1>2 DEF RunInv, StopIsKept
  <1>7. SucceededIsDone'
    <2>1. \A r \in 1..Len(runs') : r \in 1..Len(runs) \/ runs'[r].status = "running"
      BY <1>1
    <2> QED  BY <1>1, <1>2, <2>1 DEF RunInv, SucceededIsDone
  <1> QED  BY <1>4, <1>5, <1>6, <1>7 DEF RunInv

LEMMA RunRunStep ==
    ASSUME Typed, RunInv, NEW w \in Workers, RunStep(w)
    PROVE  RunInv'
  <1>1. /\ worker[w].pc = "check" /\ UNCHANGED <<trigger, runs, effects, stopped>>
        /\ kind' = kind
    BY DEF RunStep, trigger
  <1>2. runs[worker[w].run].status # "cancelled" => worker[w].run \notin stopped
    BY DEF RunInv, StopIsKept
  <1>3. CASE runs[worker[w].run].status = "cancelled"
    <2>1. Step(w, "cancelled") /\ "cancelled" \in Results \ {"none"}
      BY <1>3 DEF RunStep, Results
    <2> QED  BY <1>1, <2>1, ResultKept
  <1>4. CASE runs[worker[w].run].status # "cancelled"
    <2>1. CASE Blocked(w) /\ Step(w, "blocked")
      <3>1. worker[w].node \in Nodes
        BY <1>1 DEF Typed, Shape
      <3>2. \E m \in Nodes : worker[w].out[m] \in {"failed", "blocked", "cancelled"}
        BY <2>1, <3>1, WorkflowAssumption DEF Blocked
      <3>3. Had(w, "failed") \/ Had(w, "cancelled")
        BY <3>2 DEF Had, RunInv, Behind
      <3>4. "blocked" \in Results \ {"none"}
        BY DEF Results
      <3> QED  BY <1>1, <1>2, <1>4, <2>1, <3>3, <3>4, ResultKept
    <2>2. CASE HasEffect(w) /\ Replayed(w) /\ Step(w, "done")
      <3>1. "done" \in Results \ {"none"}
        BY DEF Results
      <3> QED  BY <1>1, <1>2, <1>4, <2>2, <3>1, ResultKept DEF Replayed
    <2>3. CASE Step(w, "failed")
      <3>1. "failed" \in Results \ {"none"}
        BY DEF Results
      <3> QED  BY <1>1, <1>2, <1>4, <2>3, <3>1, ResultKept
    <2>4. CASE ~HasEffect(w) /\ Step(w, "done")
      <3>1. "done" \in Results \ {"none"}
        BY DEF Results
      <3> QED  BY <1>1, <1>2, <1>4, <2>4, <3>1, ResultKept DEF HasEffect
    <2>5. CASE HasEffect(w) /\ Set(w, "record")
      <3>1. /\ \A v \in Workers \ {w} : worker'[v] = worker[v]
            /\ worker'[w].pc = "record" /\ worker'[w].slot = worker[w].slot
            /\ worker'[w].run = worker[w].run /\ worker'[w].node = worker[w].node
            /\ worker'[w].out = worker[w].out
        BY <1>1, <2>5, Recording
      <3>2. Behind(w)' /\ Heeds(w)'
        BY <1>1, <1>2, <1>4, <3>1 DEF RunInv, Behind, Heeds, Had, Executing
      <3>3. \A v \in Workers \ {w} : Behind(v)' /\ Heeds(v)'
        BY <1>1, <3>1 DEF RunInv, Behind, Heeds, Had
      <3> QED  BY <1>1, <3>2, <3>3 DEF RunInv, StopIsKept, SucceededIsDone
    <2> QED  BY <1>4, <2>1, <2>2, <2>3, <2>4, <2>5 DEF RunStep, Act
  <1> QED  BY <1>3, <1>4

LEMMA RunFinish ==
    ASSUME Typed, RunInv, NEW w \in Workers, Finish(w)
    PROVE  RunInv'
  <1> DEFINE r == worker[w].run
  <1>1. /\ worker[w].pc = "finish" /\ effects' = effects /\ stopped' = stopped
        /\ worker \in [Workers -> WorkerRec] /\ Shape(w) /\ 0 \notin stopped
    BY DEF Finish, Typed, TypeOK
  <1>2. /\ r \in 1..Len(runs) /\ Len(runs') = Len(runs)
        /\ \A q \in 1..Len(runs) :
             /\ runs'[q].slot = runs[q].slot
             /\ runs'[q].status = IF q = r THEN Outcome(w) ELSE runs[q].status
        /\ \A v \in Workers \ {w} : worker'[v] = worker[v]
        /\ worker'[w].pc = "after" /\ worker'[w].run = 0
    BY Finished
  <1>3. worker'[w].out = Idle.out
    BY <1>1 DEF Finish, Idle
  <1>4. Behind(w)' /\ Heeds(w)'
    BY <1>1, <1>2, <1>3, Resting DEF Executing
  <1>5. \A v \in Workers \ {w} : Behind(v)' /\ Heeds(v)'
    BY <1>1, <1>2 DEF RunInv, Behind, Heeds, Had
  <1>6. r \in stopped => Outcome(w) = "cancelled"
    BY <1>1 DEF RunInv, Heeds, Outcome
  <1>7. StopIsKept'
    <2>1. stopped \subseteq 1..Len(runs)
      BY DEF Typed, TypeOK
    <2> QED  BY <1>1, <1>2, <1>6, <2>1 DEF RunInv, StopIsKept
  <1>8. Outcome(w) = "succeeded" => \A n \in SideEffects : <<runs[r].slot, n>> \in effects
    <2> SUFFICES ASSUME Outcome(w) = "succeeded", NEW n \in SideEffects
                 PROVE  <<runs[r].slot, n>> \in effects
      OBVIOUS
    <2>1. ~Had(w, "cancelled") /\ ~Had(w, "failed")
      BY DEF Outcome
    <2>2. n \in Nodes /\ Last \in Nat
      BY WorkflowAssumption
    <2>3. ~(n >= Last + 1)
      BY <2>2 DEF Nodes
    <2>4. worker[w].out[n] # "none" /\ worker[w].out[n] \in Results
      BY <1>1, <2>2, <2>3 DEF RunInv, Behind, Executing
    <2>5. worker[w].out[n] \notin {"cancelled", "failed", "blocked"}
      BY <2>1, <2>2 DEF Had, RunInv, Behind
    <2>6. worker[w].out[n] = "done"
      BY <2>4, <2>5 DEF Results
    <2>7. runs[r].slot = worker[w].slot
      BY <1>1 DEF Shape, Executing
    <2> QED  BY <2>2, <2>6, <2>7 DEF RunInv, Behind
  <1>9. SucceededIsDone'
    BY <1>1, <1>2, <1>8 DEF RunInv, SucceededIsDone
  <1> QED  BY <1>4, <1>5, <1>7, <1>9 DEF RunInv

LEMMA RunBeside ==
    ASSUME Typed, RunInv,
           RecoverOrphan \/ RecoverSlow \/ Cancel \/ Pause \/ Resume \/ Reply \/ UNCHANGED vars
    PROVE  RunInv'
  <1>1. UNCHANGED <<effects, worker>> /\ stopped \subseteq 1..Len(runs) /\ Len(runs) \in Nat
    BY DEF RecoverOrphan, RecoverSlow, Recover, Cancel, Pause, Resume, Reply, vars, Typed, TypeOK
  <1>2. \A w \in Workers : Behind(w)'
    BY <1>1 DEF RunInv, Behind, Had
  <1>3. ASSUME stopped' = stopped PROVE \A w \in Workers : Heeds(w)'
    BY <1>1, <1>3 DEF RunInv, Heeds, Had
  <1>4. CASE Resume \/ Reply \/ UNCHANGED vars
    <2>1. UNCHANGED <<runs, stopped>>
      BY <1>4 DEF Resume, Reply, vars, history
    <2> QED  BY <1>1, <1>2, <1>3, <2>1, StatusKept DEF RunInv
  <1>5. CASE RecoverOrphan \/ RecoverSlow
    <2>1. PICK r \in 1..Len(runs) : runs[r].status = "running" /\ SetStatus(r, Presumed(runs[r].attempt))
      BY <1>5 DEF RecoverOrphan, RecoverSlow, Recover
    <2>2. stopped' = stopped
      BY <1>5 DEF RecoverOrphan, RecoverSlow, Recover, history
    <2>3. Presumed(runs[r].attempt) \in Statuses \ {"succeeded"} /\ r \notin stopped
      BY <2>1 DEF Presumed, Statuses, RunInv, StopIsKept
    <2>4. /\ Len(runs') = Len(runs)
          /\ \A q \in 1..Len(runs) :
               /\ runs'[q].slot = runs[q].slot
               /\ runs'[q].status = IF q = r THEN Presumed(runs[r].attempt) ELSE runs[q].status
      BY <2>1, <2>3, StatusType DEF Typed
    <2>5. StopIsKept' /\ SucceededIsDone'
      BY <1>1, <2>2, <2>3, <2>4, StatusKept
    <2> QED  BY <1>2, <1>3, <2>2, <2>5 DEF RunInv
  <1>6. CASE Cancel
    <2>1. PICK r \in 1..Len(runs) :
            /\ SetStatus(r, "cancelled")
            /\ stopped' = IF StepToCome(r) THEN stopped \cup {r} ELSE stopped
      BY <1>6 DEF Cancel
    <2>2. "cancelled" \in Statuses
      BY DEF Statuses
    <2>3. /\ Len(runs') = Len(runs)
          /\ \A q \in 1..Len(runs) :
               /\ runs'[q].slot = runs[q].slot
               /\ runs'[q].status = IF q = r THEN "cancelled" ELSE runs[q].status
      BY <2>1, <2>2, StatusType DEF Typed
    <2>4. StopIsKept' /\ SucceededIsDone'
      BY <1>1, <2>1, <2>3 DEF RunInv, StopIsKept, SucceededIsDone
    <2>5. \A w \in Workers : Heeds(w)'
      BY <1>1, <2>1 DEF RunInv, Heeds, Had, StepToCome
    <2> QED  BY <1>2, <2>4, <2>5 DEF RunInv
  <1>7. CASE Pause
    <2> DEFINE waiting == {q \in 1..Len(runs) : runs[q].status = "retry_scheduled"}
    <2>1. /\ runs' = [q \in 1..Len(runs) |->
                        IF q \in waiting THEN [runs[q] EXCEPT !.status = "cancelled"] ELSE runs[q]]
          /\ stopped' = stopped \cup {q \in waiting : StepToCome(q)}
      BY <1>7 DEF Pause
    <2>2. \A q \in 1..Len(runs) : runs[q] \in Run
      BY DEF Typed, TypeOK
    <2>3. \A q \in 1..Len(runs) :
            /\ runs'[q].slot = runs[q].slot
            /\ runs'[q].status = IF q \in waiting THEN "cancelled" ELSE runs[q].status
      BY <2>1, <2>2 DEF Run
    <2>4. Len(runs') = Len(runs)
      BY <1>1, <2>1, <1>7, TypedBeside DEF Typed, TypeOK
    <2>5. StopIsKept' /\ SucceededIsDone'
      BY <1>1, <2>1, <2>3, <2>4 DEF RunInv, StopIsKept, SucceededIsDone
    <2>6. \A w \in Workers : Heeds(w)'
      BY <1>1, <2>1 DEF RunInv, Heeds, Had, StepToCome
    <2> QED  BY <1>2, <2>5, <2>6 DEF RunInv
  <1> QED  BY <1>4, <1>5, <1>6, <1>7

LEMMA RunStepInv == Typed /\ RunInv /\ [Next]_vars => RunInv'
  <1> SUFFICES ASSUME Typed, RunInv, [Next]_vars PROVE RunInv'
    OBVIOUS
  <1>1. ASSUME NEW w \in Workers, Record(w) PROVE RunInv'
    <2>1. /\ worker[w].pc = "record" /\ Step(w, "done") /\ effects' = effects \cup {Key(w)}
          /\ UNCHANGED <<kind, runs, stopped>> /\ "done" \in Results \ {"none"}
      BY <1>1 DEF Record, trigger, history, Results
    <2> QED  BY <2>1, ResultKept
  <1> QED  BY <1>1, RunRest, RunInsert, RunRunStep, RunFinish, RunBeside DEF Next, Work

LEMMA RunInit == Init => RunInv
  <1> SUFFICES ASSUME Init PROVE RunInv
    OBVIOUS
  <1>1. stopped = {} /\ Len(runs) = 0
    BY DEF Init
  <1>2. \A w \in Workers : /\ worker[w].pc = "idle" /\ worker[w].out = [n \in Nodes |-> "none"]
    BY DEF Init, Idle
  <1>3. \A w \in Workers : Behind(w) /\ Heeds(w)
    BY <1>1, <1>2 DEF Behind, Heeds, Executing, Results
  <1> QED  BY <1>1, <1>3 DEF RunInv, StopIsKept, SucceededIsDone

\* A cancellation before the last look at the status is final.
THEOREM StoppedStays == Spec => []StopIsKept
  <1>1. RunInv => StopIsKept
    BY DEF RunInv
  <1> QED  BY <1>1, RunInit, RunStepInv, TypedInit, TypedStep, PTL DEF Spec

\* Success is only told of what was done and recorded.
THEOREM SuccessIsEarned == Spec => []SucceededIsDone
  <1>1. RunInv => SucceededIsDone
    BY DEF RunInv
  <1> QED  BY <1>1, RunInit, RunStepInv, TypedInit, TypedStep, PTL DEF Spec
-----------------------------------------------------------------------------
(* A claim starts one run. *)

\* A worker that has its claim and no row yet.
Holds(w) == worker[w].pc \in {"start", "insert"} /\ worker[w].why \in {"slot", "retry"}

\* Why a claim may be made a second time.
Excused(c) == \/ c[1] = "event" /\ c \in rewound
              \/ c[1] = "retry" /\ c[2] \in revived

\* What the sweep looks at says that the claim was made.
Spent(c) ==
    \/ c[1] = "schedule" /\ c[2] \in 1..gone
    \/ c[1] = "event" /\ c[2] \in 1..last
    \/ /\ c[1] = "retry" /\ c[2] \in 1..Len(runs)
       /\ runs[c[2]].status \notin {"running", "retry_scheduled"}

Good(c) == c \in {"schedule", "event", "retry"} \X Nat /\ (Spent(c) \/ Excused(c))

ClaimInv ==
    /\ \A c \in started : Good(c)
    /\ \A w \in Workers : Holds(w) =>
         Good(Claimed(w)) /\ (Claimed(w) \in started => Excused(Claimed(w)))
    /\ \A v, w \in Workers : v # w /\ Holds(v) /\ Holds(w) /\ Claimed(v) = Claimed(w) =>
         Excused(Claimed(w))
    /\ StartedOnce
    /\ next = 0 \/ next > gone

LEMMA ExcusesStay ==
    ASSUME rewound \subseteq rewound', revived \subseteq revived'
    PROVE  \A c : Excused(c) => Excused(c)'
  BY DEF Excused

\* Nothing a claim was made of comes back, but for a run that ends late.
LEMMA GoodStays ==
    ASSUME Typed, UNCHANGED <<gone, last>>, rewound \subseteq rewound', revived \subseteq revived',
           Len(runs') \in Nat, Len(runs) <= Len(runs'),
           \A q \in 1..Len(runs) :
             \/ runs'[q].status = runs[q].status
             \/ runs[q].status \in {"running", "retry_scheduled"}
             \/ q \in revived'
    PROVE  \A c : Good(c) => Good(c)'
  <1>1. Len(runs) \in Nat /\ 1..Len(runs) \subseteq 1..Len(runs')
    BY DEF Typed, TypeOK
  <1>2. \A c : Excused(c) => Excused(c)'
    BY ExcusesStay
  <1> QED  BY <1>1, <1>2 DEF Good, Spent, Excused

\* A step that gives nobody a claim.
LEMMA NobodyClaims ==
    ASSUME ClaimInv, UNCHANGED <<started, restarted>>, next' = 0 \/ next' > gone',
           rewound \subseteq rewound', revived \subseteq revived',
           \A c : Good(c) => Good(c)',
           \A v \in Workers : Holds(v)' => Holds(v) /\ Claimed(v)' = Claimed(v)
    PROVE  ClaimInv'
  <1>1. \A c : Excused(c) => Excused(c)'
    BY ExcusesStay
  <1>2. \A v \in Workers : Holds(v)' => Holds(v) /\ Claimed(v)' = Claimed(v)
    OBVIOUS
  <1>3. \A v \in Workers : Holds(v)' =>
          Good(Claimed(v))' /\ (Claimed(v)' \in started' => Excused(Claimed(v))')
    BY <1>1, <1>2 DEF ClaimInv
  <1>4. \A v, w \in Workers : v # w /\ Holds(v)' /\ Holds(w)' /\ Claimed(v)' = Claimed(w)' =>
          Excused(Claimed(w))'
    BY <1>1, <1>2 DEF ClaimInv
  <1>5. StartedOnce'
    BY DEF ClaimInv, StartedOnce
  <1> QED  BY <1>3, <1>4, <1>5 DEF ClaimInv

\* A step that gives w a claim that was there to be made.
LEMMA OneClaims ==
    ASSUME Typed, ClaimInv, NEW w \in Workers, NEW c, UNCHANGED <<started, restarted>>,
           next' = 0 \/ next' > gone', rewound' = rewound, revived' = revived,
           ~Spent(c), Good(c)', \A d : Good(d) => Good(d)',
           \A v \in Workers \ {w} : worker'[v] = worker[v],
           Holds(w)' => Claimed(w)' = c
    PROVE  ClaimInv'
  <1>1. \A d : Excused(d)' <=> Excused(d)
    BY DEF Excused
  <1>2. \A v \in Workers \ {w} : (Holds(v)' <=> Holds(v)) /\ Claimed(v)' = Claimed(v)
    BY DEF Holds, Claimed
  <1>3. c \in started => Excused(c)
    BY DEF ClaimInv, Good
  <1>4. \A v \in Workers \ {w} : Holds(v) /\ Claimed(v) = c => Excused(c)
    BY DEF ClaimInv, Good
  <1>5. ASSUME NEW v \in Workers, Holds(v)'
        PROVE  Good(Claimed(v))' /\ (Claimed(v)' \in started' => Excused(Claimed(v))')
    <2>1. CASE v = w
      <3>1. Claimed(v)' = c
        BY <1>5, <2>1
      <3>2. Good(Claimed(v))' <=> Good(c)'
        BY <3>1 DEF Good, Spent, Excused
      <3>3. Excused(Claimed(v))' <=> Excused(c)'
        BY <3>1 DEF Excused
      <3> QED  BY <1>1, <1>3, <3>1, <3>2, <3>3
    <2>2. CASE v # w
      <3>1. Holds(v) /\ Claimed(v)' = Claimed(v)
        BY <1>2, <1>5, <2>2
      <3>2. Good(Claimed(v)) /\ (Claimed(v) \in started => Excused(Claimed(v)))
        BY <3>1 DEF ClaimInv
      <3>3. Good(Claimed(v))'
        BY <3>1, <3>2 DEF Good, Spent, Excused
      <3> QED  BY <3>1, <3>2, <3>3 DEF Excused
    <2> QED  BY <2>1, <2>2
  <1>6. ASSUME NEW v \in Workers, NEW u \in Workers, v # u, Holds(v)', Holds(u)',
               Claimed(v)' = Claimed(u)'
        PROVE  Excused(Claimed(u))'
    <2>1. CASE v = w
      BY <1>2, <1>4, <1>6, <2>1 DEF Excused
    <2>2. CASE u = w
      BY <1>2, <1>4, <1>6, <2>2 DEF Excused
    <2>3. CASE v # w /\ u # w
      <3>1. Excused(Claimed(u))
        BY <1>2, <1>6, <2>3 DEF ClaimInv
      <3> QED  BY <1>2, <2>3, <3>1 DEF Excused
    <2> QED  BY <2>1, <2>2, <2>3
  <1>7. StartedOnce'
    BY DEF ClaimInv, StartedOnce
  <1>8. \A d \in started' : Good(d)'
    BY DEF ClaimInv
  <1> QED  BY <1>5, <1>6, <1>7, <1>8 DEF ClaimInv

LEMMA ClaimOfSlot ==
    ASSUME Typed, ClaimInv, NEW w \in Workers, ClaimSlot(w)
    PROVE  ClaimInv'
  <1>0. PICK c : c = worker[w].slot
    OBVIOUS
  <1>1. /\ UNCHANGED <<kind, runs, started, restarted, rewound, revived>>
        /\ worker[w].pc = "claim" /\ worker[w].why = "slot" /\ worker[w] \in WorkerRec
        /\ c \in {"schedule", "event", "retry"} \X Nat
        /\ c[1] = kind /\ c[2] \in 1..MaxSlots /\ kind \in {"schedule", "event"}
        /\ MaxSlots \in Nat /\ gone \in 0..MaxSlots /\ last \in 0..MaxSlots /\ next \in 0..MaxSlots
    BY <1>0, WorkflowAssumption DEF ClaimSlot, history, Typed, TypeOK, Shape, WorkerRec, Slots
  <1>2. CASE ~SlotFree(w)
    <2>1. Leave(w) /\ UNCHANGED <<next, gone, last>>
      BY <1>2 DEF ClaimSlot
    <2>2. \A v \in Workers : Holds(v)' => Holds(v) /\ Claimed(v)' = Claimed(v)
      <3>1. worker'[w].pc = "idle" /\ \A v \in Workers \ {w} : worker'[v] = worker[v]
        BY <2>1 DEF Leave, Idle, Typed, TypeOK
      <3> QED  BY <3>1 DEF Holds, Claimed
    <2>3. \A d : Good(d) => Good(d)'
      BY <1>1, <2>1 DEF Good, Spent, Excused
    <2> QED  BY <1>1, <2>1, <2>2, <2>3, NobodyClaims DEF ClaimInv
  <1>3. CASE SlotFree(w)
    <2>1. Set(w, "start")
      BY <1>3 DEF ClaimSlot
    <2>2. /\ worker'[w].slot = c /\ worker'[w].why = "slot"
          /\ \A v \in Workers \ {w} : worker'[v] = worker[v]
      BY <1>0, <1>1, <2>1 DEF Set, Typed, TypeOK, WorkerRec
    <2>3. Claimed(w)' = c
      BY <2>2 DEF Claimed
    <2>4. CASE kind = "schedule"
      <3>1. next = c[2] /\ gone' = c[2] /\ last' = last /\ (next' = 0 \/ next' > c[2])
        BY <1>1, <1>3, <2>4, <1>0 DEF ClaimSlot, SlotFree
      <3>2. next > gone
        BY <1>1, <3>1 DEF ClaimInv
      <3>3. ~Spent(c)
        BY <1>1, <2>4, <3>1, <3>2 DEF Spent
      <3>4. Good(c)'
        BY <1>1, <2>4, <3>1 DEF Good, Spent
      <3>5. \A d : Good(d) => Good(d)'
        BY <1>1, <3>1, <3>2 DEF Good, Spent, Excused
      <3>6. next' = 0 \/ next' > gone'
        BY <3>1
      <3> QED  BY <1>1, <2>2, <2>3, <3>3, <3>4, <3>5, <3>6, OneClaims
    <2>5. CASE kind = "event"
      <3>1. last < c[2] /\ last' = c[2] /\ next' = next /\ gone' = gone
        BY <1>1, <1>3, <2>5, <1>0 DEF ClaimSlot, SlotFree
      <3>2. ~Spent(c)
        BY <1>1, <2>5, <3>1 DEF Spent
      <3>3. Good(c)'
        BY <1>1, <2>5, <3>1 DEF Good, Spent
      <3>4. \A d : Good(d) => Good(d)'
        BY <1>1, <3>1 DEF Good, Spent, Excused
      <3>5. next' = 0 \/ next' > gone'
        BY <3>1 DEF ClaimInv
      <3> QED  BY <1>1, <2>2, <2>3, <3>2, <3>3, <3>4, <3>5, OneClaims
    <2> QED  BY <1>1, <2>4, <2>5
  <1> QED  BY <1>2, <1>3

LEMMA ClaimOfRetry ==
    ASSUME Typed, ClaimInv, NEW w \in Workers, ClaimRetry(w)
    PROVE  ClaimInv'
  <1>0. PICK r : r = worker[w].of
    OBVIOUS
  <1> DEFINE c == <<"retry", r>>
             free == runs[r].status = "retry_scheduled"
  <1>1. /\ UNCHANGED <<next, gone, last, started, restarted, rewound, revived>>
        /\ worker[w].pc = "claim" /\ worker[w].why # "slot" /\ worker[w] \in WorkerRec
        /\ r \in 1..Len(runs) /\ Len(runs) \in Nat
        /\ next = 0 \/ next > gone
    BY <1>0 DEF ClaimRetry, trigger, history, Typed, TypeOK, Shape, ClaimInv
  <1>2. /\ Len(runs') = Len(runs)
        /\ \A q \in 1..Len(runs) : \/ runs'[q].status = runs[q].status
                                   \/ runs[q].status \in {"running", "retry_scheduled"}
        /\ runs' = runs \/ (free /\ runs'[r].status = "failed")
    <2>1. CASE runs' = runs
      BY <2>1
    <2>2. CASE free /\ SetStatus(r, "failed")
      <3>1. "failed" \in Statuses
        BY DEF Statuses
      <3> QED  BY <1>1, <2>2, <3>1, StatusType DEF Typed
    <2> QED  BY <1>0, <2>1, <2>2 DEF ClaimRetry
  <1>3. \A d : Good(d) => Good(d)'
    BY <1>1, <1>2, GoodStays
  <1>4. \A v \in Workers \ {w} : worker'[v] = worker[v]
    BY DEF ClaimRetry, Leave, Set, Typed, TypeOK
  <1>5. CASE worker[w].why = "retry" /\ ~HasLiveRun /\ free
    <2>1. Set(w, "start") /\ SetStatus(r, "failed")
      BY <1>0, <1>5 DEF ClaimRetry
    <2>2. worker'[w].of = r /\ worker'[w].why = "retry"
      BY <1>0, <1>1, <1>5, <2>1 DEF Set, Typed, TypeOK, WorkerRec
    <2>3. Claimed(w)' = c
      BY <2>2 DEF Claimed
    <2>4. ~Spent(c)
      BY <1>5 DEF Spent
    <2>5. runs'[r].status = "failed"
      <3>1. "failed" \in Statuses
        BY DEF Statuses
      <3> QED  BY <1>1, <2>1, <3>1, StatusType DEF Typed
    <2>6. Good(c)'
      BY <1>1, <1>2, <2>5 DEF Good, Spent
    <2> QED  BY <1>1, <1>3, <1>4, <2>3, <2>4, <2>6, OneClaims
  <1>6. CASE ~(worker[w].why = "retry" /\ ~HasLiveRun /\ free)
    <2>1. ~Holds(w)'
      <3>1. CASE Leave(w)
        BY <3>1 DEF Leave, Idle, Holds, Typed, TypeOK
      <3>2. CASE worker[w].why # "retry" /\ Set(w, "start")
        BY <1>1, <3>2 DEF Set, Holds, Typed, TypeOK, WorkerRec
      <3> QED  BY <1>0, <1>6, <3>1, <3>2 DEF ClaimRetry
    <2>2. \A v \in Workers : Holds(v)' => Holds(v) /\ Claimed(v)' = Claimed(v)
      BY <1>4, <2>1 DEF Holds, Claimed
    <2> QED  BY <1>1, <1>3, <2>2, NobodyClaims
  <1> QED  BY <1>5, <1>6

\* The new row makes the claim count.
LEMMA ClaimMade ==
    ASSUME Typed, ClaimInv, NEW w \in Workers, InsertRun(w)
    PROVE  ClaimInv'
  <1> DEFINE c == Claimed(w)
  <1>1. /\ UNCHANGED <<next, gone, last, rewound, revived>> /\ worker[w].pc = "insert"
        /\ started' = started \cup (IF Holds(w) THEN {c} ELSE {})
        /\ restarted' = restarted \cup ((IF Holds(w) THEN {c} ELSE {}) \cap started)
        /\ next = 0 \/ next > gone
    BY DEF InsertRun, trigger, Holds, ClaimInv
  <1>2. /\ Len(runs') = Len(runs) + 1 /\ Len(runs) \in Nat
        /\ \A q \in 1..Len(runs) : runs'[q] = runs[q]
        /\ \A v \in Workers \ {w} : worker'[v] = worker[v]
        /\ worker'[w].pc = "check"
    BY Inserted
  <1>3. \A d : Good(d) => Good(d)'
    <2>1. Len(runs') \in Nat /\ Len(runs) <= Len(runs')
      BY <1>2
    <2> QED  BY <1>1, <1>2, <2>1, GoodStays
  <1>4. \A d : Excused(d)' <=> Excused(d)
    BY <1>1 DEF Excused
  <1>5. ~Holds(w)' /\ \A v \in Workers \ {w} : (Holds(v)' <=> Holds(v)) /\ Claimed(v)' = Claimed(v)
    BY <1>2 DEF Holds, Claimed
  <1>6. \A d \in started' : Good(d)'
    BY <1>1, <1>3 DEF ClaimInv
  <1>7. StartedOnce'
    <2>1. \A d \in restarted' : d \in restarted \/ Excused(d)
      BY <1>1 DEF ClaimInv
    <2>2. \A d \in restarted' : Excused(d)
      BY <2>1 DEF ClaimInv, StartedOnce, Excused
    <2> QED  BY <1>4, <2>2 DEF StartedOnce, Excused
  <1>8. ASSUME NEW v \in Workers, Holds(v)'
        PROVE  Good(Claimed(v))' /\ (Claimed(v)' \in started' => Excused(Claimed(v))')
    <2>1. v # w /\ Holds(v) /\ Claimed(v)' = Claimed(v)
      BY <1>5, <1>8
    <2>2. Good(Claimed(v))'
      <3>1. Good(Claimed(v))
        BY <2>1 DEF ClaimInv
      <3> QED  BY <1>1, <1>2, <2>1, <3>1 DEF Good, Spent, Excused
    <2>3. Claimed(v) \in started' => Excused(Claimed(v))
      BY <1>1, <2>1 DEF ClaimInv
    <2> QED  BY <1>1, <2>1, <2>2, <2>3 DEF Excused
  <1>9. ASSUME NEW v \in Workers, NEW u \in Workers, v # u, Holds(v)', Holds(u)',
               Claimed(v)' = Claimed(u)'
        PROVE  Excused(Claimed(u))'
    <2>1. Excused(Claimed(u)) /\ Claimed(u)' = Claimed(u)
      BY <1>5, <1>9 DEF ClaimInv
    <2> QED  BY <1>1, <2>1 DEF Excused
  <1> QED  BY <1>1, <1>6, <1>7, <1>8, <1>9 DEF ClaimInv

\* What else a worker does.
LEMMA ClaimRest ==
    ASSUME Typed, ClaimInv, NEW w \in Workers,
           SeeSlot(w) \/ SeeRetry(w) \/ Request(w) \/ Start(w) \/ RunStep(w) \/ Record(w)
             \/ Finish(w) \/ Settle(w) \/ Crash(w)
    PROVE  ClaimInv'
  <1>1. /\ worker[w] \in WorkerRec /\ Shape(w) /\ worker \in [Workers -> WorkerRec]
        /\ Len(runs) \in Nat /\ MaxSlots \in Nat /\ last \in 0..MaxSlots
    BY WorkflowAssumption DEF Typed, TypeOK
  <1>2. /\ UNCHANGED <<started, restarted, next, gone>> /\ (next = 0 \/ next > gone)
        /\ rewound \subseteq rewound' /\ revived \subseteq revived'
    BY RunStepCases DEF SeeSlot, SeeRetry, Request, Start, Record, Finish, Settle, Crash,
                        trigger, history, ClaimInv
  <1>3. \A v \in Workers \ {w} : worker'[v] = worker[v]
    <2>1. CASE SeeSlot(w) \/ SeeRetry(w) \/ Request(w) \/ Start(w) \/ Record(w) \/ Settle(w) \/ Crash(w)
      BY <1>1, <2>1 DEF SeeSlot, SeeRetry, Request, Start, Record, Settle, Crash, Ask, Leave, Step
    <2>2. CASE RunStep(w)
      BY <1>1, <2>2, RunStepCases DEF Step, Set
    <2> QED  BY <2>1, <2>2, Finished
  <1>4. Holds(w)' => Holds(w) /\ Claimed(w)' = Claimed(w)
    <2>1. CASE SeeSlot(w) \/ SeeRetry(w) \/ Request(w)
      <3>1. \/ \E why, slot, attempt, of : Ask(w, "claim", why, slot, attempt, of)
            \/ \E why \in {"manual", "resume"} : \E slot, attempt, of : Ask(w, "start", why, slot, attempt, of)
        BY <2>1 DEF SeeSlot, SeeRetry, Request
      <3>2. worker'[w].pc = "claim" \/ worker'[w].why \in {"manual", "resume"}
        BY <1>1, <3>1, ZenonT(40) DEF Ask, Idle
      <3> QED  BY <3>2 DEF Holds
    <2>2. CASE Start(w)
      <3>1. CASE Leave(w)
        BY <1>1, <3>1 DEF Leave, Idle, Holds
      <3>2. CASE worker' = [worker EXCEPT ![w].pc = "insert", ![w].at = arrived]
        BY <1>1, <2>2, <3>2 DEF Start, Holds, Claimed, WorkerRec
      <3> QED  BY <2>2, <3>1, <3>2 DEF Start
    <2>3. CASE RunStep(w) \/ Record(w)
      <3>1. (\E result : Step(w, result)) \/ Set(w, "record")
        BY <2>3, RunStepCases DEF Record
      <3>2. worker'[w].pc \in {"finish", "check", "record"}
        BY <1>1, <3>1 DEF Step, Set, WorkerRec
      <3> QED  BY <3>2 DEF Holds
    <2>4. CASE Finish(w)
      <3>1. worker'[w].pc = "after"
        BY <2>4, Finished
      <3> QED  BY <3>1 DEF Holds
    <2>5. CASE Settle(w) \/ Crash(w)
      BY <1>1, <2>5 DEF Settle, Crash, Leave, Idle, Holds
    <2> QED  BY <2>1, <2>2, <2>3, <2>4, <2>5
  <1>5. \A v \in Workers : Holds(v)' => Holds(v) /\ Claimed(v)' = Claimed(v)
    BY <1>3, <1>4 DEF Holds, Claimed
  <1>6. \A d : Good(d) => Good(d)'
    <2>1. CASE Settle(w)
      <3>1. /\ last' = worker[w].at /\ worker[w].at \in 0..MaxSlots /\ UNCHANGED <<runs, gone, revived>>
            /\ rewound' = rewound \cup {<<"event", n>> : n \in Rewinds(w)}
        BY <1>1, <2>1 DEF Settle, Shape
      <3>2. ASSUME NEW d, Good(d) PROVE Good(d)'
        <4>1. CASE d[1] = "event" /\ d[2] \in 1..last
          <5>1. d[2] \in 1..worker[w].at \/ d[2] \in Rewinds(w)
            BY <1>1, <3>1, <4>1 DEF Rewinds
          <5>2. d = <<"event", d[2]>> /\ d \in {"schedule", "event", "retry"} \X Nat
            BY <3>2, <4>1 DEF Good
          <5>3. d[2] \in Rewinds(w) => d \in rewound'
            BY <3>1, <5>2
          <5> QED  BY <3>1, <4>1, <5>1, <5>2, <5>3 DEF Good, Spent, Excused
        <4> QED  BY <3>1, <3>2, <4>1 DEF Good, Spent, Excused
      <3> QED  BY <3>2
    <2>2. CASE Finish(w)
      <3>1. UNCHANGED <<gone, last>>
        BY <2>2 DEF Finish, trigger
      <3>2. /\ worker[w].run \in 1..Len(runs) /\ Len(runs') = Len(runs)
            /\ \A q \in 1..Len(runs) :
                 runs'[q].status = IF q = worker[w].run THEN Outcome(w) ELSE runs[q].status
        BY <2>2, Finished
      <3>3. runs[worker[w].run].status \notin {"running", Outcome(w)} => worker[w].run \in revived'
        BY <2>2 DEF Finish
      <3> QED  BY <1>1, <1>2, <3>1, <3>2, <3>3, GoodStays
    <2>3. CASE Crash(w)
      <3>1. UNCHANGED <<gone, last>>
        BY <2>3 DEF Crash, trigger
      <3>2. /\ Len(runs') = Len(runs)
            /\ \A q \in 1..Len(runs) : runs'[q].status = runs[q].status \/ runs[q].status = "running"
        <4>1. CASE UNCHANGED runs
          BY <4>1
        <4>2. ASSUME worker[w].run # 0, runs[worker[w].run].status = "running",
                     SetStatus(worker[w].run, "failed")
              PROVE  /\ Len(runs') = Len(runs)
                     /\ \A q \in 1..Len(runs) : runs'[q].status = runs[q].status \/ runs[q].status = "running"
          <5>1. worker[w].run \in 1..Len(runs) /\ "failed" \in Statuses
            BY <1>1, <4>2 DEF Shape, Statuses
          <5> QED  BY <4>2, <5>1, StatusType DEF Typed
        <4> QED  BY <2>3, <4>1, <4>2 DEF Crash
      <3> QED  BY <1>1, <1>2, <3>1, <3>2, GoodStays
    <2>4. CASE SeeSlot(w) \/ SeeRetry(w) \/ Request(w) \/ Start(w) \/ RunStep(w) \/ Record(w)
      <3>1. UNCHANGED <<gone, last, runs>>
        BY <2>4, RunStepCases DEF SeeSlot, SeeRetry, Request, Start, Record, trigger
      <3> QED  BY <1>1, <1>2, <3>1, GoodStays
    <2> QED  BY <2>1, <2>2, <2>3, <2>4
  <1> QED  BY <1>2, <1>5, <1>6, NobodyClaims

LEMMA ClaimBeside ==
    ASSUME Typed, ClaimInv,
           RecoverOrphan \/ RecoverSlow \/ Cancel \/ Pause \/ Resume \/ Reply \/ UNCHANGED vars
    PROVE  ClaimInv'
  <1>1. /\ UNCHANGED <<started, restarted, gone, last, rewound, revived, worker>>
        /\ Len(runs) \in Nat /\ gone \in 0..MaxSlots
    BY DEF RecoverOrphan, RecoverSlow, Recover, Cancel, Pause, Resume, Reply, vars, trigger, history,
           Typed, TypeOK
  <1>2. next' = 0 \/ next' > gone'
    BY <1>1 DEF RecoverOrphan, RecoverSlow, Recover, Cancel, Pause, Resume, Reply, vars, trigger, ClaimInv
  <1>3. /\ Len(runs') = Len(runs)
        /\ \A q \in 1..Len(runs) : \/ runs'[q].status = runs[q].status
                                   \/ runs[q].status \in {"running", "retry_scheduled"}
    <2> DEFINE Goal == /\ Len(runs') = Len(runs)
                       /\ \A q \in 1..Len(runs) : \/ runs'[q].status = runs[q].status
                                                  \/ runs[q].status \in {"running", "retry_scheduled"}
    <2>1. CASE Resume \/ Reply \/ UNCHANGED vars
      BY <2>1 DEF Resume, Reply, vars
    <2>2. ASSUME NEW r \in 1..Len(runs), NEW status \in Statuses, SetStatus(r, status),
                 runs[r].status \in {"running", "retry_scheduled"}
          PROVE  Goal
      BY <2>2, StatusType DEF Typed
    <2>3. CASE RecoverOrphan \/ RecoverSlow
      <3>1. \A r \in 1..Len(runs) : Presumed(runs[r].attempt) \in Statuses
        BY DEF Presumed, Statuses
      <3> QED  BY <2>2, <2>3, <3>1 DEF RecoverOrphan, RecoverSlow, Recover
    <2>4. CASE Cancel
      <3>1. "cancelled" \in Statuses
        BY DEF Statuses
      <3> QED  BY <2>2, <2>4, <3>1 DEF Cancel
    <2>5. CASE Pause
      <3>1. runs' = [q \in 1..Len(runs) |-> IF runs[q].status = "retry_scheduled"
                                           THEN [runs[q] EXCEPT !.status = "cancelled"] ELSE runs[q]]
        BY <2>5 DEF Pause
      <3>2. runs' \in Seq(Run)
        BY <2>5, TypedBeside DEF Typed, TypeOK
      <3>3. Len(runs') = Len(runs)
        BY <1>1, <3>1, <3>2
      <3> QED  BY <3>1, <3>3
    <2> QED  BY <2>1, <2>3, <2>4, <2>5
  <1>4. \A d : Good(d) => Good(d)'
    BY <1>1, <1>3, GoodStays
  <1>5. \A v \in Workers : Holds(v)' => Holds(v) /\ Claimed(v)' = Claimed(v)
    BY <1>1 DEF Holds, Claimed
  <1> QED  BY <1>1, <1>2, <1>4, <1>5, NobodyClaims

LEMMA ClaimStep == Typed /\ ClaimInv /\ [Next]_vars => ClaimInv'
  BY ClaimOfSlot, ClaimOfRetry, ClaimMade, ClaimRest, ClaimBeside DEF Next, Work

\* A claim of the schedule starts one run; one of a reply or of a retry starts a
\* second run only when the time of the last run went back over the reply, or
\* the run to repeat wrote its end after it was given up.
THEOREM ClaimedOnce == Spec => []StartedOnce
  <1>1. Init => ClaimInv
    <2> SUFFICES ASSUME Init PROVE ClaimInv
      OBVIOUS
    <2>1. \A w \in Workers : ~Holds(w)
      BY DEF Init, Idle, Holds
    <2>2. next = 0 \/ next > gone
      BY DEF Init
    <2> QED  BY <2>1, <2>2 DEF Init, ClaimInv, StartedOnce
  <1>2. ClaimInv => StartedOnce
    BY DEF ClaimInv
  <1> QED  BY <1>1, <1>2, TypedInit, TypedStep, ClaimStep, PTL DEF Spec
=============================================================================
