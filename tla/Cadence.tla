------------------------------- MODULE Cadence -------------------------------
(***************************************************************************)
(* One prospect on one cadence: the row of cadence_enrollments that the    *)
(* tick of every container advances (packages/pipeline/src/cadence.ts),    *)
(* the conditions of its steps (cadence-conditions.ts), the cards they put *)
(* before a human (cadence-runner.ts), and the people who reply, accept,   *)
(* stop and decide while a pass is at work.                                *)
(*                                                                         *)
(* Nothing claims an enrollment: two containers in the middle of a deploy  *)
(* may run the same step.  `overlaps` counts the passes that began beside  *)
(* another; the properties say which promises need it not to.              *)
(*                                                                         *)
(* Time is relative to now: a due date is so many ticks away, and a pass   *)
(* is shorter than a tick (delays are counted in hours).                   *)
(***************************************************************************)
EXTENDS Integers, FiniteSets

CONSTANTS
    Passes,      \* containers whose tick calls runCadences
    Last,        \* position of the plan's last step
    Kinds,       \* a step's network and action
    Outbound,    \* those the conversation_open gate is about
    Kind, Delay, Condition, Window, StopOnReply,    \* the plan, by position
    Recheck,     \* ACCEPTANCE_RECHECK_HOURS
    Horizon,     \* the plan's length; what is later is not told apart
    MaxCrashes,  \* bound: passes that die or throw
    MaxOverlaps, \* bound: passes that begin beside another
    MaxUpsets    \* bound: both together

Steps == 0..Last

\* dueAtFor, counted from the enrollment: delays are relative to the step before.
DueAt[s \in Steps] == IF s = 0 THEN Delay[0] ELSE DueAt[s - 1] + Delay[s]

ASSUME CadenceAssumption ==
    /\ Last \in Nat
    /\ Kind \in [Steps -> Kinds] /\ Outbound \subseteq Kinds
    /\ Delay \in [Steps -> Nat] /\ Window \in [Steps -> Nat]
    /\ Condition \in [Steps -> {"always", "if_connected", "if_not_connected", "if_no_reply",
                                "if_clicked", "if_not_clicked"}]
    /\ StopOnReply \in [Steps -> BOOLEAN]
    /\ Recheck \in Nat \ {0} /\ Horizon \in Nat /\ MaxCrashes \in Nat /\ MaxOverlaps \in Nat
    /\ MaxUpsets \in Nat

\* The plan fits the horizon.
ASSUME HorizonAssumption == DueAt \in [Steps -> 0..Horizon]

VARIABLES
    age,         \* ticks since the enrollment, up to Horizon
    plan,        \* cadences.status
    enr,         \* the enrollment
    left,        \* ticks before the acceptance window of a connect step closes
    recorded,    \* positions with a row in cadence_step_runs
    pending,     \* pending cards of this person and campaign, by kind
    replied,     \* the state of their inbound interaction, by who noticed it
    connected,   \* linkedin_connections
    clicked,     \* their inbound click
    pass,        \* what each container's pass is doing to this enrollment
    overlaps,    \* history: passes that began while another was at work
    crashes

vars == <<age, plan, enr, left, recorded, pending, replied, connected, clicked, pass, overlaps, crashes>>
facts == <<replied, connected, clicked>>

-----------------------------------------------------------------------------

Never == -1    \* next_due_at IS NULL
Enrollment == [status : {"active", "stopped", "completed"}, step : Steps, due : Nat \cup {Never}]

PassRec == [pc : {"idle", "reply", "condition", "policy", "find", "insert",
                  "record", "move", "note"},
            step : Steps,
            ran : BOOLEAN,     \* the step's outcome is not "skipped"
            heard : BOOLEAN]   \* history: they had replied before the pass began
Idle == [pc |-> "idle", step |-> 0, ran |-> FALSE, heard |-> FALSE]

\* enrollInCadence: the first step is due after its own delay; a draft may be
\* enrolled into, and its status set later.
Init ==
    /\ age = 0
    /\ plan \in {"active", "paused"}
    /\ enr = [status |-> "active", step |-> 0, due |-> DueAt[0]]
    /\ left = [s \in Steps |-> 0]
    /\ recorded = {}
    /\ pending = [k \in Kinds |-> 0]
    /\ replied = "no" /\ connected \in BOOLEAN /\ clicked \in BOOLEAN
    /\ pass = [p \in Passes |-> Idle]
    /\ overlaps = 0 /\ crashes = 0

Busy == {p \in Passes : pass[p].pc # "idle"}
Goto(p, pc) == pass' = [pass EXCEPT ![p].pc = pc]
Leave(p) == pass' = [pass EXCEPT ![p] = Idle]

\* hasReplied and conversationOpen: both spellings.
Replied_Manual == replied = "replied"
Replied == replied \in {"replied", "responded"}

-----------------------------------------------------------------------------
(* advanceCadences: one due enrollment. *)

\* The due list.
IsDue == plan = "active" /\ enr.status = "active" /\ enr.due = 0

Pickup(p) ==
    /\ pass[p].pc = "idle"
    /\ IsDue
    /\ pass' = [pass EXCEPT ![p] = [pc |-> "reply", step |-> enr.step, ran |-> FALSE,
                                    heard |-> replied # "no"]]
    /\ overlaps' = IF Busy = {} THEN overlaps ELSE overlaps + 1
    /\ overlaps' <= MaxOverlaps /\ overlaps' + crashes <= MaxUpsets
    /\ UNCHANGED <<age, plan, enr, left, recorded, pending, facts, crashes>>

\* finish: no condition on the status it finds.
Ended(status) == [enr EXCEPT !.status = status, !.due = Never]

\* A reply ends the plan, first in the enrollment and then on the record.
CheckReply(p) ==
    /\ pass[p].pc = "reply"
    /\ \/ /\ StopOnReply[pass[p].step] /\ Replied
          /\ enr' = Ended("stopped")
          /\ Goto(p, "note")
       \/ /\ ~(StopOnReply[pass[p].step] /\ Replied)
          /\ Goto(p, "condition")
          /\ UNCHANGED enr
    /\ UNCHANGED <<age, plan, left, recorded, pending, facts, overlaps, crashes>>

Note(p) ==
    /\ pass[p].pc = "note"
    /\ recorded' = recorded \cup {pass[p].step}
    /\ Leave(p)
    /\ UNCHANGED <<age, plan, enr, left, pending, facts, overlaps, crashes>>

\* acceptanceWindowEnd: the nearest earlier connect step with a window.
Governing(s) == {g \in Steps : g < s /\ Window[g] > 0
                               /\ \A h \in Steps : h < s /\ Window[h] > 0 => h <= g}

\* resolveStepCondition.
Holds(condition) ==
    CASE condition = "if_connected"     -> connected
      [] condition = "if_not_connected" -> ~connected
      [] condition = "if_no_reply"      -> replied # "replied"    \* one spelling only
      [] condition = "if_clicked"       -> clicked
      [] condition = "if_not_clicked"   -> ~clicked
      [] OTHER                          -> TRUE

WindowOpen_Forever(s) == Governing(s) \cap recorded # {}
WindowOpen(s) == \E g \in Governing(s) : left[g] > 0

MustWait(s) ==
    /\ Condition[s] \in {"if_connected", "if_not_connected"} /\ ~connected
    /\ WindowOpen(s)

\* Until the next look or the end of the window, whichever is first.
NextLook(s) == CHOOSE n \in {Recheck} \cup {left[g] : g \in Governing(s)} :
                 n <= Recheck /\ \A g \in Governing(s) : n <= left[g]

CheckCondition(p) ==
    LET s == pass[p].step IN
    /\ pass[p].pc = "condition"
    /\ \/ /\ MustWait(s)
          /\ enr' = [enr EXCEPT !.due = NextLook(s)]
          /\ Leave(p)
       \/ /\ ~MustWait(s)
          /\ Goto(p, IF Holds(Condition[s]) THEN "policy" ELSE "record")
          /\ UNCHANGED enr
    /\ UNCHANGED <<age, plan, left, recorded, pending, facts, overlaps, crashes>>

\* policyFor and evaluatePolicy: an open conversation refuses an outbound step,
\* and the other gates may refuse any.
Policy(p) ==
    /\ pass[p].pc = "policy"
    /\ \/ Goto(p, "record")
       \/ ~(Kind[pass[p].step] \in Outbound /\ Replied) /\ Goto(p, "find")
    /\ UNCHANGED <<age, plan, enr, left, recorded, pending, facts, overlaps, crashes>>

\* writeCadenceRecommendation: a pending card of the kind is used again ...
HasCard_Never(kind) == FALSE
HasCard(kind) == pending[kind] > 0

FindCard(p) ==
    /\ pass[p].pc = "find"
    /\ \E pc \in {"record", "insert"} :
         /\ pc = "record" <=> HasCard(Kind[pass[p].step])
         /\ pass' = [pass EXCEPT ![p] = [@ EXCEPT !.pc = pc, !.ran = TRUE]]
    /\ UNCHANGED <<age, plan, enr, left, recorded, pending, facts, overlaps, crashes>>

\* ... and otherwise inserted.
InsertCard(p) ==
    /\ pass[p].pc = "insert"
    /\ pending' = [pending EXCEPT ![Kind[pass[p].step]] = @ + 1]
    /\ Goto(p, "record")
    /\ UNCHANGED <<age, plan, enr, left, recorded, facts, overlaps, crashes>>

\* record: the row that opens the acceptance window of a connect step that ran.
Record(p) ==
    LET s == pass[p].step IN
    /\ pass[p].pc = "record"
    /\ recorded' = recorded \cup {s}
    /\ left' = IF pass[p].ran THEN [left EXCEPT ![s] = Window[s]] ELSE left
    /\ Goto(p, "move")
    /\ UNCHANGED <<age, plan, enr, pending, facts, overlaps, crashes>>

\* moveOn: from the snapshot, the date from the enrollment's.
DueIn_OwnDelay(n) == IF Delay[n] > age THEN Delay[n] - age ELSE 0
DueIn(n) == IF DueAt[n] > age THEN DueAt[n] - age ELSE 0

Following_CatchUp(s) ==    \* all that is overdue at once
    IF \E n \in Steps : n > s /\ DueAt[n] > age
    THEN CHOOSE n \in Steps : n > s /\ DueAt[n] > age /\ \A m \in Steps : m > s /\ DueAt[m] > age => n <= m
    ELSE s + 1
Following(s) == s + 1

MoveOn(p) ==
    LET n == Following(pass[p].step) IN
    /\ pass[p].pc = "move"
    /\ enr' = IF n > Last THEN Ended("completed")
              ELSE [enr EXCEPT !.step = n, !.due = DueIn(n)]
    /\ Leave(p)
    /\ UNCHANGED <<age, plan, left, recorded, pending, facts, overlaps, crashes>>

\* The container dies, or a statement throws: tick logs it and goes on.
Crash(p) ==
    /\ crashes < MaxCrashes /\ overlaps + crashes < MaxUpsets
    /\ p \in Busy
    /\ crashes' = crashes + 1
    /\ Leave(p)
    /\ UNCHANGED <<age, plan, enr, left, recorded, pending, facts, overlaps>>

-----------------------------------------------------------------------------
(* Everyone else. *)

Soon_Below(n) == n - 1
Soon(n) == IF n > 0 THEN n - 1 ELSE n
Tick ==
    /\ Busy = {}
    /\ age < Horizon \/ enr.due > 0 \/ \E s \in Steps : left[s] > 0
    /\ age' = IF age < Horizon THEN age + 1 ELSE Horizon
    /\ enr' = [enr EXCEPT !.due = Soon(@)]
    /\ left' = [s \in Steps |-> Soon(left[s])]
    /\ UNCHANGED <<plan, recorded, pending, facts, pass, overlaps, crashes>>

\* setCadenceStatus.
SetStatus ==
    /\ plan' = IF plan = "active" THEN "paused" ELSE "active"
    /\ UNCHANGED <<age, enr, left, recorded, pending, facts, pass, overlaps, crashes>>

\* stopEnrollment, and markAddressBounced when the address bounces.
TakeOff ==
    /\ enr.status = "active"
    /\ enr' = Ended("stopped")
    /\ UNCHANGED <<age, plan, left, recorded, pending, facts, pass, overlaps, crashes>>

\* A reply, noticed by the mailbox poll or entered by hand.
Reply ==
    /\ replied = "no"
    /\ replied' \in {"responded", "replied"}
    /\ UNCHANGED <<age, plan, enr, left, recorded, pending, connected, clicked, pass, overlaps, crashes>>

Accept ==
    /\ ~connected
    /\ connected' = TRUE
    /\ UNCHANGED <<age, plan, enr, left, recorded, pending, replied, clicked, pass, overlaps, crashes>>

\* The first click of a person on a tracked link; scanners' clicks are no facts.
Click ==
    /\ ~clicked
    /\ clicked' = TRUE
    /\ UNCHANGED <<age, plan, enr, left, recorded, pending, replied, connected, pass, overlaps, crashes>>

\* A card is approved or dismissed.
Decide(k) ==
    /\ pending[k] > 0
    /\ pending' = [pending EXCEPT ![k] = @ - 1]
    /\ UNCHANGED <<age, plan, enr, left, recorded, facts, pass, overlaps, crashes>>

Advance(p) == \/ Pickup(p) \/ CheckReply(p) \/ Note(p) \/ CheckCondition(p) \/ Policy(p)
              \/ FindCard(p) \/ InsertCard(p) \/ Record(p) \/ MoveOn(p)

Next ==
    \/ \E p \in Passes : Advance(p) \/ Crash(p)
    \/ Tick \/ SetStatus \/ TakeOff \/ Reply \/ Accept \/ Click
    \/ \E k \in Kinds : Decide(k)

Spec == Init /\ [][Next]_vars

\* The loop of every container runs, and time passes.
FairSpec == Spec /\ WF_vars(Tick) /\ \A p \in Passes : WF_vars(Advance(p))

-----------------------------------------------------------------------------
(***************************************************************************)
(* Properties                                                              *)
(***************************************************************************)

TypeOK ==
    /\ age \in 0..Horizon
    /\ plan \in {"active", "paused"}
    /\ enr \in Enrollment
    /\ left \in [Steps -> Nat]
    /\ recorded \subseteq Steps
    /\ pending \in [Kinds -> Nat]
    /\ replied \in {"no", "responded", "replied"} /\ connected \in BOOLEAN /\ clicked \in BOOLEAN
    /\ pass \in [Passes -> PassRec]
    /\ overlaps \in 0..MaxOverlaps /\ crashes \in 0..MaxCrashes

\* Every step the plan has passed is on the record, as run or as skipped,
\* however passes overlap, write old pointers back or die (advanceCadences:
\* "One step per enrollment per tick, never a catch-up loop").
NoStepLost ==
    \A s \in Steps : s < enr.step \/ enr.status = "completed" => s \in recorded

\* One card of a kind waits for a decision, unless passes overlapped
\* (writeCadenceRecommendation: "A second one would be the same ask twice").
OneAsk == overlaps = 0 => \A k \in Kinds : pending[k] <= 1

\* No step asks before its date, whatever was late, paused or waited for,
\* unless passes overlapped: a wait is written without looking at the pointer.
NeverEarly ==
    overlaps = 0 => \A p \in Passes : pass[p].pc \in {"find", "insert"} => age >= DueAt[pass[p].step]

\* A pass that began after a reply, whoever noticed it, puts no outbound card
\* in front of anybody (hasReplied: "reading only the second meant a reply
\* noticed by the poll never stopped a plan").
NoCardAfterReply ==
    \A p \in Passes : pass[p].pc \in {"find", "insert"} /\ pass[p].heard
                        => Kind[pass[p].step] \notin Outbound /\ ~StopOnReply[pass[p].step]

\* A running plan comes to its end, over acceptance windows and crashes.
PlanEnds ==
    (enr.status = "active" /\ plan = "active") ~> (enr.status # "active" \/ plan # "active")
=============================================================================
