------------------------- MODULE OutreachSendProofs -------------------------
(***************************************************************************)
(* Theorems about OutreachSend, for any number of autopilot runs, requests,*)
(* mailboxes and action rows, and whatever else may happen to the card.    *)
(***************************************************************************)
EXTENDS OutreachSend, FiniteSetTheorems, WellFoundedInduction, TLAPS

(***************************************************************************)
(* Types                                                                   *)
(***************************************************************************)

\* A process at rest and a row that was never inserted are well typed.
LEMMA NullsTyped == Idle \in ProcRec /\ NoAction \in ActionRec
  <1>1. 1 \in Actions
    BY SendAssumption DEF Actions
  <1> QED BY <1>1 DEF Idle, ProcRec, Pcs, NoAction, ActionRec, ActionStatuses

\* One field after another, a process and a row keep their types.
LEMMA ProcTyped ==
    ASSUME NEW r \in ProcRec, NEW pc \in Pcs
    PROVE  /\ [r EXCEPT !.pc = pc] \in ProcRec
           /\ \A a \in Actions : [r EXCEPT !.pc = pc, !.action = a] \in ProcRec
           /\ \A m \in Mailboxes : [r EXCEPT !.pc = pc, !.mailbox = m] \in ProcRec
           /\ \A e \in Answers \cup {"dberror"} : [r EXCEPT !.pc = pc, !.answer = e] \in ProcRec
           /\ \A l \in SUBSET {"off", "optout"} : [r EXCEPT !.pc = pc, !.late = l] \in ProcRec
  BY DEF ProcRec

\* A process that starts.
LEMMA StartTyped ==
    ASSUME NEW pc \in Pcs, NEW role \in {"run", "api", "job"}
    PROVE  /\ [Idle EXCEPT !.pc = pc, !.role = role] \in ProcRec
           /\ \A a \in Actions : [Idle EXCEPT !.pc = pc, !.role = role, !.action = a] \in ProcRec
           /\ \A b \in BOOLEAN : [Idle EXCEPT !.pc = pc, !.role = role, !.paced = b] \in ProcRec
  BY NullsTyped DEF ProcRec

\* A row whose status, sender, error or hand is written.
LEMMA RowTyped ==
    ASSUME NEW r \in ActionRec, NEW st \in ActionStatuses
    PROVE  /\ [r EXCEPT !.status = st] \in ActionRec
           /\ \A b \in BOOLEAN : [r EXCEPT !.status = st, !.byHand = b] \in ActionRec
           /\ \A e \in {"none", "paused", "other"} : [r EXCEPT !.status = st, !.error = e] \in ActionRec
           /\ \A m \in Mailboxes \cup {NoMailbox} : /\ [r EXCEPT !.sender = m] \in ActionRec
                                                 /\ [r EXCEPT !.status = st, !.sender = m] \in ActionRec
  BY DEF ActionRec

\* The steps a process can be at, and the statuses of a row, one by one.
LEMMA PcsAre ==
    /\ "idle" \in Pcs /\ "turn" \in Pcs /\ "cleared" \in Pcs /\ "picked" \in Pcs
    /\ "approving" \in Pcs /\ "approved" \in Pcs /\ "picking" \in Pcs /\ "checking" \in Pcs
    /\ "naming" \in Pcs /\ "sending" \in Pcs /\ "waiting" \in Pcs /\ "sent" \in Pcs
    /\ "closing" \in Pcs /\ "failed" \in Pcs /\ "handling" \in Pcs
    /\ "rechecking" \in Pcs /\ "cancelling" \in Pcs /\ "marking" \in Pcs
  BY DEF Pcs
LEMMA StatusesAre ==
    /\ "none" \in ActionStatuses /\ "queued" \in ActionStatuses /\ "completed" \in ActionStatuses
    /\ "failed" \in ActionStatuses /\ "cancelled" \in ActionStatuses
  BY DEF ActionStatuses

\* One process moves, to a typed record: the table stays typed.
LEMMA MoveTyped ==
    ASSUME TypeOK, NEW p \in Procs, NEW r \in ProcRec, proc' = [proc EXCEPT ![p] = r]
    PROVE  proc' \in [Procs -> ProcRec]
  BY DEF TypeOK

\* The same for one action row.
LEMMA WriteTyped ==
    ASSUME TypeOK, NEW a \in Actions, NEW r \in ActionRec, actions' = [actions EXCEPT ![a] = r]
    PROVE  actions' \in [Actions -> ActionRec]
  BY DEF TypeOK

\* What the tables hold for one process.
LEMMA Entry ==
    ASSUME TypeOK, NEW p \in Procs
    PROVE  /\ proc[p] \in ProcRec /\ proc[p].action \in Actions
           /\ proc[p].mailbox \in Mailboxes \cup {NoMailbox}
           /\ proc[p].answer \in Answers \cup {"none", "dberror"}
           /\ \A a \in Actions : actions[a] \in ActionRec
  BY DEF TypeOK, ProcRec

\* What the three ways a process moves on leave of it, and of the others.
LEMMA GotoStep ==
    ASSUME TypeOK, NEW p \in Procs, NEW pc, Goto(p, pc)
    PROVE  /\ proc' = [proc EXCEPT ![p] = proc'[p]]
           /\ proc'[p] = [proc[p] EXCEPT !.pc = pc]
           /\ proc'[p].pc = pc /\ proc'[p].action = proc[p].action
           /\ proc'[p].mailbox = proc[p].mailbox /\ proc'[p].answer = proc[p].answer
           /\ proc'[p].late = proc[p].late /\ proc'[p].role = proc[p].role
           /\ \A q \in Procs \ {p} : proc'[q] = proc[q]
           /\ pc \in Pcs => proc' \in [Procs -> ProcRec]
  BY DEF Goto, TypeOK, ProcRec

LEMMA StopStep ==
    ASSUME TypeOK, NEW p \in Procs, Stop(p)
    PROVE  /\ proc' \in [Procs -> ProcRec]
           /\ proc'[p].pc = "idle" /\ proc'[p].answer = "none" /\ proc'[p].mailbox = NoMailbox
           /\ proc'[p].role = "none"
           /\ \A q \in Procs \ {p} : proc'[q] = proc[q]
  BY NullsTyped DEF Stop, TypeOK, Idle

LEMMA FailsStep ==
    ASSUME TypeOK, NEW p \in Procs, NEW answer \in Answers \cup {"dberror"}, Fails(p, answer)
    PROVE  /\ proc' \in [Procs -> ProcRec]
           /\ proc'[p].pc = "failed" /\ proc'[p].answer = answer
           /\ proc'[p].action = proc[p].action /\ proc'[p].mailbox = proc[p].mailbox
           /\ proc'[p].role = proc[p].role
           /\ \A q \in Procs \ {p} : proc'[q] = proc[q]
  <1>1. proc[p] \in ProcRec /\ proc[p].action \in Actions
    BY DEF TypeOK, ProcRec
  <1>2. proc'[p] = [proc[p] EXCEPT !.pc = "failed", !.answer = answer]
    BY DEF Fails, TypeOK
  <1>3. [proc[p] EXCEPT !.pc = "failed", !.answer = answer] \in ProcRec
    BY <1>1, PcsAre, ProcTyped
  <1>4. /\ proc'[p].pc = "failed" /\ proc'[p].answer = answer
        /\ proc'[p].action = proc[p].action /\ proc'[p].mailbox = proc[p].mailbox
        /\ proc'[p].role = proc[p].role
    BY <1>1, <1>2 DEF ProcRec
  <1> QED BY <1>2, <1>3, <1>4 DEF Fails, TypeOK

\* The order of the rows stays within their number.
LEMMA LatestTyped == TypeOK => \A a \in Actions : Latest(a) \in [Actions -> 0..MaxActions]
  BY SendAssumption DEF TypeOK, Latest, Actions

\* An INSERT: the row was not there, and the others stay.
LEMMA InsertStep ==
    ASSUME TypeOK, NEW a \in Actions, NEW m \in Mailboxes \cup {NoMailbox}, Insert(a, m)
    PROVE  /\ actions' \in [Actions -> ActionRec] /\ fresh' \subseteq Actions
           /\ recent' \in [Actions -> 0..MaxActions]
           /\ actions[a].status = "none"
           /\ actions'[a].status = "queued" /\ actions'[a].sender = m
           /\ \A b \in Actions \ {a} : actions'[b] = actions[b]
  <1>1. [NoAction EXCEPT !.status = "queued", !.sender = m] \in ActionRec
    BY NullsTyped, RowTyped, StatusesAre
  <1>2. [NoAction EXCEPT !.status = "queued", !.sender = m].status = "queued"
        /\ [NoAction EXCEPT !.status = "queued", !.sender = m].sender = m
    BY DEF NoAction
  <1> QED BY <1>1, <1>2, LatestTyped DEF Insert, IsNext, TypeOK

\* Every step keeps the types.
LEMMA TypeStep == TypeOK /\ [Next]_vars => TypeOK'
  <1> SUFFICES ASSUME TypeOK, [Next]_vars PROVE TypeOK'
    OBVIOUS
  <1> USE DEF card, optOut, rows
  <1>1. ASSUME NEW p \in Procs, StartRun(p) \/ Turn(p) \/ Approve(p) PROVE TypeOK'
    <2>1. proc' \in [Procs -> ProcRec]
      <3>1. CASE StartRun(p)
        BY <3>1, StartTyped, PcsAre DEF StartRun, TypeOK
      <3>2. CASE Turn(p)
        <4>1. CASE Stop(p)
          BY <4>1, StopStep
        <4>2. CASE ~Stop(p)
          <5> DEFINE l == {w \in {"off"} : ~trusted} \cup {w \in {"optout"} : optedOut}
          <5>1. proc' = [proc EXCEPT ![p] = [@ EXCEPT !.pc = "cleared", !.late = l]]
            BY <3>2, <4>2 DEF Turn
          <5>2. l \in SUBSET {"off", "optout"}
            OBVIOUS
          <5> HIDE DEF l
          <5>3. [proc[p] EXCEPT !.pc = "cleared", !.late = l] \in ProcRec
            BY <5>2, Entry, PcsAre, ProcTyped
          <5> QED BY <5>1, <5>3 DEF TypeOK
        <4> QED BY <4>1, <4>2
      <3>3. CASE Approve(p)
        <4>1. Paced({}) \in BOOLEAN
          BY DEF Paced
        <4> QED BY <3>3, <4>1, StartTyped, PcsAre DEF Approve, TypeOK
      <3> QED BY <1>1, <3>1, <3>2, <3>3
    <2> QED BY <1>1, <2>1 DEF StartRun, Turn, Approve, TypeOK
  <1>2. ASSUME NEW p \in Procs, MailerForSend(p) PROVE TypeOK'
    <2>1. CASE \E m \in Mailboxes : Choose(p, m)
      <3>1. PICK m \in Mailboxes : Choose(p, m)
        BY <2>1
      <3>2. proc' \in [Procs -> ProcRec]
        BY <3>1, Entry, PcsAre, ProcTyped DEF Choose, TypeOK
      <3> QED BY <3>1, <3>2 DEF Choose, TypeOK
    <2>2. CASE Defer(p)
      <3>1. held' \subseteq Actions
        BY <2>2 DEF Defer, Hold, TypeOK, ProcRec
      <3> QED BY <2>2, <3>1, StopStep DEF Defer, TypeOK
    <2>3. CASE NoneActive(p)
      BY <2>3, StopStep DEF NoneActive, TypeOK
    <2> QED BY <1>2, <2>1, <2>2, <2>3 DEF MailerForSend
  <1>3. ASSUME NEW p \in Procs, NEW a \in Actions, InsertRow(p, a) PROVE TypeOK'
    <2>1. proc[p].mailbox \in Mailboxes \cup {NoMailbox}
      BY DEF TypeOK, ProcRec
    <2>2. proc' \in [Procs -> ProcRec]
      BY <1>3, Entry, PcsAre, ProcTyped DEF InsertRow, TypeOK
    <2> QED BY <1>3, <2>1, <2>2, InsertStep DEF InsertRow, TypeOK
  <1>4. ASSUME NEW p \in Procs, NEW a \in Actions, RecordAction(p, a) PROVE TypeOK'
    <2>1. proc' \in [Procs -> ProcRec] /\ held' \subseteq Actions
      <3>1. [proc[p] EXCEPT !.pc = "picking", !.action = a] \in ProcRec
        BY Entry, PcsAre, ProcTyped
      <3> QED BY <1>4, <3>1, StopStep, ZenonT(40) DEF RecordAction, TypeOK
    <2> QED BY <1>4, <2>1, InsertStep DEF RecordAction, TypeOK
  <1>5. ASSUME NEW p \in Procs, MarkApproved(p) \/ Deliver(p) PROVE TypeOK'
    BY <1>5, GotoStep, PcsAre DEF MarkApproved, Deliver, TypeOK, RecStatuses
  <1>6. ASSUME NEW p \in Procs, NEW a \in Actions, Execute(p, a) PROVE TypeOK'
    <2>1. proc' \in [Procs -> ProcRec]
      BY <1>6, StartTyped, PcsAre DEF Execute, TypeOK
    <2> QED BY <1>6, <2>1 DEF Execute, TypeOK
  <1>7. ASSUME NEW p \in Procs, NEW a \in Actions, Job(p, a) PROVE TypeOK'
    <2>1. proc' \in [Procs -> ProcRec]
      <3>1. [Idle EXCEPT !.pc = "rechecking", !.role = "job", !.action = a] \in ProcRec
        BY StartTyped, PcsAre
      <3> QED BY <1>7, <3>1 DEF Job, TypeOK
    <2> QED BY <1>7, <2>1 DEF Job, TypeOK
  <1>20. ASSUME NEW p \in Procs, Recheck(p) PROVE TypeOK'
    BY <1>20, GotoStep, PcsAre DEF Recheck, TypeOK
  <1>21. ASSUME NEW p \in Procs, CancelHeld(p) PROVE TypeOK'
    <2>1. actions' \in [Actions -> ActionRec] /\ excused' \subseteq {"overlap", "moved", "doubt", "reused"}
      <3>1. [actions[proc[p].action] EXCEPT !.status = "cancelled"] \in ActionRec
        BY Entry, RowTyped, StatusesAre
      <3> QED BY <1>21, <3>1 DEF CancelHeld, Reused, TypeOK
    <2> QED BY <1>21, <2>1, StopStep DEF CancelHeld, TypeOK
  <1>8. ASSUME NEW p \in Procs, AssignSender(p) PROVE TypeOK'
    <2>1. actions' \in [Actions -> ActionRec] /\ excused' \subseteq {"overlap", "moved", "doubt", "reused"}
      BY <1>8, Entry, RowTyped, StatusesAre DEF AssignSender, Named, Reused, TypeOK
    <2> QED BY <1>8, <2>1, GotoStep, PcsAre DEF AssignSender, TypeOK
  <1>9. ASSUME NEW p \in Procs, DeliverStops(p) PROVE TypeOK'
    <2>1. proc[p].action \in Actions
      BY DEF TypeOK, ProcRec
    <2>2. held' \subseteq Actions
      BY <1>9, <2>1 DEF DeliverStops, Hold, TypeOK
    <2>3. rec' \in RecStatuses
      BY <1>9 DEF DeliverStops, TypeOK, RecStatuses
    <2>4. actions' \in [Actions -> ActionRec]
      <3>1. /\ [actions[proc[p].action] EXCEPT !.status = "cancelled"] \in ActionRec
            /\ [actions[proc[p].action] EXCEPT !.status = "failed", !.error = "other"] \in ActionRec
        BY <2>1, RowTyped, StatusesAre DEF TypeOK
      <3> QED BY <1>9, <2>1, <3>1 DEF DeliverStops, TypeOK
    <2>5. excused' \subseteq {"overlap", "moved", "doubt", "reused"}
      BY <1>9 DEF DeliverStops, TypeOK, Doubt
    <2> QED BY <1>9, <2>2, <2>3, <2>4, <2>5, StopStep DEF DeliverStops, TypeOK
  <1>10. ASSUME NEW p \in Procs, Submit(p) PROVE TypeOK'
    <2>1. mail' \in [Mailboxes -> MailStates]
      BY <1>10 DEF Submit, TypeOK, MailStates
    <2> QED BY <1>10, <2>1, GotoStep, PcsAre DEF Submit, TypeOK
  <1>11. ASSUME NEW p \in Procs, Gate(p) \/ Return(p) PROVE TypeOK'
    <2>1. proc' \in [Procs -> ProcRec]
      <3>1. /\ "receipt" \in Answers /\ "paused" \in Answers /\ "suppressed" \in Answers
            /\ "quota" \in Answers /\ "pending" \in Answers /\ "uncertain" \in Answers
            /\ "refused" \in Answers /\ "exhausted" \in Answers
        BY DEF Answers
      <3>2. CASE Gate(p)
        BY <3>1, <3>2, FailsStep DEF Gate
      <3>3. CASE Return(p)
        <4>1. [proc[p] EXCEPT !.pc = "sent", !.answer = "receipt"] \in ProcRec
          BY <3>1, Entry, PcsAre, ProcTyped
        <4> QED BY <3>1, <3>3, <4>1, FailsStep DEF Return, TypeOK
      <3> QED BY <1>11, <3>2, <3>3
    <2> QED BY <1>11, <2>1 DEF Gate, Return, TypeOK
  <1>12. ASSUME NEW p \in Procs, MarkCompleted(p) \/ RecordInteraction(p) \/ MarkExecuted(p)
         PROVE  TypeOK'
    <2>1. proc[p].action \in Actions
      BY DEF TypeOK, ProcRec
    <2>2. proc' \in [Procs -> ProcRec]
      BY <1>12, FailsStep, GotoStep, StopStep, PcsAre
         DEF MarkCompleted, RecordInteraction, MarkExecuted
    <2>3. actions' \in [Actions -> ActionRec] /\ recent' \in [Actions -> 0..MaxActions]
      <3>1. [actions[proc[p].action] EXCEPT !.status = "completed"] \in ActionRec
        BY <2>1, RowTyped, StatusesAre DEF TypeOK
      <3> QED BY <1>12, <2>1, <3>1, LatestTyped
              DEF MarkCompleted, RecordInteraction, MarkExecuted, TypeOK
    <2>4. mailed' \subseteq Actions /\ rec' \in RecStatuses
      BY <1>12, <2>1 DEF MarkCompleted, RecordInteraction, MarkExecuted, TypeOK, RecStatuses
    <2> QED BY <1>12, <2>2, <2>3, <2>4 DEF MarkCompleted, RecordInteraction, MarkExecuted, TypeOK
  <1>13. ASSUME NEW p \in Procs, RecordFailure(p) PROVE TypeOK'
    <2>1. actions' \in [Actions -> ActionRec]
      BY <1>13, Entry, RowTyped, StatusesAre DEF RecordFailure, ErrorOf, TypeOK
    <2>2. excused' \subseteq {"overlap", "moved", "doubt", "reused"}
      BY <1>13 DEF RecordFailure, Doubt, TypeOK
    <2> QED BY <1>13, <2>1, <2>2, GotoStep, PcsAre DEF RecordFailure, TypeOK
  <1>14. ASSUME NEW p \in Procs, HandleFailure(p) PROVE TypeOK'
    <2>1. held' \subseteq Actions
      BY <1>14 DEF HandleFailure, Hold, TypeOK, ProcRec
    <2>2. /\ status' \in [Mailboxes -> {"active", "stopped", "gone"}]
          /\ optedOut' \in BOOLEAN /\ rec' \in RecStatuses
      BY <1>14 DEF HandleFailure, Suppressed, Stopped, TypeOK, RecStatuses
    <2> QED BY <1>14, <2>1, <2>2, StopStep DEF HandleFailure, TypeOK
  <1>15. ASSUME NEW p \in Procs, Crash(p) PROVE TypeOK'
    <2>1. held' \subseteq Actions
      BY <1>15 DEF Crash, TypeOK, ProcRec
    <2> QED BY <1>15, <2>1, StopStep DEF Crash, TypeOK
  <1>16. ASSUME NEW m \in Mailboxes, Queue(m) PROVE TypeOK'
    <2>1. mail' \in [Mailboxes -> MailStates]
      BY <1>16 DEF Queue, ProviderTakes, QueueRecords, ProviderRefuses, TypeOK, MailStates
    <2> QED BY <1>16, <2>1 DEF Queue, ProviderTakes, QueueRecords, ProviderRefuses, TypeOK
  <1>17. ASSUME NEW m \in Mailboxes, NEW to \in {"active", "stopped", "gone"}, SetMailbox(m, to)
         PROVE  TypeOK'
    BY <1>17 DEF SetMailbox, TypeOK
  <1>18. ASSUME NEW a \in Actions, ByHand(a) PROVE TypeOK'
    <2>1. actions' \in [Actions -> ActionRec]
      BY <1>18, RowTyped, StatusesAre DEF ByHand, TypeOK
    <2> QED BY <1>18, <2>1, LatestTyped DEF ByHand, Reused, TypeOK, RecStatuses
  <1>19. CASE Dismiss \/ SwitchAutopilot \/ Unsubscribe \/ WeekPasses \/ UNCHANGED vars
    BY <1>19 DEF Dismiss, SwitchAutopilot, Unsubscribe, Suppressed, WeekPasses, vars, TypeOK, RecStatuses
  <1> QED BY <1>1, <1>2, <1>3, <1>4, <1>5, <1>6, <1>7, <1>8, <1>9, <1>10, <1>11, <1>12, <1>13,
             <1>14, <1>15, <1>16, <1>17, <1>18, <1>19, <1>20, <1>21 DEF Next, Step

\* It starts well typed.
LEMMA InitTyped == Init => TypeOK
  <1> SUFFICES ASSUME Init PROVE TypeOK
    OBVIOUS
  <1>1. actions \in [Actions -> ActionRec] /\ proc \in [Procs -> ProcRec]
    BY NullsTyped DEF Init
  <1>2. recent \in [Actions -> 0..MaxActions]
    BY SendAssumption DEF Init, Actions
  <1> QED BY <1>1, <1>2 DEF Init, TypeOK, RecStatuses, MailStates

\* The card, its rows, the mailboxes and the processes are always well typed.
THEOREM TypeCorrect == Spec => []TypeOK
  BY InitTyped, TypeStep, PTL DEF Spec

-----------------------------------------------------------------------------
(***************************************************************************)
(* The books: who works on a row works on one that exists, who has a       *)
(* mailbox has one, and a receipt stands for a message the queue sent.     *)
(***************************************************************************)
HasRow(p) == proc[p].pc \in {"rechecking", "cancelling", "picking", "checking", "naming",
                             "sending", "waiting", "sent", "closing", "marking", "failed", "handling"}
HasMailbox(p) == proc[p].pc \in {"picked", "checking", "naming", "sending", "waiting", "sent",
                                 "closing", "marking", "failed", "handling"}
Answered(p) == proc[p].pc \in {"sent", "closing", "marking", "failed", "handling"}
Receipted(p) == proc[p].pc \in {"sent", "closing", "marking"}
ByProduct(a) == actions[a].status = "completed" /\ ~actions[a].byHand

RowsExist ==
    /\ \A p \in Procs : HasRow(p) => actions[proc[p].action].status # "none"
    /\ \A a \in held : actions[a].status # "none"
    /\ \A a \in Actions : actions[a].status = "none" => actions[a].sender = NoMailbox
Equipped(p) ==
    /\ HasMailbox(p) => proc[p].mailbox \in Mailboxes
    /\ ~Answered(p) => proc[p].answer = "none"
    /\ Receipted(p) => mail[proc[p].mailbox] = "sent"
    /\ proc[p].pc \in {"turn", "cleared"} => proc[p].role = "run"
    /\ proc[p].role = "job" => HasRow(p)
WentOut == \A a \in Actions : ByProduct(a) => Delivered # {}
Books == TypeOK /\ RowsExist /\ (\A p \in Procs : Equipped(p)) /\ WentOut

\* Only a submission and the queue itself touch the mail.
LEMMA MailMoves ==
    ASSUME [Next]_vars
    PROVE  (\E p \in Procs : Submit(p)) \/ (\E m \in Mailboxes : Queue(m)) \/ UNCHANGED mail
  <1>1. ASSUME NEW p \in Procs, Step(p) PROVE Submit(p) \/ mail' = mail
    BY <1>1 DEF Step, StartRun, Turn, InsertRow, MailerForSend, Choose, Defer, NoneActive,
         Approve, MarkApproved, RecordAction, Execute, Job, Deliver, DeliverStops,
         Recheck, CancelHeld, AssignSender, Gate, Return, MarkCompleted, RecordInteraction,
         MarkExecuted, RecordFailure, HandleFailure, Crash
  <1>2. ASSUME NEW m \in Mailboxes, NEW to, SetMailbox(m, to) PROVE mail' = mail
    BY <1>2 DEF SetMailbox
  <1>3. ASSUME NEW a \in Actions, ByHand(a) PROVE mail' = mail
    BY <1>3 DEF ByHand
  <1>4. Dismiss \/ SwitchAutopilot \/ Unsubscribe \/ WeekPasses \/ UNCHANGED vars => mail' = mail
    BY DEF Dismiss, SwitchAutopilot, Unsubscribe, WeekPasses, vars
  <1> QED BY <1>1, <1>2, <1>3, <1>4 DEF Next

\* Rows stay, and what a queue has sent stays sent.
LEMMA NothingVanishes ==
    ASSUME TypeOK, RowsExist, [Next]_vars
    PROVE  /\ \A a \in Actions : actions[a].status # "none" => actions'[a].status # "none"
           /\ \A m \in Mailboxes : mail[m] = "sent" => mail'[m] = "sent"
           /\ Delivered \subseteq Delivered'
  <1>1. \A m \in Mailboxes : (mail[m] = "sent" => mail'[m] = "sent")
                             /\ (mail[m] = "taken" => mail'[m] \in {"taken", "sent"})
    <2>1. ASSUME NEW p \in Procs, Submit(p)
          PROVE  \A m \in Mailboxes : mail[m] \in {"taken", "sent"} => mail'[m] = mail[m]
      BY <2>1 DEF Submit, Starts, TypeOK
    <2>2. ASSUME NEW n \in Mailboxes, Queue(n)
          PROVE  \A m \in Mailboxes : /\ mail[m] = "sent" => mail'[m] = "sent"
                                      /\ mail[m] = "taken" => mail'[m] \in {"taken", "sent"}
      BY <2>2 DEF Queue, ProviderTakes, QueueRecords, ProviderRefuses, TypeOK
    <2>3. (\E p \in Procs : Submit(p)) \/ (\E m \in Mailboxes : Queue(m)) \/ UNCHANGED mail
      BY MailMoves
    <2> QED BY <2>1, <2>2, <2>3
  <1>2. \A a \in Actions : actions[a].status # "none" => actions'[a].status # "none"
    <2>1. ASSUME NEW p \in Procs, NEW a \in Actions, InsertRow(p, a) \/ RecordAction(p, a)
          PROVE  \A b \in Actions : actions[b].status # "none" => actions'[b].status # "none"
      <3>1. \E m \in Mailboxes \cup {NoMailbox} : Insert(a, m)
        BY <2>1, Entry DEF InsertRow, RecordAction
      <3> QED BY <3>1, InsertStep
    <2>2. ASSUME NEW p \in Procs, CancelHeld(p)
          PROVE  \A b \in Actions : actions[b].status # "none" => actions'[b].status # "none"
      BY <2>2, Entry DEF CancelHeld, TypeOK, ActionRec
    <2>3. ASSUME NEW a \in Actions, ByHand(a)
          PROVE  \A b \in Actions : actions[b].status # "none" => actions'[b].status # "none"
      BY <2>3 DEF ByHand, TypeOK, ActionRec
    <2>4. ASSUME NEW p \in Procs,
                 DeliverStops(p) \/ AssignSender(p) \/ MarkCompleted(p) \/ RecordFailure(p)
          PROVE  \A b \in Actions : actions[b].status # "none" => actions'[b].status # "none"
      BY <2>4, Entry DEF DeliverStops, AssignSender, Named, MarkCompleted, RecordFailure, TypeOK, ActionRec
    <2>5. \/ \E p \in Procs : \/ \E a \in Actions : InsertRow(p, a) \/ RecordAction(p, a)
                              \/ CancelHeld(p) \/ DeliverStops(p) \/ AssignSender(p) \/ MarkCompleted(p)
                              \/ RecordFailure(p)
          \/ \E a \in Actions : ByHand(a)
          \/ actions' = actions
      <3>1. ASSUME NEW p \in Procs, \/ StartRun(p) \/ Turn(p) \/ MailerForSend(p) \/ Approve(p)
                                    \/ MarkApproved(p) \/ Recheck(p)
                                    \/ \E a \in Actions : Execute(p, a) \/ Job(p, a)
            PROVE  actions' = actions
        BY <3>1 DEF StartRun, Turn, MailerForSend, Choose, Defer, NoneActive, Approve, MarkApproved,
                    Execute, Job, Recheck, rows
      <3>2. ASSUME NEW p \in Procs, \/ Deliver(p) \/ Submit(p) \/ Gate(p) \/ Return(p)
                                    \/ RecordInteraction(p) \/ MarkExecuted(p)
                                    \/ HandleFailure(p) \/ Crash(p)
            PROVE  actions' = actions
        BY <3>2 DEF Deliver, Submit, Gate, Return, RecordInteraction, MarkExecuted, HandleFailure,
                    Crash, rows
      <3>3. CASE \/ \E m \in Mailboxes : Queue(m) \/ \E to \in {"active", "stopped", "gone"} : SetMailbox(m, to)
                 \/ Dismiss \/ SwitchAutopilot \/ Unsubscribe \/ WeekPasses \/ UNCHANGED vars
        BY <3>3 DEF SetMailbox, Dismiss, SwitchAutopilot, Unsubscribe, WeekPasses, vars, Queue,
                    ProviderTakes, QueueRecords, ProviderRefuses, rows
      <3> QED BY <3>1, <3>2, <3>3 DEF Next, Step
    <2> QED BY <2>1, <2>2, <2>3, <2>4, <2>5
  <1> QED BY <1>1, <1>2 DEF Delivered

\* Every process stands still or is accounted for, and so is every row and job.
LEMMA BooksAccounted ==
    ASSUME Books, [Next]_vars,
           \A q \in Procs : \/ proc'[q] = proc[q]
                            \/ /\ Equipped(q)'
                               /\ HasRow(q)' => \/ HasRow(q) /\ proc'[q].action = proc[q].action
                                                \/ actions'[proc'[q].action].status # "none",
           \A a \in held' \ held : \/ \E q \in Procs : HasRow(q) /\ proc[q].action = a
                                   \/ actions'[a].status # "none",
           \A a \in Actions : actions'[a] = actions[a] \/ actions'[a].status # "none",
           \A a \in Actions : ByProduct(a)' =>
               actions'[a] = actions[a] \/ ByProduct(a) \/ Delivered # {}
    PROVE  Books'
  <1>1. TypeOK /\ RowsExist /\ WentOut /\ \A q \in Procs : Equipped(q)
    BY DEF Books
  <1>2. TypeOK'
    BY <1>1, TypeStep
  <1>3. /\ \A a \in Actions : actions[a].status # "none" => actions'[a].status # "none"
        /\ \A m \in Mailboxes : mail[m] = "sent" => mail'[m] = "sent"
        /\ Delivered \subseteq Delivered'
    BY <1>1, NothingVanishes
  <1>4. \A q \in Procs : Equipped(q)'
    <2> SUFFICES ASSUME NEW q \in Procs, proc'[q] = proc[q] PROVE Equipped(q)'
      OBVIOUS
    <2>1. Receipted(q) => proc[q].mailbox \in Mailboxes
      BY <1>1 DEF Equipped, Receipted, HasMailbox
    <2> QED BY <1>1, <1>3, <2>1 DEF Equipped, HasMailbox, Answered, Receipted, HasRow
  <1>5. \A q \in Procs : HasRow(q) => actions'[proc[q].action].status # "none"
    BY <1>1, <1>3, Entry DEF RowsExist
  <1>6. \A q \in Procs : HasRow(q)' => actions'[proc'[q].action].status # "none"
    BY <1>5 DEF HasRow
  <1>7. \A a \in held' : actions'[a].status # "none"
    BY <1>1, <1>3, <1>5 DEF RowsExist, TypeOK
  <1>8. \A a \in Actions : actions'[a].status = "none" => actions'[a].sender = NoMailbox
    BY <1>1 DEF RowsExist
  <1>9. WentOut'
    BY <1>1, <1>3 DEF WentOut, ByProduct
  <1> QED BY <1>2, <1>4, <1>6, <1>7, <1>8, <1>9 DEF Books, RowsExist

\* The same, seen from the one process that moves.
LEMMA BooksKept ==
    ASSUME Books, [Next]_vars, NEW p \in Procs,
           \A q \in Procs \ {p} : proc'[q] = proc[q],
           Equipped(p)',
           HasRow(p)' => \/ HasRow(p) /\ proc'[p].action = proc[p].action
                         \/ actions'[proc'[p].action].status # "none",
           \A a \in held' \ held : \/ a = proc[p].action /\ HasRow(p)
                                   \/ actions'[a].status # "none",
           \A a \in Actions : actions'[a] = actions[a] \/ actions'[a].status # "none",
           \A a \in Actions : ByProduct(a)' =>
               actions'[a] = actions[a] \/ ByProduct(a) \/ Delivered # {}
    PROVE  Books'
  BY BooksAccounted

\* A process that stops has nothing to answer for.
LEMMA StopEquipped == ASSUME TypeOK, NEW p \in Procs, Stop(p) PROVE Equipped(p)' /\ ~HasRow(p)'
  BY StopStep DEF Equipped, HasMailbox, Answered, Receipted, HasRow

\* Every step keeps the books.
LEMMA BooksStep == Books /\ [Next]_vars => Books'
  <1> SUFFICES ASSUME Books, [Next]_vars PROVE Books'
    OBVIOUS
  <1>b. TypeOK /\ RowsExist /\ WentOut /\ (\A p \in Procs : Equipped(p))
    BY DEF Books
  <1> USE DEF HasRow, HasMailbox, Answered, Receipted
  <1>1. ASSUME NEW p \in Procs, StartRun(p) \/ Turn(p) \/ Approve(p) PROVE Books'
    <2>1. \A q \in Procs \ {p} : proc'[q] = proc[q]
      BY <1>1, <1>b, StopStep DEF StartRun, Turn, Approve, TypeOK
    <2>2. actions' = actions /\ held' = held /\ mail' = mail
      BY <1>1 DEF StartRun, Turn, Approve, rows
    <2>3. Equipped(p)' /\ ~HasRow(p)'
      <3>1. CASE Stop(p)
        BY <1>b, <3>1, StopEquipped
      <3>2. CASE ~Stop(p)
        <4>1. /\ proc'[p].answer = "none"
              /\ \/ proc'[p].pc \in {"turn", "cleared"} /\ proc'[p].role = "run"
                 \/ proc'[p].pc = "approving" /\ proc'[p].role = "api"
          <5>1. CASE StartRun(p)
            BY <5>1, <1>b DEF StartRun, TypeOK, Idle
          <5>2. CASE Turn(p)
            <6>1. /\ proc'[p].pc = "cleared" /\ proc'[p].answer = proc[p].answer
                  /\ proc'[p].role = proc[p].role /\ proc[p].pc = "turn"
              BY <5>2, <1>b, <3>2, Entry DEF Turn, At, TypeOK, ProcRec
            <6> QED BY <1>b, <6>1 DEF Equipped
          <5>3. CASE Approve(p)
            BY <5>3, <1>b DEF Approve, TypeOK, Idle
          <5> QED BY <1>1, <5>1, <5>2, <5>3
        <4> QED BY <4>1 DEF Equipped
      <3> QED BY <3>1, <3>2
    <2> QED BY <2>1, <2>2, <2>3, BooksKept
  <1>2. ASSUME NEW p \in Procs, MailerForSend(p) PROVE Books'
    <2>1. CASE \E m \in Mailboxes : Choose(p, m)
      <3>1. PICK m \in Mailboxes : Choose(p, m)
        BY <2>1
      <3>2. actions' = actions /\ held' = held /\ mail' = mail
        BY <3>1 DEF Choose, rows
      <3>3. /\ \A q \in Procs \ {p} : proc'[q] = proc[q]
            /\ proc'[p].pc = IF proc[p].pc = "cleared" THEN "picked" ELSE "checking"
            /\ proc'[p].mailbox = m /\ proc'[p].action = proc[p].action
            /\ proc'[p].answer = proc[p].answer /\ proc'[p].role = proc[p].role
        BY <1>b, <3>1, Entry DEF Choose, TypeOK, ProcRec
      <3>4. proc[p].pc \in {"cleared", "picking"}
        BY <1>2 DEF MailerForSend, At
      <3>5. Equipped(p)' /\ (HasRow(p)' => HasRow(p))
        BY <1>b, <3>3, <3>4 DEF Equipped
      <3> QED BY <3>2, <3>3, <3>5, BooksKept
    <2>2. CASE Defer(p)
      <3>1. \A a \in held' \ held : a = proc[p].action /\ HasRow(p)
        BY <1>2, <1>b, <2>2 DEF Defer, Hold, MailerForSend, At, Equipped
      <3>2. actions' = actions /\ mail' = mail /\ Stop(p)
        BY <2>2 DEF Defer, rows
      <3> QED BY <1>b, <3>1, <3>2, StopEquipped, StopStep, BooksKept
    <2>3. CASE NoneActive(p)
      <3>1. actions' = actions /\ mail' = mail /\ Stop(p) /\ held' = held
        BY <2>3 DEF NoneActive, rows
      <3> QED BY <1>b, <3>1, StopEquipped, StopStep, BooksKept
    <2> QED BY <1>2, <2>1, <2>2, <2>3 DEF MailerForSend
  <1>3. ASSUME NEW p \in Procs, NEW a \in Actions, InsertRow(p, a) \/ RecordAction(p, a)
        PROVE  Books'
    <2>1. \E m \in Mailboxes \cup {NoMailbox} : Insert(a, m)
      BY <1>3, <1>b, Entry DEF InsertRow, RecordAction
    <2>2. /\ actions'[a].status = "queued" /\ \A b \in Actions \ {a} : actions'[b] = actions[b]
      BY <1>b, <2>1, InsertStep
    <2>3. mail' = mail /\ held' \subseteq held \cup {a}
      BY <1>3 DEF InsertRow, RecordAction
    <2>4. \A q \in Procs \ {p} : proc'[q] = proc[q]
      BY <1>3, <1>b, StopStep DEF InsertRow, RecordAction, TypeOK
    <2>5. Equipped(p)' /\ (HasRow(p)' => proc'[p].action = a)
      <3>1. CASE Stop(p)
        BY <1>b, <3>1, StopEquipped
      <3>2. CASE ~Stop(p)
        <4>1. /\ proc'[p].pc \in {"sending", "picking"} /\ proc'[p].action = a
              /\ proc'[p].mailbox = proc[p].mailbox /\ proc'[p].answer = proc[p].answer
              /\ proc'[p].role = proc[p].role
              /\ proc'[p].pc = "sending" => proc[p].pc = "picked"
              /\ proc[p].pc \in {"picked", "approved"}
          BY <1>3, <1>b, <3>2, Entry DEF InsertRow, RecordAction, At, TypeOK, ProcRec
        <4> QED BY <1>b, <4>1 DEF Equipped
      <3> QED BY <3>1, <3>2
    <2> QED BY <2>2, <2>3, <2>4, <2>5, BooksKept DEF ByProduct
  <1>4. ASSUME NEW p \in Procs, MarkApproved(p) \/ Deliver(p) \/ Submit(p) PROVE Books'
    <2>1. actions' = actions /\ held' = held
      BY <1>4 DEF MarkApproved, Deliver, Submit, rows
    <2>2. \/ At(p, "approving") /\ Goto(p, "approved")
          \/ At(p, "checking") /\ Goto(p, "naming")
          \/ At(p, "sending") /\ Goto(p, "waiting")
      BY <1>4 DEF MarkApproved, Deliver, Submit
    <2>3. Equipped(p)' /\ (HasRow(p)' => HasRow(p) /\ proc'[p].action = proc[p].action)
      <3>1. /\ proc'[p].action = proc[p].action /\ proc'[p].mailbox = proc[p].mailbox
            /\ proc'[p].answer = proc[p].answer /\ proc'[p].role = proc[p].role
        BY <1>b, <2>2, GotoStep
      <3>2. \/ proc[p].pc = "approving" /\ proc'[p].pc = "approved"
            \/ proc[p].pc = "checking" /\ proc'[p].pc = "naming"
            \/ proc[p].pc = "sending" /\ proc'[p].pc = "waiting"
        BY <1>b, <2>2, GotoStep DEF At
      <3> QED BY <1>b, <3>1, <3>2 DEF Equipped
    <2> QED BY <1>b, <2>1, <2>2, <2>3, GotoStep, BooksKept
  <1>5. ASSUME NEW p \in Procs, NEW a \in Actions, Execute(p, a) PROVE Books'
    <2>1. actions' = actions /\ held' = held /\ mail' = mail /\ actions[a].status # "none"
      BY <1>5 DEF Execute, rows
    <2>2. /\ \A q \in Procs \ {p} : proc'[q] = proc[q]
          /\ proc'[p].pc = "picking" /\ proc'[p].action = a /\ proc'[p].role = "api"
          /\ proc'[p].answer = "none"
      BY <1>5, <1>b DEF Execute, TypeOK, Idle
    <2> QED BY <2>1, <2>2, BooksKept DEF Equipped
  <1>6. ASSUME NEW p \in Procs, NEW a \in Actions, Job(p, a) PROVE Books'
    <2>1. mail' = mail /\ held' \subseteq held /\ actions[a].status # "none" /\ actions' = actions
      BY <1>6, <1>b DEF Job, RowsExist, rows
    <2>2. CASE proc' = proc
      <3>1. HasRow(p)' => HasRow(p) /\ proc'[p].action = proc[p].action
        BY <2>2
      <3>2. Equipped(p)'
        BY <1>b, <2>1, <2>2 DEF Equipped
      <3> QED BY <2>1, <2>2, <3>1, <3>2, BooksKept
    <2>3. CASE proc' # proc
      <3>1. /\ \A q \in Procs \ {p} : proc'[q] = proc[q]
            /\ proc'[p].pc = "rechecking" /\ proc'[p].action = a /\ proc'[p].answer = "none"
            /\ proc'[p].role = "job"
        <4>1. proc' = [proc EXCEPT ![p] =
                         [Idle EXCEPT !.pc = "rechecking", !.role = "job", !.action = a]]
          BY <1>6, <2>3 DEF Job
        <4> QED BY <1>b, <4>1 DEF TypeOK, Idle
      <3> QED BY <2>1, <3>1, BooksKept DEF Equipped
    <2> QED BY <2>2, <2>3
  <1>17. ASSUME NEW p \in Procs, Recheck(p) PROVE Books'
    <2>1. actions' = actions /\ held' = held /\ At(p, "rechecking")
      BY <1>17 DEF Recheck, rows
    <2>2. PICK pc \in {"picking", "cancelling"} : Goto(p, pc)
      BY <1>17 DEF Recheck
    <2>3. Equipped(p)' /\ HasRow(p) /\ proc'[p].action = proc[p].action
      <3>1. /\ proc'[p].action = proc[p].action /\ proc'[p].answer = proc[p].answer
            /\ proc'[p].role = proc[p].role /\ proc'[p].pc = pc
        BY <1>b, <2>2, GotoStep
      <3> QED BY <1>b, <2>1, <3>1 DEF Equipped, At
    <2> QED BY <1>b, <2>1, <2>2, <2>3, GotoStep, BooksKept
  <1>18. ASSUME NEW p \in Procs, CancelHeld(p) PROVE Books'
    <2>1. mail' = mail /\ held' = held /\ Stop(p)
      BY <1>18 DEF CancelHeld
    <2>2. \A a \in Actions : actions'[a] = actions[a] \/ actions'[a].status = "cancelled"
      BY <1>18, <1>b, Entry DEF CancelHeld, TypeOK, ActionRec
    <2>3. \A a \in Actions : \/ actions'[a] = actions[a]
                             \/ actions'[a].status # "none" /\ ~ByProduct(a)'
      BY <2>2 DEF ByProduct
    <2> QED BY <1>b, <2>1, <2>3, StopEquipped, StopStep, BooksKept
  <1>7. ASSUME NEW p \in Procs, AssignSender(p) \/ RecordFailure(p) PROVE Books'
    <2>1. mail' = mail /\ held' = held
      BY <1>7 DEF AssignSender, RecordFailure
    <2>2. \/ At(p, "naming") /\ Goto(p, "sending")
          \/ At(p, "failed") /\ Goto(p, "handling")
      BY <1>7 DEF AssignSender, RecordFailure
    <2>3. Equipped(p)' /\ HasRow(p) /\ proc'[p].action = proc[p].action
      <3>1. /\ proc'[p].action = proc[p].action /\ proc'[p].mailbox = proc[p].mailbox
            /\ proc'[p].answer = proc[p].answer /\ proc'[p].role = proc[p].role
        BY <1>b, <2>2, GotoStep
      <3>2. \/ proc[p].pc = "naming" /\ proc'[p].pc = "sending"
            \/ proc[p].pc = "failed" /\ proc'[p].pc = "handling"
        BY <1>b, <2>2, GotoStep DEF At
      <3> QED BY <1>b, <3>1, <3>2 DEF Equipped
    <2>4. actions[proc[p].action].status # "none"
      BY <1>b, <2>3 DEF RowsExist
    <2>5. \A a \in Actions : \/ actions'[a] = actions[a]
                             \/ /\ actions'[a].status # "none"
                                /\ ByProduct(a)' => ByProduct(a)
      BY <1>7, <1>b, <2>4, Entry DEF AssignSender, Named, RecordFailure, TypeOK, ActionRec, ByProduct
    <2> QED BY <1>b, <2>1, <2>2, <2>3, <2>5, GotoStep, BooksKept
  <1>8. ASSUME NEW p \in Procs, DeliverStops(p) PROVE Books'
    <2>1. mail' = mail /\ Stop(p) /\ HasRow(p)
      BY <1>8 DEF DeliverStops, At
    <2>2. \A a \in held' \ held : a = proc[p].action
      BY <1>8 DEF DeliverStops, Hold
    <2>3. \A a \in Actions : \/ actions'[a] = actions[a]
                             \/ actions'[a].status \in {"failed", "cancelled"}
      BY <1>8, <1>b, Entry DEF DeliverStops, TypeOK, ActionRec
    <2>4. \A a \in Actions : \/ actions'[a] = actions[a]
                             \/ actions'[a].status # "none" /\ ~ByProduct(a)'
      BY <2>3 DEF ByProduct
    <2> QED BY <1>b, <2>1, <2>2, <2>4, StopEquipped, StopStep, BooksKept
  <1>9. ASSUME NEW p \in Procs, Gate(p) \/ Return(p) PROVE Books'
    <2>1. actions' = actions /\ held' = held /\ mail' = mail
      BY <1>9 DEF Gate, Return, rows
    <2>2. /\ \A q \in Procs \ {p} : proc'[q] = proc[q]
          /\ proc[p].pc \in {"sending", "waiting"}
          /\ proc'[p].action = proc[p].action /\ proc'[p].mailbox = proc[p].mailbox
          /\ proc'[p].role = proc[p].role
          /\ \/ proc'[p].pc = "failed"
             \/ proc'[p].pc = "sent" /\ mail[proc[p].mailbox] = "sent"
      <3>1. CASE \E e \in Answers : Fails(p, e)
        BY <1>9, <1>b, <3>1, FailsStep DEF Gate, Return, At
      <3>2. CASE ~\E e \in Answers : Fails(p, e)
        BY <1>9, <1>b, <3>2, Entry DEF Gate, Return, At, Answers, TypeOK, ProcRec
      <3> QED BY <3>1, <3>2
    <2>3. Equipped(p)' /\ HasRow(p)
      BY <1>b, <2>1, <2>2 DEF Equipped
    <2> QED BY <2>1, <2>2, <2>3, BooksKept
  <1>10. ASSUME NEW p \in Procs, MarkCompleted(p) PROVE Books'
    <2>1. held' = held /\ mail' = mail /\ At(p, "sent")
      BY <1>10 DEF MarkCompleted
    <2>2. Delivered # {}
      BY <1>b, <2>1 DEF Equipped, At, Delivered
    <2>3. \A a \in Actions : actions'[a] = actions[a] \/ actions'[a].status # "none"
      BY <1>10, <1>b, Entry DEF MarkCompleted, TypeOK, ActionRec
    <2>4. /\ \A q \in Procs \ {p} : proc'[q] = proc[q]
          /\ proc'[p].pc \in {"closing", "failed"} /\ proc'[p].action = proc[p].action
          /\ proc'[p].mailbox = proc[p].mailbox /\ proc'[p].role = proc[p].role
      <3>1. Goto(p, "closing") \/ Fails(p, "dberror")
        BY <1>10 DEF MarkCompleted
      <3> QED BY <1>b, <3>1, GotoStep, FailsStep
    <2>5. Equipped(p)' /\ HasRow(p)
      BY <1>b, <2>1, <2>4 DEF Equipped, At
    <2> QED BY <2>1, <2>2, <2>3, <2>4, <2>5, BooksKept
  <1>11. ASSUME NEW p \in Procs, RecordInteraction(p) \/ MarkExecuted(p) PROVE Books'
    <2>1. /\ actions' = actions /\ held' = held /\ mail' = mail
          /\ At(p, "closing") \/ At(p, "marking")
      BY <1>11 DEF RecordInteraction, MarkExecuted, rows
    <2>2. CASE Stop(p)
      BY <1>b, <2>1, <2>2, StopEquipped, StopStep, BooksKept
    <2>3. CASE Fails(p, "dberror")
      <3>1. Equipped(p)' /\ HasRow(p)
        BY <1>b, <2>1, <2>3, FailsStep DEF Equipped, At
      <3> QED BY <1>b, <2>1, <2>3, <3>1, FailsStep, BooksKept
    <2>4. CASE Goto(p, "marking")
      <3>1. /\ proc'[p].action = proc[p].action /\ proc'[p].mailbox = proc[p].mailbox
            /\ proc'[p].role = proc[p].role /\ proc'[p].pc = "marking"
        BY <1>b, <2>4, GotoStep
      <3>2. Equipped(p)' /\ HasRow(p)
        BY <1>b, <2>1, <3>1 DEF Equipped, At
      <3> QED BY <1>b, <2>1, <2>4, <3>1, <3>2, GotoStep, BooksKept
    <2> QED BY <1>11, <2>2, <2>3, <2>4 DEF RecordInteraction, MarkExecuted
  <1>12. ASSUME NEW p \in Procs, HandleFailure(p) \/ Crash(p) PROVE Books'
    <2>1. actions' = actions /\ mail' = mail /\ Stop(p)
      BY <1>12 DEF HandleFailure, Crash, rows
    <2>2. \A a \in held' \ held : a = proc[p].action /\ HasRow(p)
      BY <1>12, <1>b DEF HandleFailure, Crash, Hold, At, Equipped
    <2> QED BY <1>b, <2>1, <2>2, StopEquipped, StopStep, BooksKept
  <1>13. ASSUME NEW a \in Actions, ByHand(a) PROVE Books'
    <2>1. \A b \in Actions : \/ actions'[b] = actions[b]
                             \/ actions'[b].status # "none" /\ ~ByProduct(b)'
      BY <1>13, <1>b DEF ByHand, TypeOK, ActionRec, ByProduct
    <2>2. proc' = proc /\ held' = held
      BY <1>13 DEF ByHand
    <2> QED BY <2>1, <2>2, BooksAccounted
  <1>14. CASE actions' = actions /\ proc' = proc /\ held' = held
    BY <1>14, BooksAccounted
  <1>15. ASSUME NEW m \in Mailboxes, Queue(m) \/ \E to \in {"active", "stopped", "gone"} : SetMailbox(m, to)
         PROVE  Books'
    BY <1>14, <1>15 DEF Queue, ProviderTakes, QueueRecords, ProviderRefuses, SetMailbox, rows
  <1>16. CASE Dismiss \/ SwitchAutopilot \/ Unsubscribe \/ WeekPasses \/ UNCHANGED vars
    BY <1>14, <1>16 DEF Dismiss, SwitchAutopilot, Unsubscribe, WeekPasses, vars, rows
  <1> QED BY <1>1, <1>2, <1>3, <1>4, <1>5, <1>6, <1>7, <1>8, <1>9, <1>10, <1>11, <1>12, <1>13,
             <1>15, <1>16, <1>17, <1>18 DEF Next, Step

\* They start in order.
LEMMA BooksInit == Init => Books
  <1> SUFFICES ASSUME Init PROVE Books
    OBVIOUS
  <1>1. /\ \A p \in Procs : proc[p].pc = "idle" /\ proc[p].answer = "none" /\ proc[p].role = "none"
        /\ held = {}
        /\ \A a \in Actions : actions[a].status = "none" /\ actions[a].sender = NoMailbox
    BY DEF Init, Idle, NoAction
  <1>2. TypeOK
    BY InitTyped
  <1> QED BY <1>1, <1>2 DEF Books, RowsExist, Equipped, WentOut, HasRow, HasMailbox, Answered,
                            Receipted, ByProduct

-----------------------------------------------------------------------------
(***************************************************************************)
(* The bonds between a person and a mailbox, as long as nothing excuses a  *)
(* second one: the rows that count for lastSenderFor agree, the one process*)
(* that has chosen without a row follows them, whoever sends has such a    *)
(* row, and whatever is on its way stands in one.                          *)
(***************************************************************************)
Live(m) == mail[m] \in {"underway", "taken", "sent"}

Agree  == \A a, b \in Wrote : actions[a].sender = actions[b].sender
Lone   == \A p, q \in Procs : Unrecorded(p) /\ Unrecorded(q) => p = q
Heeded == \A p \in Procs : Unrecorded(p) =>
              \A a \in Wrote : actions[a].sender = proc[p].mailbox
Signed == \A p \in Procs : Sending(p) =>
              Sticky(proc[p].action) /\ actions[proc[p].action].sender = proc[p].mailbox
Backed == \A m \in Mailboxes : Live(m) => \E a \in Wrote : actions[a].sender = m
Kept   == \A a \in Actions : ByProduct(a) => actions[a].sender \in Delivered
Bonds  == excused = {} => Agree /\ Lone /\ Heeded /\ Signed /\ Backed /\ Kept

\* Some row is the latest of those that count, and lastSenderFor returns its
\* mailbox.
LEMMA LastSenderIs ==
    ASSUME TypeOK
    PROVE  /\ Wrote = {} => LastSender = NoMailbox
           /\ Wrote # {} => \E a \in Wrote : LastSender = actions[a].sender
           /\ LastSender = NoMailbox => Wrote = {}
  <1>1. ASSUME Wrote # {} PROVE \E a \in Wrote : LastSender = actions[a].sender
    <2> DEFINE Below == {MaxActions - recent[a] : a \in Wrote}
    <2>1. Below \subseteq Nat /\ Below # {}
      BY <1>1, SendAssumption DEF TypeOK, Wrote
    <2>2. \E x \in Below : \A y \in Below : ~ (<<y, x>> \in OpToRel(<, Nat))
      <3> HIDE DEF Below
      <3> QED BY <2>1, NatLessThanWellFounded, WFMin
    <2>3. PICK x \in Below : \A y \in Below : ~(y < x)
      BY <2>1, <2>2 DEF OpToRel
    <2>4. PICK a \in Wrote : x = MaxActions - recent[a]
      BY <2>3
    <2>5. \A b \in Wrote : recent[b] <= recent[a]
      <3> SUFFICES ASSUME NEW b \in Wrote PROVE recent[b] <= recent[a]
        OBVIOUS
      <3>1. ~(MaxActions - recent[b] < MaxActions - recent[a])
        BY <2>3, <2>4
      <3>2. recent[a] \in Nat /\ recent[b] \in Nat /\ MaxActions \in Nat
        BY SendAssumption DEF TypeOK, Wrote
      <3> QED BY <3>1, <3>2
    <2> DEFINE c == CHOOSE d \in Wrote : \A b \in Wrote : recent[b] <= recent[d]
    <2>6. c \in Wrote
      BY <2>5
    <2>7. LastSender = actions[c].sender
      BY <1>1 DEF LastSender
    <2> QED BY <2>6, <2>7
  <1>2. \A a \in Wrote : actions[a].sender # NoMailbox
    BY DEF Wrote, Sticky
  <1> QED BY <1>1, <1>2 DEF LastSender

\* Nothing comes loose: the rows that count and what they say stay, whoever has
\* chosen or sends had done so before, and only a sender puts a message on its way.
LEMMA BondsKept ==
    ASSUME Books, Bonds, excused' = {} => excused = {},
           ASSUME excused' = {}
           PROVE  /\ \A a \in Actions : /\ Sticky(a)' <=> Sticky(a)
                                        /\ Sticky(a) => actions'[a].sender = actions[a].sender
                  /\ \A a \in Actions : ByProduct(a)' =>
                        \/ ByProduct(a) /\ actions'[a].sender = actions[a].sender
                        \/ actions'[a].sender \in Delivered,
           \A q \in Procs : \/ proc'[q] = proc[q]
                            \/ /\ Unrecorded(q)' => Unrecorded(q) /\ proc'[q].mailbox = proc[q].mailbox
                               /\ Sending(q)' => /\ Sending(q) /\ proc'[q].mailbox = proc[q].mailbox
                                                 /\ proc'[q].action = proc[q].action,
           \A m \in Mailboxes : Live(m)' => Live(m) \/ (\E q \in Procs : Sending(q) /\ proc[q].mailbox = m),
           Delivered \subseteq Delivered'
    PROVE  Bonds'
  <1> SUFFICES ASSUME excused' = {}
               PROVE  Agree' /\ Lone' /\ Heeded' /\ Signed' /\ Backed' /\ Kept'
    BY DEF Bonds
  <1>1. Agree /\ Lone /\ Heeded /\ Signed /\ Backed /\ Kept
    BY DEF Bonds
  <1>2. Wrote' = Wrote /\ \A a \in Wrote : actions'[a].sender = actions[a].sender
    BY DEF Wrote
  <1>3. \A q \in Procs : Unrecorded(q)' => Unrecorded(q) /\ proc'[q].mailbox = proc[q].mailbox
    BY DEF Unrecorded
  <1>4. \A q \in Procs : Sending(q)' => /\ Sending(q) /\ proc'[q].mailbox = proc[q].mailbox
                                        /\ proc'[q].action = proc[q].action
    BY DEF Sending
  <1>5. Agree'
    BY <1>1, <1>2 DEF Agree
  <1>6. Lone' /\ Heeded'
    BY <1>1, <1>2, <1>3 DEF Lone, Heeded
  <1>7. Signed'
    BY <1>1, <1>4, Entry DEF Signed, Books
  <1>8. Backed'
    <2> SUFFICES ASSUME NEW m \in Mailboxes, Live(m)'
                 PROVE  \E a \in Wrote : actions[a].sender = m
      BY <1>2 DEF Backed
    <2>1. CASE Live(m)
      BY <1>1, <2>1 DEF Backed
    <2>2. ASSUME NEW q \in Procs, Sending(q), proc[q].mailbox = m
          PROVE  \E a \in Wrote : actions[a].sender = m
      BY <1>1, <2>2, Entry DEF Signed, Wrote, Books
    <2> QED BY <2>1, <2>2
  <1>9. Kept'
    BY <1>1 DEF Kept
  <1> QED BY <1>5, <1>6, <1>7, <1>8, <1>9

\* A row comes loose while no message is on its way and nobody else sends.
LEMMA BondsLoosened ==
    ASSUME Books, Bonds, NEW p \in Procs, excused' = {} => excused = {},
           ASSUME excused' = {}
           PROVE  /\ \A m \in Mailboxes : ~Live(m)
                  /\ \A q \in Procs \ {p} : ~Sending(q),
           mail' = mail, ~Sending(p)', ~Unrecorded(p)',
           \A q \in Procs \ {p} : proc'[q] = proc[q],
           \A a \in Actions : /\ Sticky(a)' => Sticky(a)
                              /\ actions'[a].sender = actions[a].sender
                              /\ ByProduct(a)' => ByProduct(a)
    PROVE  Bonds'
  <1> SUFFICES ASSUME excused' = {}
               PROVE  Agree' /\ Lone' /\ Heeded' /\ Signed' /\ Backed' /\ Kept'
    BY DEF Bonds
  <1>1. Agree /\ Lone /\ Heeded /\ Kept
    BY DEF Bonds
  <1>2. Wrote' \subseteq Wrote /\ \A a \in Wrote : actions'[a].sender = actions[a].sender
    BY DEF Wrote
  <1>3. \A q \in Procs : Unrecorded(q)' => Unrecorded(q) /\ proc'[q].mailbox = proc[q].mailbox
    BY DEF Unrecorded
  <1>4. \A q \in Procs : ~Sending(q)'
    BY DEF Sending
  <1>5. Agree' /\ Lone' /\ Heeded'
    BY <1>1, <1>2, <1>3 DEF Agree, Lone, Heeded
  <1>6. Signed' /\ Backed'
    BY <1>4 DEF Signed, Backed, Live
  <1>7. Kept'
    BY <1>1 DEF Kept, Delivered
  <1> QED BY <1>5, <1>6, <1>7

\* The rows are as they were, and so is what the process has in hand.
LEMMA BondsQuiet ==
    ASSUME Books, Bonds, NEW p \in Procs, excused' = excused, actions' = actions,
           \A q \in Procs \ {p} : proc'[q] = proc[q],
           Unrecorded(p)' => Unrecorded(p) /\ proc'[p].mailbox = proc[p].mailbox,
           Sending(p)' => /\ Sending(p) /\ proc'[p].mailbox = proc[p].mailbox
                          /\ proc'[p].action = proc[p].action,
           \A m \in Mailboxes : Live(m)' => Live(m) \/ (Sending(p) /\ proc[p].mailbox = m),
           Delivered \subseteq Delivered'
    PROVE  Bonds'
  BY BondsKept DEF Sticky, ByProduct

\* The process ends up with nothing in hand.
LEMMA BondsIdle ==
    ASSUME Books, Bonds, NEW p \in Procs, excused' = excused, actions' = actions, mail' = mail,
           \A q \in Procs \ {p} : proc'[q] = proc[q], ~Unrecorded(p)', ~Sending(p)'
    PROVE  Bonds'
  <1>1. Delivered \subseteq Delivered'
    BY DEF Delivered
  <1>2. \A m \in Mailboxes : Live(m)' => Live(m) \/ (Sending(p) /\ proc[p].mailbox = m)
    BY DEF Live
  <1> QED BY <1>1, <1>2, BondsQuiet

\* No step breaks a bond unexcused.
LEMMA BondsStep == Books /\ Books' /\ Bonds /\ [Next]_vars => Bonds'
  <1> SUFFICES ASSUME Books, Books', Bonds, [Next]_vars PROVE Bonds'
    OBVIOUS
  <1>b. /\ TypeOK /\ RowsExist /\ (\A p \in Procs : Equipped(p))
        /\ Delivered \subseteq Delivered'
        /\ excused = {} => Agree /\ Lone /\ Heeded /\ Signed /\ Backed /\ Kept
    BY NothingVanishes DEF Books, Bonds
  <1>m. mail' = mail => \A m \in Mailboxes : Live(m)' => Live(m)
    BY DEF Live
  <1>s. NoMailbox \notin Mailboxes
    BY SendAssumption
  <1>1. ASSUME NEW p \in Procs, StartRun(p) \/ Turn(p) \/ Approve(p) \/ (\E a \in Actions : Execute(p, a))
        PROVE  Bonds'
    <2>1. /\ excused' = excused /\ actions' = actions /\ mail' = mail
          /\ \A q \in Procs \ {p} : proc'[q] = proc[q]
      BY <1>1, <1>b, StopStep DEF StartRun, Turn, Approve, Execute, rows, TypeOK
    <2>2. proc'[p].pc \in {"turn", "cleared", "approving", "picking", "idle"}
      <3>1. CASE StartRun(p)
        BY <3>1, <1>b DEF StartRun, TypeOK, Idle
      <3>2. CASE Turn(p)
        BY <3>2, <1>b, Entry, StopStep DEF Turn, TypeOK, ProcRec
      <3>3. CASE Approve(p)
        BY <3>3, <1>b DEF Approve, TypeOK, Idle
      <3>4. CASE \E a \in Actions : Execute(p, a)
        BY <3>4, <1>b DEF Execute, TypeOK, Idle
      <3> QED BY <1>1, <3>1, <3>2, <3>3, <3>4
    <2>3. ~Unrecorded(p)' /\ ~Sending(p)'
      BY <2>2 DEF Unrecorded, Sending
    <2> QED BY <2>1, <2>3, BondsIdle
  <1>2. ASSUME NEW p \in Procs, Stop(p), actions' = actions, excused' = excused, mail' = mail
        PROVE  Bonds'
    <2>1. ~Unrecorded(p)' /\ ~Sending(p)'
      BY <1>2, <1>b, StopStep DEF Unrecorded, Sending
    <2> QED BY <1>2, <1>b, <2>1, StopStep, BondsIdle
  <1>3. ASSUME NEW p \in Procs, MailerForSend(p) PROVE Bonds'
    <2>1. ASSUME NEW m \in Mailboxes, Choose(p, m) PROVE Bonds'
      <3> SUFFICES ASSUME excused' = {}
                   PROVE  Agree' /\ Lone' /\ Heeded' /\ Signed' /\ Backed' /\ Kept'
        BY DEF Bonds
      <3>1. /\ excused = {} /\ \A q \in Procs \ {p} : ~Unrecorded(q)
            /\ LastSender \in {NoMailbox, m}
        BY <2>1 DEF Choose
      <3>2. \A a \in Wrote : actions[a].sender = m
        BY <1>b, <3>1, LastSenderIs, <1>s DEF Agree
      <3>3. /\ actions' = actions /\ mail' = mail
            /\ \A q \in Procs \ {p} : proc'[q] = proc[q]
            /\ proc'[p].mailbox = m /\ proc'[p].pc \in {"picked", "checking"}
        BY <2>1, <1>b, Entry DEF Choose, TypeOK, ProcRec, rows
      <3>4. Wrote' = Wrote
        BY <3>3 DEF Wrote, Sticky
      <3>5. Lone' /\ Heeded'
        BY <3>1, <3>2, <3>3, <3>4 DEF Lone, Heeded, Unrecorded
      <3>6. Signed'
        BY <1>b, <3>1, <3>3 DEF Signed, Sending, Sticky
      <3>7. Agree' /\ Backed' /\ Kept'
        BY <1>b, <3>1, <3>3, <3>4 DEF Agree, Backed, Kept, Live, Delivered, ByProduct
      <3> QED BY <3>5, <3>6, <3>7
    <2>2. CASE Defer(p) \/ NoneActive(p)
      BY <2>2, <1>2 DEF Defer, NoneActive, rows
    <2> QED BY <1>3, <2>1, <2>2 DEF MailerForSend
  <1>4. ASSUME NEW p \in Procs, NEW a \in Actions, InsertRow(p, a) PROVE Bonds'
    <2> SUFFICES ASSUME excused' = {}
                 PROVE  Agree' /\ Lone' /\ Heeded' /\ Signed' /\ Backed' /\ Kept'
      BY DEF Bonds
    <2> DEFINE m == proc[p].mailbox
    <2>1. /\ excused = {} /\ mail' = mail /\ Unrecorded(p) /\ m \in Mailboxes
          /\ \A q \in Procs \ {p} : ~Unrecorded(q)
          /\ \A b \in Wrote : actions[b].sender = m
      BY <1>4, <1>b DEF InsertRow, Unrecorded, At, Equipped, HasMailbox, Lone, Heeded
    <2>2. /\ \A q \in Procs \ {p} : proc'[q] = proc[q]
          /\ proc'[p].mailbox = m /\ proc'[p].pc = "sending" /\ proc'[p].action = a
      BY <1>4, <1>b, Entry DEF InsertRow, TypeOK, ProcRec
    <2>3. /\ actions[a].status = "none" /\ actions'[a].status = "queued" /\ actions'[a].sender = m
          /\ \A b \in Actions \ {a} : actions'[b] = actions[b]
      BY <1>4, <1>b, <2>1, InsertStep DEF InsertRow
    <2>4. a \notin Wrote
      BY <1>b, <2>3 DEF RowsExist, Wrote, Sticky
    <2>5. Wrote' = Wrote \cup {a}
      BY <2>1, <2>3, <2>4, <1>s DEF Wrote, Sticky
    <2>6. \A b \in Wrote' : actions'[b].sender = m
      BY <2>1, <2>3, <2>4, <2>5 DEF Wrote
    <2>7. Agree'
      BY <2>6 DEF Agree
    <2>8. Lone' /\ Heeded'
      BY <2>1, <2>2 DEF Lone, Heeded, Unrecorded
    <2>9. Signed'
      <3> SUFFICES ASSUME NEW q \in Procs, Sending(q)'
                   PROVE  Sticky(proc[q].action)'
                          /\ actions'[proc'[q].action].sender = proc'[q].mailbox
        BY DEF Signed
      <3>1. CASE q = p
        BY <2>2, <2>3, <2>1, <1>s, <3>1 DEF Sticky
      <3>2. CASE q # p
        <4>1. Sending(q) /\ proc[q].action \in Wrote /\ actions[proc[q].action].sender = proc[q].mailbox
          BY <1>b, <2>1, <2>2, <3>2, Entry DEF Signed, Sending, Wrote
        <4> QED BY <2>2, <2>3, <2>4, <3>2, <4>1 DEF Wrote, Sticky
      <3> QED BY <3>1, <3>2
    <2>10. Backed'
      BY <1>b, <2>1, <2>3, <2>4, <2>5 DEF Backed, Live, Wrote
    <2>11. Kept'
      BY <1>b, <2>1, <2>3 DEF Kept, ByProduct
    <2> QED BY <2>7, <2>8, <2>9, <2>10, <2>11
  <1>5. ASSUME NEW p \in Procs, NEW a \in Actions, RecordAction(p, a) PROVE Bonds'
    <2>1. /\ excused' = excused /\ mail' = mail
      BY <1>5 DEF RecordAction
    <2>2. /\ actions[a].status = "none" /\ actions'[a].status = "queued"
          /\ actions'[a].sender = NoMailbox
          /\ \A b \in Actions \ {a} : actions'[b] = actions[b]
      BY <1>5, <1>b, InsertStep DEF RecordAction
    <2>3. /\ ~Sticky(a) /\ ~Sticky(a)' /\ ~ByProduct(a)'
      BY <1>b, <2>2 DEF RowsExist, Sticky, ByProduct
    <2>4. /\ \A q \in Procs \ {p} : proc'[q] = proc[q]
          /\ proc'[p].pc \in {"idle", "picking"}
      BY <1>5, <1>b, Entry, StopStep DEF RecordAction, TypeOK, ProcRec
    <2>5. ~Unrecorded(p)' /\ ~Sending(p)'
      BY <2>4 DEF Unrecorded, Sending
    <2>6. \A b \in Actions : /\ Sticky(b)' <=> Sticky(b)
                             /\ Sticky(b) => actions'[b].sender = actions[b].sender
                             /\ ByProduct(b)' => ByProduct(b) /\ actions'[b].sender = actions[b].sender
      BY <2>2, <2>3 DEF Sticky, ByProduct
    <2> QED BY <1>b, <1>m, <2>1, <2>4, <2>5, <2>6, BondsKept
  <1>6. ASSUME NEW p \in Procs, MarkApproved(p) \/ Deliver(p) \/ Submit(p) PROVE Bonds'
    <2>1. excused' = excused /\ actions' = actions
      BY <1>6 DEF MarkApproved, Deliver, Submit, rows
    <2>2. \/ At(p, "approving") /\ Goto(p, "approved")
          \/ At(p, "checking") /\ Goto(p, "naming")
          \/ At(p, "sending") /\ Goto(p, "waiting")
      BY <1>6 DEF MarkApproved, Deliver, Submit
    <2>3. /\ proc'[p].action = proc[p].action /\ proc'[p].mailbox = proc[p].mailbox
          /\ \A q \in Procs \ {p} : proc'[q] = proc[q]
      BY <1>b, <2>2, GotoStep
    <2>4. \/ proc[p].pc = "approving" /\ proc'[p].pc = "approved"
          \/ proc[p].pc = "checking" /\ proc'[p].pc = "naming"
          \/ proc[p].pc = "sending" /\ proc'[p].pc = "waiting"
      BY <1>b, <2>2, GotoStep DEF At
    <2>5. /\ Unrecorded(p)' => Unrecorded(p)
          /\ Sending(p)' => Sending(p)
      BY <2>4 DEF Unrecorded, Sending
    <2>6. \A m \in Mailboxes : Live(m)' => Live(m) \/ (Sending(p) /\ proc[p].mailbox = m)
      <3>1. CASE mail' = mail
        BY <3>1 DEF Live
      <3>2. CASE Submit(p)
        <4>1. \A m \in Mailboxes : m # proc[p].mailbox => mail'[m] = mail[m]
          BY <1>b, <3>2 DEF Submit, TypeOK
        <4>2. Sending(p)
          BY <3>2 DEF Submit, At, Sending
        <4> QED BY <4>1, <4>2 DEF Live
      <3> QED BY <1>6, <3>1, <3>2 DEF MarkApproved, Deliver
    <2> QED BY <1>b, <2>1, <2>3, <2>5, <2>6, BondsQuiet
  <1>7. ASSUME NEW p \in Procs, Recheck(p) \/ \E a \in Actions : Job(p, a) PROVE Bonds'
    <2>1. mail' = mail /\ actions' = actions /\ excused' = excused
      BY <1>7 DEF Job, Recheck, rows
    <2>2. CASE Recheck(p)
      <3>1. /\ \A q \in Procs \ {p} : proc'[q] = proc[q]
            /\ proc'[p].pc \in {"picking", "cancelling"}
        BY <1>b, <2>2, GotoStep DEF Recheck
      <3> QED BY <2>1, <3>1, BondsIdle DEF Unrecorded, Sending
    <2>3. CASE \E a \in Actions : Job(p, a)
      <3>1. PICK a \in Actions : Job(p, a)
        BY <2>3
      <3>2. CASE proc' = proc
        <4>1. \A b \in Actions : (Sticky(b)' <=> Sticky(b)) /\ (ByProduct(b)' <=> ByProduct(b))
          BY <2>1 DEF Sticky, ByProduct
        <4> QED BY <1>b, <1>m, <2>1, <3>2, <4>1, BondsKept
      <3>3. CASE proc' = [proc EXCEPT ![p] =
                            [Idle EXCEPT !.pc = "rechecking", !.role = "job", !.action = a]]
        <4>1. proc'[p].pc = "rechecking" /\ \A q \in Procs \ {p} : proc'[q] = proc[q]
          BY <1>b, <3>3 DEF TypeOK, Idle
        <4> QED BY <2>1, <4>1, BondsIdle DEF Unrecorded, Sending
      <3> QED BY <3>1, <3>2, <3>3 DEF Job
    <2> QED BY <1>7, <2>2, <2>3
  <1>19. ASSUME NEW p \in Procs, CancelHeld(p) PROVE Bonds'
    <2> DEFINE a == proc[p].action
    <2>1. mail' = mail /\ Stop(p) /\ (excused' = {} => excused = {}) /\ a \in Actions
      BY <1>19, <1>b, Entry DEF CancelHeld
    <2>2. \A q \in Procs : proc'[q] = proc[q] \/ (~Unrecorded(q)' /\ ~Sending(q)')
      <3>1. proc'[p].pc = "idle" /\ \A q \in Procs \ {p} : proc'[q] = proc[q]
        BY <1>b, <2>1, StopStep
      <3> QED BY <3>1 DEF Unrecorded, Sending
    <2>3. ASSUME excused' = {}
          PROVE  /\ \A b \in Actions : /\ Sticky(b)' <=> Sticky(b)
                                       /\ actions'[b].sender = actions[b].sender
                                       /\ ByProduct(b)' => ByProduct(b)
      <3>1. actions[a].status # "failed"
        BY <1>19, <2>3 DEF CancelHeld, Reused
      <3> QED BY <1>19, <1>b, <2>1, <3>1 DEF CancelHeld, TypeOK, ActionRec, Sticky, ByProduct
    <2> QED BY <1>b, <1>m, <2>1, <2>2, <2>3, BondsKept
  <1>8. ASSUME NEW a \in Actions, ByHand(a) PROVE Bonds'
    <2>1. mail' = mail /\ proc' = proc /\ (excused' = {} => excused = {})
      BY <1>8 DEF ByHand
    <2>2. ASSUME excused' = {}
          PROVE  /\ \A b \in Actions : /\ Sticky(b)' <=> Sticky(b)
                                       /\ actions'[b].sender = actions[b].sender
                                       /\ ByProduct(b)' => ByProduct(b)
      <3>1. actions[a].status # "failed"
        BY <1>8, <2>2 DEF ByHand, Reused
      <3> QED BY <1>8, <1>b, <3>1 DEF ByHand, TypeOK, ActionRec, Sticky, ByProduct
    <2> QED BY <1>b, <1>m, <2>1, <2>2, BondsKept
  <1>9. ASSUME NEW p \in Procs, AssignSender(p) PROVE Bonds'
    <2> SUFFICES ASSUME excused' = {}
                 PROVE  Agree' /\ Lone' /\ Heeded' /\ Signed' /\ Backed' /\ Kept'
      BY DEF Bonds
    <2> DEFINE m == proc[p].mailbox
               a == proc[p].action
    <2>0. a \in Actions /\ proc[p].pc = "naming"
      BY <1>9, <1>b, Entry DEF AssignSender, At
    <2>1. /\ excused = {} /\ mail' = mail /\ Unrecorded(p) /\ m \in Mailboxes
          /\ \A q \in Procs \ {p} : ~Unrecorded(q)
          /\ \A b \in Wrote : actions[b].sender = m
          /\ actions[a].status # "failed"
      BY <1>9, <1>b, <2>0 DEF AssignSender, Reused, Unrecorded, Equipped, HasMailbox, Lone, Heeded
    <2>2. /\ \A q \in Procs \ {p} : proc'[q] = proc[q]
          /\ proc'[p].mailbox = m /\ proc'[p].pc = "sending" /\ proc'[p].action = a
      BY <1>9, <1>b, GotoStep DEF AssignSender
    <2>3. /\ actions'[a].status = actions[a].status /\ actions'[a].sender = m
          /\ actions'[a].byHand = actions[a].byHand
          /\ \A b \in Actions \ {a} : actions'[b] = actions[b]
      BY <1>9, <1>b, <2>0 DEF AssignSender, Named, TypeOK, ActionRec
    <2>4. Wrote' = Wrote \cup {a}
      BY <2>0, <2>1, <2>3, <1>s DEF Wrote, Sticky
    <2>5. \A b \in Wrote' : actions'[b].sender = m
      BY <2>1, <2>3, <2>4 DEF Wrote
    <2>6. Agree'
      BY <2>5 DEF Agree
    <2>7. Lone' /\ Heeded'
      BY <2>1, <2>2 DEF Lone, Heeded, Unrecorded
    <2>8. Signed'
      <3> SUFFICES ASSUME NEW q \in Procs, Sending(q)'
                   PROVE  Sticky(proc[q].action)'
                          /\ actions'[proc'[q].action].sender = proc'[q].mailbox
        BY DEF Signed
      <3>1. CASE q = p
        BY <2>2, <2>3, <2>1, <1>s, <3>1 DEF Sticky
      <3>2. CASE q # p
        <4>1. /\ proc[q].action \in Wrote /\ actions[proc[q].action].sender = proc[q].mailbox
              /\ proc'[q] = proc[q]
          BY <1>b, <2>1, <2>2, <3>2, Entry DEF Signed, Sending, Wrote
        <4>2. proc[q].mailbox = m /\ proc[q].action \in Wrote'
          BY <2>1, <2>4, <4>1
        <4> QED BY <2>5, <4>1, <4>2 DEF Wrote
      <3> QED BY <3>1, <3>2
    <2>9. Backed'
      BY <1>b, <2>1, <2>4, <2>5 DEF Backed, Live
    <2>10. Kept'
      <3> SUFFICES ASSUME NEW b \in Actions, ByProduct(b)' PROVE actions'[b].sender \in Delivered
        BY <1>b DEF Kept
      <3>1. ByProduct(b)
        BY <2>3 DEF ByProduct
      <3>2. actions[b].sender \in Delivered
        BY <1>b, <2>1, <3>1 DEF Kept
      <3>3. b \in Wrote
        BY <3>1, <3>2, <1>s DEF Wrote, Sticky, ByProduct, Delivered
      <3> QED BY <2>1, <2>4, <2>5, <3>2, <3>3
    <2> QED BY <2>6, <2>7, <2>8, <2>9, <2>10
  <1>10. ASSUME NEW p \in Procs, DeliverStops(p) PROVE Bonds'
    <2> DEFINE a == proc[p].action
    <2>1. /\ mail' = mail /\ Stop(p) /\ a \in Actions
          /\ \A q \in Procs \ {p} : proc'[q] = proc[q]
          /\ ~Unrecorded(p)' /\ ~Sending(p)'
      BY <1>10, <1>b, Entry, StopStep DEF DeliverStops, Unrecorded, Sending
    <2>2. CASE actions' = actions /\ excused' = excused
      BY <2>1, <2>2, BondsIdle
    <2>3. CASE actions' = actions /\ excused' = excused \cup Doubt(p)
      <3>1. \A b \in Actions : /\ Sticky(b)' <=> Sticky(b)
                               /\ ByProduct(b)' <=> ByProduct(b)
        BY <2>3 DEF Sticky, ByProduct
      <3> QED BY <1>b, <1>m, <2>1, <2>3, <3>1, BondsKept
    <2>4. CASE /\ actions' = [actions EXCEPT ![a].status = "failed", ![a].error = "other"]
               /\ excused' = excused \cup Doubt(p)
      <3>1. \A b \in Actions : /\ Sticky(b)' => Sticky(b)
                               /\ actions'[b].sender = actions[b].sender
                               /\ ByProduct(b)' => ByProduct(b)
        BY <1>b, <2>1, <2>4 DEF TypeOK, ActionRec, Sticky, ByProduct
      <3>2. ASSUME excused' = {}
            PROVE  /\ \A m \in Mailboxes : ~Live(m)
                   /\ \A q \in Procs \ {p} : ~Sending(q)
        BY <2>4, <3>2 DEF Doubt, Live
      <3> QED BY <2>1, <2>4, <3>1, <3>2, BondsLoosened
    <2>5. CASE /\ actions[a].status = "queued"
               /\ actions' = [actions EXCEPT ![a].status = "cancelled"]
               /\ excused' = excused
      <3>1. \A b \in Actions : /\ Sticky(b)' <=> Sticky(b)
                               /\ actions'[b].sender = actions[b].sender
                               /\ ByProduct(b)' => ByProduct(b)
        BY <1>b, <2>1, <2>5 DEF TypeOK, ActionRec, Sticky, ByProduct
      <3> QED BY <1>b, <1>m, <2>1, <2>5, <3>1, BondsKept
    <2> QED BY <1>10, <2>2, <2>3, <2>4, <2>5 DEF DeliverStops
  <1>11. ASSUME NEW p \in Procs, Gate(p) \/ Return(p) PROVE Bonds'
    <2>1. actions' = actions /\ mail' = mail /\ excused' = excused
      BY <1>11 DEF Gate, Return, rows
    <2>2. /\ \A q \in Procs \ {p} : proc'[q] = proc[q]
          /\ proc[p].pc \in {"sending", "waiting"} /\ proc'[p].pc \in {"failed", "sent"}
          /\ proc'[p].action = proc[p].action /\ proc'[p].mailbox = proc[p].mailbox
      <3>1. CASE \E e \in Answers : Fails(p, e)
        BY <1>11, <1>b, <3>1, FailsStep DEF Gate, Return, At
      <3>2. CASE ~\E e \in Answers : Fails(p, e)
        BY <1>11, <1>b, <3>2, Entry DEF Gate, Return, At, Answers, TypeOK, ProcRec
      <3> QED BY <3>1, <3>2
    <2>3. Sending(p) /\ ~Unrecorded(p)'
      BY <2>2 DEF Sending, Unrecorded
    <2>4. \A m \in Mailboxes : Live(m)' => Live(m) \/ (Sending(p) /\ proc[p].mailbox = m)
      BY <2>1 DEF Live
    <2> QED BY <1>b, <2>1, <2>2, <2>3, <2>4, BondsQuiet
  <1>12. ASSUME NEW p \in Procs, MarkCompleted(p) PROVE Bonds'
    <2> DEFINE a == proc[p].action
    <2>1. mail' = mail /\ excused' = excused /\ proc[p].pc = "sent" /\ a \in Actions
      BY <1>12, <1>b, Entry DEF MarkCompleted, At
    <2>2. /\ \A q \in Procs \ {p} : proc'[q] = proc[q]
          /\ proc'[p].pc \in {"closing", "failed"}
          /\ proc'[p].action = proc[p].action /\ proc'[p].mailbox = proc[p].mailbox
      <3>1. Goto(p, "closing") \/ Fails(p, "dberror")
        BY <1>12 DEF MarkCompleted
      <3> QED BY <1>b, <3>1, GotoStep, FailsStep
    <2>3. Sending(p) /\ ~Unrecorded(p)'
      BY <2>1, <2>2 DEF Sending, Unrecorded
    <2>4. CASE actions' = actions
      <3>1. \A m \in Mailboxes : Live(m)' => Live(m) \/ (Sending(p) /\ proc[p].mailbox = m)
        BY <2>1 DEF Live
      <3> QED BY <1>b, <2>1, <2>2, <2>3, <2>4, <3>1, BondsQuiet
    <2>5. CASE actions' = [actions EXCEPT ![a].status = "completed"]
      <3>1. ASSUME excused' = {}
            PROVE  Sticky(a) /\ actions[a].sender = proc[p].mailbox /\ proc[p].mailbox \in Delivered
        BY <1>b, <2>1, <2>3, <3>1 DEF Signed, Equipped, HasMailbox, Receipted, Delivered
      <3>2. ASSUME excused' = {}
            PROVE  \A b \in Actions : /\ Sticky(b)' <=> Sticky(b)
                                      /\ actions'[b].sender = actions[b].sender
                                      /\ ByProduct(b)' => ByProduct(b) \/ actions[b].sender \in Delivered
        BY <1>b, <2>1, <2>5, <3>1, <3>2 DEF TypeOK, ActionRec, Sticky, ByProduct
      <3> QED BY <1>b, <1>m, <2>1, <2>2, <2>3, <3>2, BondsKept
    <2> QED BY <1>12, <2>4, <2>5 DEF MarkCompleted
  <1>13. ASSUME NEW p \in Procs, RecordInteraction(p) \/ MarkExecuted(p) PROVE Bonds'
    <2>1. actions' = actions /\ mail' = mail /\ excused' = excused /\ Sending(p)
      BY <1>13 DEF RecordInteraction, MarkExecuted, rows, At, Sending
    <2>2. CASE Stop(p)
      BY <2>1, <2>2, <1>2
    <2>3. CASE Fails(p, "dberror") \/ Goto(p, "marking")
      <3>1. ~Unrecorded(p)'
        <4>1. proc'[p].pc \in {"failed", "marking"}
          BY <1>b, <2>3, FailsStep, GotoStep
        <4> QED BY <4>1 DEF Unrecorded
      <3>2. \A m \in Mailboxes : Live(m)' => Live(m) \/ (Sending(p) /\ proc[p].mailbox = m)
        BY <2>1 DEF Live
      <3>3. /\ proc'[p].action = proc[p].action /\ proc'[p].mailbox = proc[p].mailbox
            /\ \A q \in Procs \ {p} : proc'[q] = proc[q]
        BY <1>b, <2>3, FailsStep, GotoStep
      <3> QED BY <1>b, <2>1, <3>1, <3>2, <3>3, BondsQuiet
    <2> QED BY <1>13, <2>2, <2>3 DEF RecordInteraction, MarkExecuted
  <1>14. ASSUME NEW p \in Procs, RecordFailure(p) PROVE Bonds'
    <2> DEFINE a == proc[p].action
               error == ErrorOf(proc[p].answer)
    <2>1. /\ mail' = mail /\ proc[p].pc = "failed" /\ Goto(p, "handling") /\ a \in Actions
          /\ actions' = [actions EXCEPT ![a].status = "failed", ![a].error = error]
          /\ excused' = IF error = "paused" THEN excused ELSE excused \cup Doubt(p)
      BY <1>14, <1>b, Entry DEF RecordFailure, At
    <2>2. /\ \A q \in Procs \ {p} : proc'[q] = proc[q]
          /\ ~Sending(p)' /\ ~Unrecorded(p)' /\ Sending(p)
      <3>1. proc'[p].pc = "handling" /\ \A q \in Procs \ {p} : proc'[q] = proc[q]
        BY <1>b, <2>1, GotoStep
      <3> QED BY <2>1, <3>1 DEF Sending, Unrecorded
    <2>3. CASE error = "paused"
      <3>1. ASSUME excused' = {} PROVE Sticky(a)
        BY <1>b, <2>1, <2>2, <2>3, <3>1 DEF Signed
      <3>2. ASSUME excused' = {}
            PROVE  \A b \in Actions : /\ Sticky(b)' <=> Sticky(b)
                                      /\ actions'[b].sender = actions[b].sender
                                      /\ ByProduct(b)' => ByProduct(b)
        BY <1>b, <2>1, <2>3, <3>1, <3>2 DEF TypeOK, ActionRec, Sticky, ByProduct
      <3> QED BY <1>b, <1>m, <2>1, <2>2, <2>3, <3>2, BondsKept
    <2>4. CASE error # "paused"
      <3>1. error = "other"
        BY <2>4 DEF ErrorOf
      <3>2. \A b \in Actions : /\ Sticky(b)' => Sticky(b)
                               /\ actions'[b].sender = actions[b].sender
                               /\ ByProduct(b)' => ByProduct(b)
        BY <1>b, <2>1, <3>1 DEF TypeOK, ActionRec, Sticky, ByProduct
      <3>3. ASSUME excused' = {}
            PROVE  /\ \A m \in Mailboxes : ~Live(m)
                   /\ \A q \in Procs \ {p} : ~Sending(q)
        BY <2>1, <2>4, <3>3 DEF Doubt, Live
      <3> QED BY <2>1, <2>2, <2>4, <3>2, <3>3, BondsLoosened
    <2> QED BY <2>3, <2>4
  <1>15. ASSUME NEW p \in Procs, HandleFailure(p) \/ Crash(p) PROVE Bonds'
    <2>1. actions' = actions /\ mail' = mail /\ excused' = excused /\ Stop(p)
      BY <1>15 DEF HandleFailure, Crash, rows
    <2> QED BY <2>1, <1>2
  <1>16. ASSUME actions' = actions, proc' = proc, excused' = excused,
                \A m \in Mailboxes : Live(m)' => Live(m)
         PROVE  Bonds'
    <2>1. \A b \in Actions : /\ Sticky(b)' <=> Sticky(b)
                             /\ ByProduct(b)' <=> ByProduct(b)
      BY <1>16 DEF Sticky, ByProduct
    <2> QED BY <1>16, <1>b, <2>1, BondsKept
  <1>17. ASSUME NEW m \in Mailboxes, Queue(m) PROVE Bonds'
    <2>1. \A n \in Mailboxes : Live(n)' => Live(n)
      BY <1>17, <1>b DEF Queue, ProviderTakes, QueueRecords, ProviderRefuses, Live, TypeOK
    <2>2. actions' = actions /\ proc' = proc /\ excused' = excused
      BY <1>17 DEF Queue, ProviderTakes, QueueRecords, ProviderRefuses, rows
    <2> QED BY <1>16, <2>1, <2>2
  <1>18. ASSUME \/ \E m \in Mailboxes, to \in {"active", "stopped", "gone"} : SetMailbox(m, to)
                \/ Dismiss \/ SwitchAutopilot \/ Unsubscribe \/ WeekPasses \/ UNCHANGED vars
         PROVE  Bonds'
    <2>1. actions' = actions /\ proc' = proc /\ excused' = excused /\ mail' = mail
      BY <1>18 DEF SetMailbox, Dismiss, SwitchAutopilot, Unsubscribe, WeekPasses, vars, rows
    <2> QED BY <1>16, <1>m, <2>1
  <1> QED BY <1>1, <1>3, <1>4, <1>5, <1>6, <1>7, <1>8, <1>9, <1>10, <1>11, <1>12, <1>13, <1>14,
             <1>15, <1>17, <1>18, <1>19 DEF Next, Step

\* At the start nobody is bound.
LEMMA BondsInit == Init => Bonds
  <1> SUFFICES ASSUME Init PROVE Bonds
    OBVIOUS
  <1>1. /\ \A p \in Procs : proc[p].pc = "idle"
        /\ \A a \in Actions : actions[a].status = "none" /\ actions[a].sender = NoMailbox
        /\ \A m \in Mailboxes : mail[m] = "idle"
    BY DEF Init, Idle, NoAction
  <1>2. Wrote = {}
    BY <1>1 DEF Wrote, Sticky
  <1> QED BY <1>1, <1>2 DEF Bonds, Agree, Lone, Heeded, Signed, Backed, Kept, Unrecorded, Sending,
                            Live, ByProduct

\* The books and the bonds hold throughout.
LEMMA SendInvariant == Spec => [](Books /\ Bonds)
  <1>1. Books /\ Bonds /\ [Next]_vars => (Books /\ Bonds)'
    BY BooksStep, BondsStep
  <1> QED BY BooksInit, BondsInit, <1>1, PTL DEF Spec

-----------------------------------------------------------------------------

\* mailerForSend with lastSenderFor: whatever crashes, fails, is approved, executed
\* or scheduled again, the person hears from one mailbox, unless a failure was
\* recorded for a message that may have gone out, a failed row was reused, two
\* senders chose at the same time, or the mailbox was removed.
THEOREM OneMailboxAPerson == Spec => []SecondMailExcused
  <1>1. Books /\ Bonds => SecondMailExcused
    <2> SUFFICES ASSUME Books, Bonds, excused = {} PROVE ~(Cardinality(Delivered) > 1)
      BY DEF SecondMailExcused
    <2>1. \A m, n \in Delivered : m = n
      BY DEF Bonds, Backed, Agree, Live, Delivered
    <2>2. CASE Delivered = {}
      BY <2>2, FS_EmptySet
    <2>3. CASE Delivered # {}
      <3>1. PICK m \in Delivered : Delivered = {m}
        BY <2>1, <2>3
      <3> QED BY <3>1, FS_Singleton
    <2> QED BY <2>2, <2>3
  <1> QED BY <1>1, SendInvariant, PTL

\* recordEmailSent: a row the product completed stands for a message that went
\* out, and names the mailbox that carried it unless two senders overlapped.
THEOREM CompletedRowsAreTrue == Spec => []CompletedWentOut
  <1>1. Books /\ Bonds => CompletedWentOut
    BY DEF Books, Bonds, WentOut, Kept, ByProduct, CompletedWentOut
  <1> QED BY <1>1, SendInvariant, PTL

\* mailerForSend never fails over: while a row says the provider stopped a mailbox
\* that is still in the pool, no other mailbox is handed the message.
THEOREM NoFailover == Spec => NeverFailsOver
  <1> DEFINE Stays ==
        \A m \in Mailboxes : NewlySubmitted(m) /\ excused = {} =>
          ~\E a \in Actions : /\ actions[a].error = "paused"
                              /\ actions[a].status = "failed"
                              /\ actions[a].sender \in Mailboxes \ {m}
                              /\ status[actions[a].sender] # "gone"
  <1>1. Books /\ Bonds /\ [Next]_vars => [Stays]_vars
    <2> SUFFICES ASSUME Books, Bonds, [Next]_vars, NEW m \in Mailboxes, NewlySubmitted(m),
                        excused = {}, NEW a \in Actions, actions[a].error = "paused",
                        actions[a].status = "failed", actions[a].sender \in Mailboxes \ {m}
                 PROVE  FALSE
      BY DEF vars
    <2>1. PICK p \in Procs : Submit(p)
      <3>1. ~\E n \in Mailboxes : Queue(n)
        BY DEF NewlySubmitted, Queue, ProviderTakes, QueueRecords, ProviderRefuses, Books, TypeOK
      <3> QED BY <3>1, MailMoves DEF NewlySubmitted
    <2>2. proc[p].mailbox = m
      BY <2>1 DEF Submit, NewlySubmitted, Books, TypeOK
    <2>3. proc[p].action \in Wrote /\ actions[proc[p].action].sender = m
      BY <2>1, <2>2, Entry DEF Bonds, Signed, Submit, At, Sending, Wrote, Books
    <2>4. a \in Wrote
      BY SendAssumption DEF Wrote, Sticky
    <2> QED BY <2>3, <2>4 DEF Bonds, Agree
  <1> QED BY <1>1, SendInvariant, PTL DEF Spec, NeverFailsOver

-----------------------------------------------------------------------------
(***************************************************************************)
(* Every mailbox's queue, as the senders see it, implements OneSend.       *)
(***************************************************************************)
Copies(m) == IF m \in Delivered THEN 1 ELSE 0
Told(m, p) == IF proc[p].mailbox = m /\ proc[p].answer \in Answers THEN proc[p].answer ELSE "none"
ToldAll(m) == [p \in Procs |-> Told(m, p)]

\* One process is told one thing by one mailbox: an answer it may give, or none.
LEMMA Telling ==
    ASSUME NEW m \in Mailboxes, NEW p \in Procs, mail' = mail,
           \A q \in Procs \ {p} : proc'[q] = proc[q],
           \/ Told(m, p)' = Told(m, p)
           \/ Told(m, p)' = "none"
           \/ /\ Told(m, p)' \in Answers
              /\ Told(m, p)' = "receipt" => mail[m] \in {"taken", "sent"}
              /\ Told(m, p)' = "exhausted" => mail[m] = "spent"
    PROVE  [Mail(m)!Next]_(Mail(m)!vars)
  <1>1. /\ Copies(m)' = Copies(m) /\ (mail[m] = "spent")' = (mail[m] = "spent")
        /\ ToldAll(m)' = [ToldAll(m) EXCEPT ![p] = Told(m, p)']
    BY DEF Copies, Delivered, ToldAll, Told
  <1>2. CASE Told(m, p)' = Told(m, p)
    <2>1. ToldAll(m)' = ToldAll(m)
      BY <1>1, <1>2 DEF ToldAll
    <2> QED BY <1>1, <2>1 DEF Mail!vars, Copies, ToldAll, Told
  <1>3. CASE Told(m, p)' = "none"
    <2>1. Mail(m)!Ask(p)
      BY <1>1, <1>3 DEF Mail!Ask, Copies, ToldAll, Told
    <2> QED BY <2>1 DEF Mail!Next
  <1>4. CASE /\ Told(m, p)' \in Answers
             /\ Told(m, p)' = "receipt" => mail[m] \in {"taken", "sent"}
             /\ Told(m, p)' = "exhausted" => mail[m] = "spent"
    <2>1. PICK a \in Answers : Told(m, p)' = a
      BY <1>4
    <2>2. /\ a = "receipt" => m \in Delivered
          /\ a = "exhausted" => mail[m] = "spent" /\ m \notin Delivered
      BY <1>4, <2>1 DEF Delivered
    <2>3. Mail(m)!Tell(p, a)
      BY <1>1, <2>1, <2>2 DEF Mail!Tell, Copies, ToldAll, Told
    <2> QED BY <2>3 DEF Mail!Next
  <1> QED BY <1>2, <1>3, <1>4

\* Nobody is told anything.
LEMMA Silence ==
    ASSUME NEW m \in Mailboxes, mail' = mail, proc' = proc
    PROVE  [Mail(m)!Next]_(Mail(m)!vars)
  BY DEF Mail!vars, Delivered

\* A process that has no answer yet, or loses the one it had, is told nothing.
LEMMA Forgetting ==
    ASSUME Books', NEW p \in Procs, ~Answered(p)', mail' = mail,
           \A q \in Procs \ {p} : proc'[q] = proc[q]
    PROVE  \A m \in Mailboxes : [Mail(m)!Next]_(Mail(m)!vars)
  <1>1. proc'[p].answer = "none"
    BY DEF Books, Equipped
  <1>2. \A m \in Mailboxes : Told(m, p)' = "none"
    BY <1>1 DEF Told
  <1> QED BY <1>2, Telling

\* A step of the sends is a step, or a stutter, of every mailbox's OneSend.
LEMMA PromiseStep ==
    Books /\ Books' /\ [Next]_vars => \A m \in Mailboxes : [Mail(m)!Next]_(Mail(m)!vars)
  <1> SUFFICES ASSUME Books, Books', [Next]_vars
               PROVE  \A m \in Mailboxes : [Mail(m)!Next]_(Mail(m)!vars)
    OBVIOUS
  <1>b. TypeOK /\ \A p \in Procs : Equipped(p)
    BY DEF Books
  <1> DEFINE Goal == \A m \in Mailboxes : [Mail(m)!Next]_(Mail(m)!vars)
  <1>1. ASSUME NEW p \in Procs,
               StartRun(p) \/ Turn(p) \/ Approve(p) \/ (\E a \in Actions : Execute(p, a) \/ Job(p, a))
        PROVE  Goal
    <2>1. mail' = mail /\ \A q \in Procs \ {p} : proc'[q] = proc[q]
      BY <1>1, <1>b, StopStep, ZenonT(40) DEF StartRun, Turn, Approve, Execute, Job, TypeOK
    <2>2. CASE proc' = proc
      BY <2>1, <2>2, Silence
    <2>3. CASE proc' # proc
      <3>1. ASSUME StartRun(p) PROVE ~Answered(p)'
        BY <3>1, <1>b DEF StartRun, TypeOK, Idle, Answered
      <3>2. ASSUME Turn(p) PROVE ~Answered(p)'
        <4>1. proc'[p].pc \in {"cleared", "idle"}
          BY <3>2, <1>b, Entry, StopStep DEF Turn, TypeOK, ProcRec
        <4> QED BY <4>1 DEF Answered
      <3>3. ASSUME Approve(p) PROVE ~Answered(p)'
        BY <3>3, <1>b DEF Approve, TypeOK, Idle, Answered
      <3>4. ASSUME NEW a \in Actions, Execute(p, a) PROVE ~Answered(p)'
        BY <3>4, <1>b DEF Execute, TypeOK, Idle, Answered
      <3>5. ASSUME NEW a \in Actions, Job(p, a) PROVE ~Answered(p)'
        <4>1. proc' = [proc EXCEPT ![p] = [Idle EXCEPT !.pc = "rechecking", !.role = "job", !.action = a]]
          BY <3>5, <2>3 DEF Job
        <4>2. proc'[p].pc = "rechecking"
          BY <1>b, <4>1 DEF TypeOK, Idle
        <4> QED BY <4>2 DEF Answered
      <3>6. ~Answered(p)'
        BY <1>1, <3>1, <3>2, <3>3, <3>4, <3>5
      <3> QED BY <2>1, <3>6, Forgetting
    <2> QED BY <2>2, <2>3
  <1>2. ASSUME NEW p \in Procs, Stop(p), mail' = mail PROVE Goal
    BY <1>2, <1>b, StopStep, Forgetting DEF Answered
  <1>3. ASSUME NEW p \in Procs, MailerForSend(p) PROVE Goal
    <2>1. ASSUME NEW m \in Mailboxes, Choose(p, m) PROVE Goal
      <3>1. /\ mail' = mail /\ \A q \in Procs \ {p} : proc'[q] = proc[q]
            /\ proc'[p].pc \in {"picked", "checking"}
        BY <2>1, <1>b, Entry DEF Choose, TypeOK, ProcRec
      <3> QED BY <3>1, Forgetting DEF Answered
    <2>2. CASE Defer(p) \/ NoneActive(p)
      BY <2>2, <1>2 DEF Defer, NoneActive
    <2> QED BY <1>3, <2>1, <2>2 DEF MailerForSend
  <1>4. ASSUME NEW p \in Procs, NEW a \in Actions, InsertRow(p, a) \/ RecordAction(p, a) PROVE Goal
    <2>1. /\ mail' = mail /\ \A q \in Procs \ {p} : proc'[q] = proc[q]
          /\ proc'[p].pc \in {"sending", "picking", "idle"}
      BY <1>4, <1>b, Entry, StopStep DEF InsertRow, RecordAction, TypeOK, ProcRec
    <2> QED BY <2>1, Forgetting DEF Answered
  <1>5. ASSUME NEW p \in Procs, MarkApproved(p) \/ Deliver(p) \/ AssignSender(p) PROVE Goal
    <2>1. mail' = mail /\ (Goto(p, "approved") \/ Goto(p, "naming") \/ Goto(p, "sending"))
      BY <1>5 DEF MarkApproved, Deliver, AssignSender
    <2>2. ~Answered(p)' /\ \A q \in Procs \ {p} : proc'[q] = proc[q]
      <3>1. /\ proc'[p].pc \in {"approved", "naming", "sending"}
            /\ \A q \in Procs \ {p} : proc'[q] = proc[q]
        BY <2>1, <1>b, GotoStep
      <3> QED BY <3>1 DEF Answered
    <2> QED BY <2>1, <2>2, Forgetting
  <1>6. ASSUME NEW p \in Procs, Submit(p), NEW m \in Mailboxes
        PROVE  [Mail(m)!Next]_(Mail(m)!vars)
    <2>1. /\ \A q \in Procs : Told(m, q)' = Told(m, q)
      <3>1. /\ \A q \in Procs \ {p} : proc'[q] = proc[q]
            /\ proc'[p].mailbox = proc[p].mailbox /\ proc'[p].answer = proc[p].answer
        BY <1>6, <1>b, GotoStep DEF Submit
      <3> QED BY <3>1 DEF Told
    <2>2. ToldAll(m)' = ToldAll(m)
      BY <2>1 DEF ToldAll
    <2>3. Delivered' = Delivered /\ (mail'[m] = "spent" <=> mail[m] = "spent")
      BY <1>6, <1>b DEF Submit, Starts, Delivered, TypeOK
    <2> QED BY <2>2, <2>3 DEF Mail!vars, ToldAll, Told
  <1>7. ASSUME NEW p \in Procs, NEW e \in Answers \cup {"dberror"}, Fails(p, e), mail' = mail,
               e = "exhausted" => mail[proc[p].mailbox] = "spent", e # "receipt"
        PROVE  Goal
    <2>1. /\ proc'[p].answer = e /\ proc'[p].mailbox = proc[p].mailbox
          /\ \A q \in Procs \ {p} : proc'[q] = proc[q]
      BY <1>7, <1>b, FailsStep
    <2>2. \A m \in Mailboxes : \/ Told(m, p)' = "none"
                               \/ Told(m, p)' = e /\ e \in Answers /\ proc[p].mailbox = m
      BY <2>1 DEF Told
    <2> QED BY <1>7, <2>1, <2>2, Telling
  <1>8. ASSUME NEW p \in Procs, Gate(p) \/ Return(p) PROVE Goal
    <2>1. mail' = mail
      BY <1>8 DEF Gate, Return
    <2>2. CASE \E e \in Answers \ {"exhausted", "receipt"} : Fails(p, e)
      BY <2>1, <2>2, <1>7
    <2>3. CASE Fails(p, "exhausted") /\ mail[proc[p].mailbox] = "spent"
      BY <2>1, <2>3, <1>7 DEF Answers
    <2>4. CASE /\ proc' = [proc EXCEPT ![p].pc = "sent", ![p].answer = "receipt"]
               /\ mail[proc[p].mailbox] = "sent"
      <3>1. /\ proc'[p].answer = "receipt" /\ proc'[p].mailbox = proc[p].mailbox
            /\ \A q \in Procs \ {p} : proc'[q] = proc[q]
        BY <2>4, <1>b, Entry DEF TypeOK, ProcRec
      <3>2. \A m \in Mailboxes : \/ Told(m, p)' = "none"
                                 \/ Told(m, p)' = "receipt" /\ proc[p].mailbox = m
        BY <3>1 DEF Told
      <3> QED BY <2>1, <2>4, <3>1, <3>2, Telling DEF Answers
    <2> QED BY <1>8, <2>2, <2>3, <2>4 DEF Gate, Return, Answers
  <1>9. ASSUME NEW p \in Procs, NEW pc, Goto(p, pc), mail' = mail PROVE Goal
    <2>1. /\ proc'[p].mailbox = proc[p].mailbox /\ proc'[p].answer = proc[p].answer
          /\ \A q \in Procs \ {p} : proc'[q] = proc[q]
      BY <1>9, <1>b, GotoStep
    <2>2. \A m \in Mailboxes : Told(m, p)' = Told(m, p)
      BY <2>1 DEF Told
    <2> QED BY <1>9, <2>1, <2>2, Telling
  <1>10. ASSUME NEW p \in Procs,
                DeliverStops(p) \/ MarkCompleted(p) \/ RecordInteraction(p) \/ MarkExecuted(p)
                \/ RecordFailure(p) \/ HandleFailure(p) \/ Crash(p) \/ Recheck(p) \/ CancelHeld(p)
         PROVE  Goal
    <2>1. mail' = mail /\ (Stop(p) \/ Fails(p, "dberror") \/ \E pc : Goto(p, pc))
      BY <1>10 DEF DeliverStops, MarkCompleted, RecordInteraction, MarkExecuted, RecordFailure,
                   HandleFailure, Crash, Recheck, CancelHeld
    <2> QED BY <2>1, <1>2, <1>7, <1>9
  <1>11. ASSUME NEW n \in Mailboxes, Queue(n), NEW m \in Mailboxes
         PROVE  [Mail(m)!Next]_(Mail(m)!vars)
    <2>1. proc' = proc /\ \A k \in Mailboxes \ {n} : mail'[k] = mail[k]
      BY <1>11, <1>b DEF Queue, ProviderTakes, QueueRecords, ProviderRefuses, TypeOK
    <2>2. \/ mail[n] = "underway" /\ mail'[n] \in {"taken", "idle", "spent"}
          \/ mail[n] = "taken" /\ mail'[n] = "sent"
      BY <1>11, <1>b DEF Queue, ProviderTakes, QueueRecords, ProviderRefuses, TypeOK
    <2>3. CASE n # m \/ mail'[n] \in {"idle", "sent"}
      <3>1. Copies(m)' = Copies(m) /\ (mail'[m] = "spent" <=> mail[m] = "spent")
        BY <2>1, <2>2, <2>3 DEF Copies, Delivered
      <3> QED BY <2>1, <3>1 DEF Mail!vars, Copies
    <2>4. CASE n = m /\ mail'[n] = "taken"
      <3>1. /\ Copies(m) = 0 /\ Copies(m)' = 1 /\ mail[m] = "underway" /\ mail'[m] = "taken"
        BY <2>2, <2>4 DEF Copies, Delivered
      <3>2. Mail(m)!Send
        BY <2>1, <3>1 DEF Mail!Send, Copies
      <3> QED BY <3>2 DEF Mail!Next
    <2>5. CASE n = m /\ mail'[n] = "spent"
      <3>1. /\ Copies(m) = 0 /\ Copies(m)' = 0 /\ mail'[m] = "spent"
        BY <2>2, <2>5 DEF Copies, Delivered
      <3>2. Mail(m)!Spend
        BY <2>1, <3>1 DEF Mail!Spend, Copies
      <3> QED BY <3>2 DEF Mail!Next
    <2> QED BY <2>2, <2>3, <2>4, <2>5
  <1>12. ASSUME \/ \E m \in Mailboxes, to \in {"active", "stopped", "gone"} : SetMailbox(m, to)
                \/ (\E a \in Actions : ByHand(a))
                \/ Dismiss \/ SwitchAutopilot \/ Unsubscribe \/ WeekPasses \/ UNCHANGED vars
         PROVE  Goal
    <2>1. proc' = proc /\ mail' = mail
      BY <1>12 DEF SetMailbox, ByHand, Dismiss, SwitchAutopilot, Unsubscribe, WeekPasses, vars
    <2> QED BY <2>1, Silence
  <1> QED BY <1>1, <1>3, <1>4, <1>5, <1>6, <1>8, <1>10, <1>11, <1>12 DEF Next, Step

\* OutreachSend sees each mailbox's queue as OneSend describes it: a receipt means
\* one copy went out, "exhausted" that none did nor will, and there is never a second.
THEOREM EachMailboxKeepsPromise == Spec => MailboxesKeepPromise
  <1>1. Init => \A m \in Mailboxes : Mail(m)!Init
    <2> SUFFICES ASSUME Init, NEW m \in Mailboxes PROVE Mail(m)!Init
      OBVIOUS
    <2>1. /\ \A k \in Mailboxes : mail[k] = "idle"
          /\ \A p \in Procs : proc[p].answer = "none"
      BY DEF Init, Idle
    <2>2. Copies(m) = 0 /\ mail[m] # "spent"
      BY <2>1 DEF Copies, Delivered
    <2>3. ToldAll(m) = [p \in Procs |-> "none"]
      BY <2>1 DEF ToldAll, Told
    <2> QED BY <2>2, <2>3 DEF Mail!Init, Copies, ToldAll, Told
  <1>2. Books /\ Books' /\ [Next]_vars =>
          [\A m \in Mailboxes : [Mail(m)!Next]_(Mail(m)!vars)]_vars
    BY PromiseStep
  <1> QED BY <1>1, <1>2, SendInvariant, PTL DEF Spec, MailboxesKeepPromise

-----------------------------------------------------------------------------
(* An approved card. *)

\* What keeps a card from being stranded: a row that may be executed, and somebody
\* about to write one.
Open(a) == actions[a].status \notin {"none", "completed"}
Busy(p) == proc[p].pc \in {"approved", "closing", "marking", "failed"}

\* A step that opens nothing and closes nothing strands nothing.
LEMMA NoStrand ==
    ASSUME rec' = "approved" => rec = "approved",
           \A a \in Actions : Open(a) => Open(a)',
           \A p \in Procs : Busy(p) => Busy(p)'
    PROVE  Stranded' => Stranded
  BY DEF Stranded, Open, Busy

\* The same for a step of a process that had nothing left to write.
LEMMA NoStrandAside ==
    ASSUME NEW p \in Procs, ~Busy(p), \A q \in Procs \ {p} : proc'[q] = proc[q],
           rec' = "approved" => rec = "approved",
           \A a \in Actions : Open(a) => Open(a)'
    PROVE  Stranded' => Stranded
  <1>1. \A q \in Procs : Busy(q) => Busy(q)'
    BY DEF Busy
  <1> QED BY <1>1, NoStrand

LEMMA Rescued ==
    ASSUME \/ \E a \in Actions : Open(a)'
           \/ \E p \in Procs : Busy(p)'
           \/ rec' # "approved"
    PROVE  ~Stranded'
  BY DEF Stranded, Open, Busy

\* A row that is failed or cancelled can be executed again.
LEMMA StaysOpen ==
    ASSUME TypeOK, NEW a \in Actions, NEW st \in {"failed", "cancelled"},
           \/ actions' = [actions EXCEPT ![a].status = st]
           \/ actions' = [actions EXCEPT ![a].status = st, ![a].error = "other"]
    PROVE  \A b \in Actions : Open(b) => Open(b)'
  <1>1. actions \in [Actions -> ActionRec]
    BY DEF TypeOK
  <1>2. actions'[a].status = st
    BY <1>1 DEF ActionRec
  <1>3. \A b \in Actions \ {a} : actions'[b] = actions[b]
    BY <1>1
  <1> QED BY <1>2, <1>3 DEF Open

LEMMA StrandStep ==
    TypeOK /\ [Next]_vars => (~Stranded /\ Stranded' => \E p \in Procs : Crash(p))
  <1> SUFFICES ASSUME TypeOK, [Next]_vars, \A p \in Procs : ~Crash(p)
               PROVE  Stranded' => Stranded
    OBVIOUS
  <1> DEFINE Goal == Stranded' => Stranded
  <1>1. ASSUME NEW p \in Procs,
               \/ StartRun(p) \/ Turn(p) \/ MailerForSend(p) \/ Approve(p)
               \/ (\E a \in Actions : Execute(p, a) \/ Job(p, a)) \/ Recheck(p)
               \/ Deliver(p) \/ Submit(p) \/ Gate(p) \/ Return(p) \/ HandleFailure(p)
        PROVE  Goal
    <2>1. /\ ~Busy(p) /\ actions' = actions
          /\ rec' = rec \/ rec' = "dismissed"
      BY <1>1 DEF StartRun, Turn, MailerForSend, Choose, Defer, NoneActive, Approve, Execute, Job,
                  Recheck, Deliver, Submit, Gate, Return, HandleFailure, Suppressed, card, rows, At, Busy
    <2>2. \A q \in Procs \ {p} : proc'[q] = proc[q]
      BY <1>1 DEF StartRun, Turn, MailerForSend, Choose, Defer, NoneActive, Approve, Execute, Job,
                  Recheck, Deliver, Submit, Gate, Return, HandleFailure, Stop, Goto, Fails, TypeOK
    <2> QED BY <2>1, <2>2, NoStrandAside DEF Open
  <1>2. ASSUME NEW p \in Procs,
               AssignSender(p) \/ DeliverStops(p) \/ CancelHeld(p)
        PROVE  Goal
    <2>1. ~Busy(p) /\ (rec' = "approved" => rec = "approved")
      BY <1>2 DEF AssignSender, DeliverStops, CancelHeld, card, At, Busy
    <2>2. \A q \in Procs \ {p} : proc'[q] = proc[q]
      BY <1>2 DEF AssignSender, DeliverStops, CancelHeld, Stop, Goto, TypeOK
    <2>3. \A a \in Actions : Open(a) => Open(a)'
      <3>1. actions \in [Actions -> ActionRec] /\ proc[p].action \in Actions
        BY Entry DEF TypeOK
      <3>2. CASE AssignSender(p)
        <4>1. \A a \in Actions : actions'[a].status = actions[a].status
          BY <3>1, <3>2 DEF AssignSender, Named, ActionRec
        <4> QED BY <4>1 DEF Open
      <3>3. CASE DeliverStops(p)
        <4> DEFINE a == proc[p].action
        <4>1. \/ actions' = actions
              \/ actions' = [actions EXCEPT ![a].status = "failed", ![a].error = "other"]
              \/ actions' = [actions EXCEPT ![a].status = "cancelled"]
          BY <3>3 DEF DeliverStops
        <4> QED BY <3>1, <4>1, StaysOpen DEF Open
      <3>4. CASE CancelHeld(p)
        BY <3>1, <3>4, StaysOpen DEF CancelHeld
      <3> QED BY <1>2, <3>2, <3>3, <3>4
    <2> QED BY <2>1, <2>2, <2>3, NoStrandAside
  <1>3. ASSUME NEW p \in Procs, MarkApproved(p) \/ MarkCompleted(p) PROVE Goal
    <2>1. Goto(p, "approved") \/ Goto(p, "closing") \/ Fails(p, "dberror")
      BY <1>3 DEF MarkApproved, MarkCompleted
    <2>2. Busy(p)'
      BY <2>1, GotoStep, FailsStep DEF Busy
    <2> QED BY <2>2, Rescued
  <1>4. ASSUME NEW p \in Procs, NEW a \in Actions, InsertRow(p, a) \/ RecordAction(p, a)
        PROVE  Goal
    <2>1. PICK m \in Mailboxes \cup {NoMailbox} : Insert(a, m)
      BY <1>4, Entry DEF InsertRow, RecordAction
    <2>2. Open(a)'
      BY <2>1, InsertStep DEF Open
    <2> QED BY <2>2, Rescued
  <1>5. ASSUME NEW p \in Procs, RecordInteraction(p) \/ MarkExecuted(p) PROVE Goal
    <2>1. rec' = "executed" \/ Fails(p, "dberror") \/ Goto(p, "marking")
      BY <1>5 DEF RecordInteraction, MarkExecuted
    <2>2. Fails(p, "dberror") \/ Goto(p, "marking") => Busy(p)'
      BY FailsStep, GotoStep DEF Busy
    <2> QED BY <2>1, <2>2, Rescued
  <1>6. ASSUME NEW p \in Procs, RecordFailure(p) PROVE Goal
    <2>1. proc[p].action \in Actions /\ actions'[proc[p].action].status = "failed"
      BY <1>6, Entry DEF RecordFailure, TypeOK, ActionRec
    <2> QED BY <2>1, Rescued DEF Open
  <1>7. CASE \/ \E m \in Mailboxes : Queue(m) \/ \E to \in {"active", "stopped", "gone"} : SetMailbox(m, to)
             \/ SwitchAutopilot \/ WeekPasses \/ UNCHANGED vars
    <2>1. UNCHANGED <<rec, actions, proc>>
      BY <1>7 DEF Queue, ProviderTakes, QueueRecords, ProviderRefuses, SetMailbox, SwitchAutopilot,
                  WeekPasses, card, rows, vars
    <2> QED BY <2>1 DEF Stranded
  <1>8. CASE (\E a \in Actions : ByHand(a)) \/ Dismiss \/ Unsubscribe
    <2>1. rec' # "approved"
      BY <1>8 DEF ByHand, Dismiss, Unsubscribe, Suppressed
    <2> QED BY <2>1, Rescued
  <1> QED BY <1>1, <1>2, <1>3, <1>4, <1>5, <1>6, <1>7, <1>8 DEF Next, Step

\* However approvals, executions, jobs and failures interleave, an approved card
\* that nothing will send, close or offer again is the work of a process that died
\* between two of its writes.
THEOREM ApprovedCardsAreWorked == Spec => OnlyDeathsStrand
  <1>1. TypeOK /\ [Next]_vars => [~Stranded /\ Stranded' => \E p \in Procs : Crash(p)]_vars
    BY StrandStep
  <1> QED BY <1>1, TypeCorrect, PTL DEF Spec, OnlyDeathsStrand

=============================================================================
