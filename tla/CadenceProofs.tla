---------------------------- MODULE CadenceProofs ----------------------------
(***************************************************************************)
(* Proofs about Cadence, for any plan, any number of containers, crashes   *)
(* and overlapping passes.                                                 *)
(***************************************************************************)
EXTENDS Cadence, TLAPS

\* The steps of a pass that change nothing but the pass itself.
Steady == UNCHANGED <<age, plan, enr, left, recorded, pending, facts, overlaps, crashes>>

\* The next look of a waiting step is a natural number of ticks away.
LEMMA NextLookNat ==
    ASSUME TypeOK, NEW s \in Steps, MustWait(s)
    PROVE  NextLook(s) \in Nat
  <1> DEFINE Looks == {Recheck} \cup {left[g] : g \in Governing(s)}
  <1>1. PICK g \in Governing(s) : left[g] > 0
    BY DEF MustWait, WindowOpen
  <1>2. g \in Steps /\ left[g] \in Nat /\ Recheck \in Nat
    BY <1>1, CadenceAssumption DEF Governing, TypeOK
  <1>3. \A h \in Governing(s) : h = g
    <2> SUFFICES ASSUME NEW h \in Governing(s) PROVE h = g
      OBVIOUS
    <2>1. h <= g /\ g <= h
      BY <1>1 DEF Governing
    <2> QED  BY <1>2, <2>1 DEF Governing, Steps
  <1>4. \E n \in Looks : n <= Recheck /\ \A h \in Governing(s) : n <= left[h]
    <2>1. CASE Recheck <= left[g]
      BY <1>2, <1>3, <2>1
    <2>2. CASE left[g] <= Recheck
      BY <1>1, <1>2, <1>3, <2>2
    <2> QED  BY <1>2, <2>1, <2>2
  <1>5. NextLook(s) \in Looks
    BY <1>4 DEF NextLook
  <1>6. Looks \subseteq Nat
    BY <1>2, <1>3
  <1> QED  BY <1>5, <1>6

LEMMA DueInNat ==
    ASSUME TypeOK, NEW n \in Steps
    PROVE  DueIn(n) \in Nat /\ age + DueIn(n) >= DueAt[n]
  <1>1. age \in Nat /\ DueAt[n] \in Nat
    BY HorizonAssumption, CadenceAssumption DEF TypeOK
  <1> QED  BY <1>1 DEF DueIn

-----------------------------------------------------------------------------
(* Types. *)

LEMMA InitType == Init => TypeOK
  <1>1. 0 \in Steps
    BY CadenceAssumption DEF Steps
  <1>2. DueAt[0] \in Nat
    BY <1>1, HorizonAssumption, CadenceAssumption
  <1> SUFFICES ASSUME Init PROVE TypeOK
    OBVIOUS
  <1>3. enr \in Enrollment /\ pass \in [Passes -> PassRec]
    BY <1>1, <1>2 DEF Init, Enrollment, PassRec, Idle
  <1> QED  BY <1>3, CadenceAssumption DEF Init, TypeOK

\* A pass stays a pass.
LEMMA GotoType ==
    ASSUME TypeOK, NEW p \in Passes
    PROVE  /\ \A pc \in {"idle", "reply", "condition", "policy", "find", "insert",
                         "record", "move", "note"} :
                Goto(p, pc) => pass' \in [Passes -> PassRec]
           /\ Leave(p) => pass' \in [Passes -> PassRec]
  <1>1. Idle \in PassRec
    BY CadenceAssumption DEF Idle, PassRec, Steps
  <1> QED  BY <1>1 DEF TypeOK, Goto, Leave, PassRec

LEMMA EndedType ==
    ASSUME TypeOK, NEW status \in {"stopped", "completed"}
    PROVE  Ended(status) \in Enrollment
  BY DEF TypeOK, Ended, Enrollment

LEMMA StepType == TypeOK /\ [Next]_vars => TypeOK'
  <1> SUFFICES ASSUME TypeOK, [Next]_vars PROVE TypeOK'
    OBVIOUS
  <1>1. ASSUME NEW p \in Passes, Pickup(p) PROVE TypeOK'
    <2>1. pass' \in [Passes -> PassRec]
      BY <1>1 DEF Pickup, TypeOK, PassRec, Enrollment
    <2>2. overlaps' \in 0..MaxOverlaps
      BY <1>1, CadenceAssumption DEF Pickup, TypeOK
    <2> QED  BY <1>1, <2>1, <2>2 DEF Pickup, TypeOK, facts
  <1>2. ASSUME NEW p \in Passes, CheckReply(p) PROVE TypeOK'
    <2>1. enr' \in Enrollment /\ pass' \in [Passes -> PassRec]
      BY <1>2, GotoType, EndedType DEF CheckReply, TypeOK
    <2> QED  BY <1>2, <2>1 DEF CheckReply, TypeOK, facts
  <1>3. ASSUME NEW p \in Passes, Note(p) PROVE TypeOK'
    <2>1. recorded' \subseteq Steps
      BY <1>3 DEF Note, TypeOK, PassRec
    <2> QED  BY <1>3, <2>1, GotoType DEF Note, TypeOK, facts
  <1>4. ASSUME NEW p \in Passes, CheckCondition(p) PROVE TypeOK'
    <2>1. pass[p].step \in Steps
      BY DEF TypeOK, PassRec
    <2>2. CASE MustWait(pass[p].step)
      <3>1. enr' = [enr EXCEPT !.due = NextLook(pass[p].step)] /\ Leave(p)
        BY <1>4, <2>2 DEF CheckCondition
      <3>2. enr' \in Enrollment
        BY <3>1, <2>1, <2>2, NextLookNat DEF TypeOK, Enrollment
      <3> QED  BY <1>4, <3>1, <3>2, GotoType DEF CheckCondition, TypeOK, facts
    <2>3. CASE ~MustWait(pass[p].step)
      <3>1. UNCHANGED enr /\ (Goto(p, "policy") \/ Goto(p, "record"))
        BY <1>4, <2>3 DEF CheckCondition
      <3> QED  BY <1>4, <3>1, GotoType DEF CheckCondition, TypeOK, facts
    <2> QED  BY <2>2, <2>3
  <1>5. ASSUME NEW p \in Passes, Policy(p) PROVE TypeOK'
    BY <1>5, GotoType DEF Policy, TypeOK, facts
  <1>6. ASSUME NEW p \in Passes, FindCard(p) PROVE TypeOK'
    <2>1. PICK pc \in {"record", "insert"} :
            pass' = [pass EXCEPT ![p] = [pass[p] EXCEPT !.pc = pc, !.ran = TRUE]]
      BY <1>6 DEF FindCard
    <2>2. pass' \in [Passes -> PassRec]
      BY <2>1 DEF TypeOK, PassRec
    <2> QED  BY <1>6, <2>2 DEF FindCard, TypeOK, facts
  <1>7. ASSUME NEW p \in Passes, InsertCard(p) PROVE TypeOK'
    <2>1. Kind[pass[p].step] \in Kinds
      BY CadenceAssumption DEF TypeOK, PassRec
    <2>2. pending' \in [Kinds -> Nat]
      BY <1>7, <2>1 DEF InsertCard, TypeOK
    <2> QED  BY <1>7, <2>2, GotoType DEF InsertCard, TypeOK, facts
  <1>8. ASSUME NEW p \in Passes, Record(p) PROVE TypeOK'
    <2>1. recorded' \subseteq Steps /\ left' \in [Steps -> Nat]
      BY <1>8, CadenceAssumption DEF Record, TypeOK, PassRec
    <2> QED  BY <1>8, <2>1, GotoType DEF Record, TypeOK, facts
  <1>9. ASSUME NEW p \in Passes, MoveOn(p) PROVE TypeOK'
    <2> DEFINE n == Following(pass[p].step)
    <2>1. n \in Nat
      BY DEF Following, TypeOK, PassRec, Steps
    <2>2. CASE n > Last
      BY <1>9, <2>2, EndedType, GotoType DEF MoveOn, TypeOK, facts
    <2>3. CASE ~(n > Last)
      <3>1. n \in Steps
        BY <2>1, <2>3, CadenceAssumption DEF Steps
      <3>2. enr' \in Enrollment
        BY <1>9, <2>3, <3>1, DueInNat DEF MoveOn, TypeOK, Enrollment
      <3> QED  BY <1>9, <3>2, GotoType DEF MoveOn, TypeOK, facts
    <2> QED  BY <2>2, <2>3
  <1>10. ASSUME NEW p \in Passes, Crash(p) PROVE TypeOK'
    BY <1>10, GotoType, CadenceAssumption DEF Crash, TypeOK, facts
  <1>11. CASE Tick
    <2>1. age' \in 0..Horizon /\ left' \in [Steps -> Nat]
      BY <1>11, CadenceAssumption DEF Tick, Soon, TypeOK
    <2>2. enr' \in Enrollment
      BY <1>11 DEF Tick, Soon, TypeOK, Enrollment, Never
    <2> QED  BY <1>11, <2>1, <2>2 DEF Tick, TypeOK, facts
  <1>12. CASE SetStatus
    BY <1>12 DEF SetStatus, TypeOK, facts
  <1>13. CASE TakeOff
    BY <1>13, EndedType DEF TakeOff, TypeOK, facts
  <1>14. CASE Reply
    BY <1>14 DEF Reply, TypeOK
  <1>15. CASE Accept \/ Click
    BY <1>15 DEF Accept, Click, TypeOK
  <1>16. ASSUME NEW k \in Kinds, Decide(k) PROVE TypeOK'
    <2>1. pending' \in [Kinds -> Nat]
      BY <1>16 DEF Decide, TypeOK
    <2> QED  BY <1>16, <2>1 DEF Decide, TypeOK, facts
  <1>17. CASE UNCHANGED vars
    BY <1>17 DEF TypeOK, vars
  <1> QED  BY <1>1, <1>2, <1>3, <1>4, <1>5, <1>6, <1>7, <1>8, <1>9, <1>10, <1>11, <1>12,
              <1>13, <1>14, <1>15, <1>16, <1>17 DEF Next, Advance

\* Every value stays in its type.
THEOREM TypeCorrect == Spec => []TypeOK
  BY InitType, StepType, PTL DEF Spec

-----------------------------------------------------------------------------
(***************************************************************************)
(* The record.  A pass holds a position behind which all is recorded, its  *)
(* own too by the time it moves the pointer: whatever it writes back, new  *)
(* or old, has nothing unrecorded behind it.                               *)
(***************************************************************************)

RecordedBehind ==
    \A p \in Passes :
      /\ pass[p].pc # "idle" => \A s \in Steps : s < pass[p].step => s \in recorded
      /\ pass[p].pc = "move" => pass[p].step \in recorded

RecordInv == TypeOK /\ NoStepLost /\ RecordedBehind

\* What a pass does to its own state and to no other's.
LEMMA PassStep ==
    ASSUME TypeOK, NEW p \in Passes
    PROVE  /\ \A pc : Goto(p, pc) =>
                /\ pass'[p] = [pass[p] EXCEPT !.pc = pc]
                /\ pass'[p].pc = pc /\ pass'[p].step = pass[p].step
                /\ pass'[p].heard = pass[p].heard
                /\ \A q \in Passes \ {p} : pass'[q] = pass[q]
           /\ Leave(p) => /\ pass'[p].pc = "idle" /\ pass'[p].heard = FALSE
                          /\ \A q \in Passes \ {p} : pass'[q] = pass[q]
           /\ FindCard(p) =>
                /\ pass'[p].pc \in {"record", "insert"} /\ pass'[p].step = pass[p].step
                /\ pass'[p].heard = pass[p].heard
                /\ \A q \in Passes \ {p} : pass'[q] = pass[q]
  <1>1. \A pc : Goto(p, pc) =>
                /\ pass'[p] = [pass[p] EXCEPT !.pc = pc]
                /\ \A q \in Passes \ {p} : pass'[q] = pass[q]
    BY DEF TypeOK, Goto
  <1>2. Leave(p) => /\ pass'[p].pc = "idle" /\ pass'[p].heard = FALSE
                    /\ \A q \in Passes \ {p} : pass'[q] = pass[q]
    BY DEF TypeOK, Leave, Idle
  <1>3. ASSUME FindCard(p)
        PROVE  /\ pass'[p].pc \in {"record", "insert"} /\ pass'[p].step = pass[p].step
               /\ pass'[p].heard = pass[p].heard
               /\ \A q \in Passes \ {p} : pass'[q] = pass[q]
    <2>1. PICK pc \in {"record", "insert"} :
            pass' = [pass EXCEPT ![p] = [pass[p] EXCEPT !.pc = pc, !.ran = TRUE]]
      BY <1>3 DEF FindCard
    <2> QED  BY <2>1 DEF TypeOK, PassRec
  <1>4. pass[p] \in PassRec
    BY DEF TypeOK
  <1> QED  BY <1>1, <1>2, <1>3, <1>4 DEF PassRec

\* The pass p keeps its position, or leaves; the record only grows.
LEMMA RecordKept ==
    ASSUME RecordInv, NEW p \in Passes,
           pass'[p].pc = "idle" \/ (pass[p].pc # "idle" /\ pass'[p].step = pass[p].step),
           pass'[p].pc = "move" => pass[p].step \in recorded',
           \A q \in Passes \ {p} : pass'[q] = pass[q],
           recorded \subseteq recorded'
    PROVE  RecordedBehind'
  BY DEF RecordInv, RecordedBehind

LEMMA GotoKept ==
    ASSUME RecordInv, NEW p \in Passes, NEW pc, Goto(p, pc),
           pass[p].pc # "idle", pc # "move" \/ pass[p].step \in recorded',
           recorded \subseteq recorded'
    PROVE  RecordedBehind'
  <1>1. /\ pass'[p].pc = pc /\ pass'[p].step = pass[p].step
        /\ \A q \in Passes \ {p} : pass'[q] = pass[q]
    BY PassStep DEF RecordInv
  <1> QED  BY <1>1, RecordKept

LEMMA LeaveKept ==
    ASSUME RecordInv, NEW p \in Passes, Leave(p), recorded \subseteq recorded'
    PROVE  RecordedBehind'
  <1>1. pass'[p].pc = "idle" /\ \A q \in Passes \ {p} : pass'[q] = pass[q]
    BY PassStep DEF RecordInv
  <1> QED  BY <1>1, RecordKept

LEMMA RecordInit == Init => RecordInv
  <1>1. Init => NoStepLost
    <2>1. \A s \in Steps : ~(s < 0)
      BY CadenceAssumption DEF Steps
    <2> QED  BY <2>1 DEF Init, NoStepLost
  <1>2. Init => RecordedBehind
    BY DEF Init, RecordedBehind, Idle
  <1> QED  BY <1>1, <1>2, InitType DEF RecordInv

LEMMA RecordStep == RecordInv /\ [Next]_vars => RecordInv'
  <1> SUFFICES ASSUME RecordInv, [Next]_vars PROVE NoStepLost' /\ RecordedBehind'
    BY StepType DEF RecordInv
  <1> USE DEF RecordInv
  <1>1. ASSUME NEW p \in Passes, Pickup(p) PROVE NoStepLost' /\ RecordedBehind'
    <2>1. pass'[p].pc = "reply" /\ pass'[p].step = enr.step
      BY <1>1 DEF Pickup, TypeOK
    <2>2. \A q \in Passes \ {p} : pass'[q] = pass[q]
      BY <1>1 DEF Pickup, TypeOK
    <2>3. NoStepLost'
      BY <1>1 DEF Pickup, NoStepLost
    <2>4. RecordedBehind'
      BY <1>1, <2>1, <2>2 DEF Pickup, RecordedBehind, NoStepLost
    <2> QED  BY <2>3, <2>4
  <1>2. ASSUME NEW p \in Passes, CheckReply(p) PROVE NoStepLost' /\ RecordedBehind'
    <2>1. NoStepLost'
      BY <1>2 DEF CheckReply, NoStepLost, Ended, TypeOK, Enrollment
    <2> QED  BY <1>2, <2>1, GotoKept, LeaveKept DEF CheckReply
  <1>3. ASSUME NEW p \in Passes, Note(p) PROVE NoStepLost' /\ RecordedBehind'
    <2>1. NoStepLost'
      BY <1>3 DEF Note, NoStepLost
    <2> QED  BY <1>3, <2>1, GotoKept, LeaveKept DEF Note
  <1>4. ASSUME NEW p \in Passes, CheckCondition(p) PROVE NoStepLost' /\ RecordedBehind'
    <2>1. enr'.status = enr.status /\ enr'.step = enr.step
      BY <1>4 DEF CheckCondition, TypeOK, Enrollment
    <2>2. NoStepLost'
      BY <1>4, <2>1 DEF CheckCondition, NoStepLost
    <2>3. Leave(p) \/ Goto(p, "policy") \/ Goto(p, "record")
      BY <1>4 DEF CheckCondition
    <2> QED  BY <1>4, <2>2, <2>3, GotoKept, LeaveKept DEF CheckCondition
  <1>5. ASSUME NEW p \in Passes, Policy(p) PROVE NoStepLost' /\ RecordedBehind'
    <2>1. NoStepLost'
      BY <1>5 DEF Policy, NoStepLost
    <2> QED  BY <1>5, <2>1, GotoKept, LeaveKept DEF Policy
  <1>6. ASSUME NEW p \in Passes, FindCard(p) PROVE NoStepLost' /\ RecordedBehind'
    <2>1. NoStepLost' /\ pass[p].pc = "find" /\ recorded' = recorded
      BY <1>6 DEF FindCard, NoStepLost
    <2> QED  BY <1>6, <2>1, RecordKept, PassStep
  <1>7. ASSUME NEW p \in Passes, InsertCard(p) PROVE NoStepLost' /\ RecordedBehind'
    <2>1. NoStepLost'
      BY <1>7 DEF InsertCard, NoStepLost
    <2> QED  BY <1>7, <2>1, GotoKept, LeaveKept DEF InsertCard
  <1>8. ASSUME NEW p \in Passes, Record(p) PROVE NoStepLost' /\ RecordedBehind'
    <2>1. NoStepLost'
      BY <1>8 DEF Record, NoStepLost
    <2> QED  BY <1>8, <2>1, GotoKept, LeaveKept DEF Record
  <1>9. ASSUME NEW p \in Passes, MoveOn(p) PROVE NoStepLost' /\ RecordedBehind'
    <2> DEFINE n == pass[p].step + 1
    <2>1. pass[p].step \in Steps /\ pass[p].step \in recorded
      BY <1>9 DEF MoveOn, RecordedBehind, TypeOK, PassRec
    <2>2. \A s \in Steps : s < n => s \in recorded
      <3>1. \A s \in Steps : s < n => s < pass[p].step \/ s = pass[p].step
        BY <2>1 DEF Steps
      <3> QED  BY <1>9, <2>1, <3>1 DEF MoveOn, RecordedBehind
    <2>3. CASE n > Last
      <3>1. \A s \in Steps : s \in recorded
        BY <2>1, <2>2, <2>3, CadenceAssumption DEF Steps
      <3> QED  BY <1>9, <3>1, <2>1, GotoKept, LeaveKept DEF MoveOn, NoStepLost
    <2>4. CASE ~(n > Last)
      <3>1. enr'.status = enr.status /\ enr'.step = n
        BY <1>9, <2>4 DEF MoveOn, Following, TypeOK, Enrollment
      <3>2. NoStepLost'
        BY <1>9, <2>2, <3>1 DEF MoveOn, NoStepLost
      <3> QED  BY <1>9, <3>2, GotoKept, LeaveKept DEF MoveOn
    <2> QED  BY <2>3, <2>4
  <1>10. ASSUME NEW p \in Passes, Crash(p) PROVE NoStepLost' /\ RecordedBehind'
    <2>1. NoStepLost'
      BY <1>10 DEF Crash, NoStepLost
    <2> QED  BY <1>10, <2>1, GotoKept, LeaveKept DEF Crash
  <1>11. CASE Tick
    BY <1>11 DEF Tick, NoStepLost, RecordedBehind, TypeOK, Enrollment
  <1>12. CASE TakeOff
    BY <1>12 DEF TakeOff, NoStepLost, RecordedBehind, Ended, TypeOK, Enrollment
  <1>13. CASE SetStatus \/ Reply \/ Accept \/ Click \/ UNCHANGED vars
    BY <1>13 DEF SetStatus, Reply, Accept, Click, vars, NoStepLost, RecordedBehind
  <1>14. ASSUME NEW k \in Kinds, Decide(k) PROVE NoStepLost' /\ RecordedBehind'
    BY <1>14 DEF Decide, NoStepLost, RecordedBehind
  <1> QED  BY <1>1, <1>2, <1>3, <1>4, <1>5, <1>6, <1>7, <1>8, <1>9, <1>10, <1>11, <1>12,
              <1>13, <1>14 DEF Next, Advance

\* Nothing the plan has passed is missing from the record.
THEOREM NothingLost == Spec => []NoStepLost
  <1>1. RecordInv => NoStepLost
    BY DEF RecordInv
  <1> QED  BY <1>1, RecordInit, RecordStep, PTL DEF Spec

-----------------------------------------------------------------------------
(***************************************************************************)
(* While no pass began beside another, at most one is at work, at the      *)
(* enrollment's own step, whose date has come; and what it is about to     *)
(* insert is not there yet.                                                *)
(***************************************************************************)

Alone == overlaps = 0 => \A p, q \in Passes : pass[p].pc # "idle" /\ pass[q].pc # "idle" => p = q

Dated == overlaps = 0 =>
    /\ enr.due # Never => age + enr.due >= DueAt[enr.step]
    /\ \A p \in Passes : pass[p].pc # "idle" =>
         enr.step = pass[p].step /\ age >= DueAt[pass[p].step]

Unasked == overlaps = 0 =>
    \A p \in Passes : pass[p].pc = "insert" => pending[Kind[pass[p].step]] = 0

SoloInv == TypeOK /\ Alone /\ Dated /\ Unasked /\ OneAsk

LEMMA SoloInit == Init => SoloInv
  <1> SUFFICES ASSUME Init PROVE Alone /\ Dated /\ Unasked /\ OneAsk
    BY InitType DEF SoloInv
  <1>1. DueAt[0] \in Nat /\ 0 \in Steps
    BY HorizonAssumption, CadenceAssumption DEF Steps
  <1> QED  BY <1>1 DEF Init, Alone, Dated, Unasked, OneAsk, Idle

\* A pass that goes on with its step, leaving enrollment, clock and cards alone.
LEMMA SoloGoto ==
    ASSUME SoloInv, NEW p \in Passes, NEW pc, Goto(p, pc),
           pass[p].pc # "idle", pc # "insert",
           UNCHANGED <<age, enr, pending, overlaps>>
    PROVE  Alone' /\ Dated' /\ Unasked' /\ OneAsk'
  <1>1. /\ pass'[p].pc = pc /\ pass'[p].step = pass[p].step
        /\ \A q \in Passes \ {p} : pass'[q] = pass[q]
    BY PassStep DEF SoloInv
  <1>2. Alone'
    BY <1>1 DEF SoloInv, Alone
  <1>3. Dated'
    BY <1>1 DEF SoloInv, Dated
  <1>4. Unasked' /\ OneAsk'
    BY <1>1 DEF SoloInv, Unasked, OneAsk
  <1> QED  BY <1>2, <1>3, <1>4

\* A pass that leaves: nobody else is at work.
LEMMA SoloLeave ==
    ASSUME SoloInv, NEW p \in Passes, Leave(p), pass[p].pc # "idle",
           UNCHANGED <<pending, overlaps>>,
           overlaps = 0 => (enr'.due # Never => age' + enr'.due >= DueAt[enr'.step])
    PROVE  Alone' /\ Dated' /\ Unasked' /\ OneAsk'
  <1>1. pass'[p].pc = "idle" /\ \A q \in Passes \ {p} : pass'[q] = pass[q]
    BY PassStep DEF SoloInv
  <1>2. overlaps = 0 => \A q \in Passes : pass'[q].pc = "idle"
    BY <1>1 DEF SoloInv, Alone
  <1> QED  BY <1>1, <1>2 DEF SoloInv, Alone, Dated, Unasked, OneAsk

LEMMA SoloStep == SoloInv /\ [Next]_vars => SoloInv'
  <1> SUFFICES ASSUME SoloInv, [Next]_vars PROVE Alone' /\ Dated' /\ Unasked' /\ OneAsk'
    BY StepType DEF SoloInv
  <1> DEFINE Goal == Alone' /\ Dated' /\ Unasked' /\ OneAsk'
  <1>0. /\ age \in Nat /\ overlaps \in Nat /\ enr.step \in Steps /\ enr.due \in Nat \cup {-1}
        /\ \A p \in Passes : pass[p].step \in Steps /\ Kind[pass[p].step] \in Kinds
        /\ \A s \in Steps : DueAt[s] \in Nat /\ DueAt[s] <= Horizon
        /\ pending \in [Kinds -> Nat]
    <2>1. age \in Nat /\ overlaps \in Nat /\ pending \in [Kinds -> Nat]
      BY CadenceAssumption DEF SoloInv, TypeOK
    <2>2. enr.step \in Steps /\ enr.due \in Nat \cup {-1}
      BY DEF SoloInv, TypeOK, Enrollment, Never
    <2>3. \A p \in Passes : pass[p].step \in Steps /\ Kind[pass[p].step] \in Kinds
      BY CadenceAssumption DEF SoloInv, TypeOK, PassRec
    <2>4. \A s \in Steps : DueAt[s] \in Nat /\ DueAt[s] <= Horizon
      BY HorizonAssumption, CadenceAssumption
    <2> QED  BY <2>1, <2>2, <2>3, <2>4
  <1>1. ASSUME NEW p \in Passes, Pickup(p) PROVE Goal
    <2>1. /\ pass'[p].pc = "reply" /\ pass'[p].step = enr.step
          /\ \A q \in Passes \ {p} : pass'[q] = pass[q]
      BY <1>1 DEF Pickup, SoloInv, TypeOK
    <2>2. overlaps' = 0 => overlaps = 0 /\ \A q \in Passes : pass[q].pc = "idle"
      BY <1>0, <1>1 DEF Pickup, Busy
    <2>3. overlaps = 0 => age >= DueAt[enr.step]
      BY <1>0, <1>1 DEF Pickup, IsDue, Never, SoloInv, Dated
    <2> QED  BY <1>1, <2>1, <2>2, <2>3 DEF Pickup, SoloInv, Alone, Dated, Unasked, OneAsk
  <1>2. ASSUME NEW p \in Passes, CheckReply(p) PROVE Goal
    <2>1. CASE UNCHANGED enr
      <3>1. Goto(p, "note") \/ Goto(p, "condition")
        BY <1>2 DEF CheckReply
      <3> QED  BY <1>2, <2>1, <3>1, SoloGoto DEF CheckReply
    <2>2. CASE enr' = Ended("stopped") /\ Goto(p, "note")
      <3>1. enr'.due = Never /\ enr'.step = enr.step
        BY <2>2 DEF Ended, SoloInv, TypeOK, Enrollment
      <3>2. /\ pass'[p].pc = "note" /\ pass'[p].step = pass[p].step
            /\ \A q \in Passes \ {p} : pass'[q] = pass[q]
        BY <2>2, PassStep DEF SoloInv
      <3> QED  BY <1>2, <3>1, <3>2 DEF CheckReply, SoloInv, Alone, Dated, Unasked, OneAsk
    <2> QED  BY <1>2, <2>1, <2>2 DEF CheckReply
  <1>3. ASSUME NEW p \in Passes, Note(p) PROVE Goal
    BY <1>3, SoloLeave DEF Note, SoloInv, Dated
  <1>4. ASSUME NEW p \in Passes, CheckCondition(p) PROVE Goal
    <2>1. CASE MustWait(pass[p].step)
      <3>1. enr'.due = NextLook(pass[p].step) /\ enr'.step = enr.step /\ Leave(p)
        BY <1>4, <2>1 DEF CheckCondition, SoloInv, TypeOK, Enrollment
      <3>2. enr'.due \in Nat
        BY <1>0, <2>1, <3>1, NextLookNat DEF SoloInv
      <3>3. overlaps = 0 => age >= DueAt[enr.step]
        BY <1>4 DEF CheckCondition, SoloInv, Dated
      <3>4. overlaps = 0 => age' + enr'.due >= DueAt[enr'.step]
        BY <1>0, <1>4, <3>1, <3>2, <3>3 DEF CheckCondition
      <3> QED  BY <1>4, <3>1, <3>4, SoloLeave DEF CheckCondition
    <2>2. CASE ~MustWait(pass[p].step)
      <3>1. UNCHANGED enr /\ (Goto(p, "policy") \/ Goto(p, "record"))
        BY <1>4, <2>2 DEF CheckCondition
      <3> QED  BY <1>4, <3>1, SoloGoto DEF CheckCondition
    <2> QED  BY <2>1, <2>2
  <1>5. ASSUME NEW p \in Passes, Policy(p) PROVE Goal
    <2>1. Goto(p, "record") \/ Goto(p, "find")
      BY <1>5 DEF Policy
    <2> QED  BY <1>5, <2>1, SoloGoto DEF Policy
  <1>6. ASSUME NEW p \in Passes, FindCard(p) PROVE Goal
    <2>1. /\ pass'[p].step = pass[p].step
          /\ \A q \in Passes \ {p} : pass'[q] = pass[q]
      BY <1>6, PassStep DEF SoloInv
    <2>2. pass'[p].pc = "insert" => pending[Kind[pass[p].step]] = 0
      <3>1. PICK pc \in {"record", "insert"} :
              /\ pc = "record" <=> HasCard(Kind[pass[p].step])
              /\ pass' = [pass EXCEPT ![p] = [pass[p] EXCEPT !.pc = pc, !.ran = TRUE]]
        BY <1>6 DEF FindCard
      <3>2. pass'[p].pc = pc
        BY <3>1 DEF SoloInv, TypeOK, PassRec
      <3> QED  BY <1>0, <3>1, <3>2 DEF HasCard
    <2> QED  BY <1>6, <2>1, <2>2 DEF FindCard, SoloInv, Alone, Dated, Unasked, OneAsk
  <1>7. ASSUME NEW p \in Passes, InsertCard(p) PROVE Goal
    <2>1. /\ pass'[p].pc = "record" /\ pass'[p].step = pass[p].step
          /\ \A q \in Passes \ {p} : pass'[q] = pass[q]
      BY <1>7, PassStep DEF InsertCard, SoloInv
    <2>2. overlaps = 0 => \A q \in Passes \ {p} : pass'[q].pc = "idle"
      BY <1>7, <2>1 DEF InsertCard, SoloInv, Alone
    <2>3. overlaps = 0 => \A k \in Kinds : pending'[k] <= 1
      BY <1>0, <1>7 DEF InsertCard, SoloInv, Unasked, OneAsk
    <2> QED  BY <1>7, <2>1, <2>2, <2>3 DEF InsertCard, SoloInv, Alone, Dated, Unasked, OneAsk
  <1>8. ASSUME NEW p \in Passes, Record(p) PROVE Goal
    BY <1>8, SoloGoto DEF Record
  <1>9. ASSUME NEW p \in Passes, MoveOn(p) PROVE Goal
    <2> DEFINE n == Following(pass[p].step)
    <2>1. CASE n > Last
      <3>1. enr'.due = Never
        BY <1>9, <2>1 DEF MoveOn, Ended, SoloInv, TypeOK, Enrollment
      <3> QED  BY <1>9, <3>1, SoloLeave DEF MoveOn
    <2>2. CASE ~(n > Last)
      <3>0. pass[p].step \in 0..Last /\ Last \in Int
        BY CadenceAssumption DEF SoloInv, TypeOK, PassRec, Steps
      <3>1. n \in Steps
        BY <2>2, <3>0 DEF Following, Steps
      <3>2. enr'.due = DueIn(n) /\ enr'.step = n
        BY <1>9, <2>2 DEF MoveOn, SoloInv, TypeOK, Enrollment
      <3> QED  BY <1>9, <3>1, <3>2, DueInNat, SoloLeave DEF MoveOn, SoloInv
    <2> QED  BY <2>1, <2>2
  <1>10. ASSUME NEW p \in Passes, Crash(p) PROVE Goal
    BY <1>10, SoloLeave DEF Crash, Busy, SoloInv, Dated
  <1>11. CASE Tick
    <2>1. UNCHANGED <<pass, pending, overlaps>> /\ \A p \in Passes : pass[p].pc = "idle"
      BY <1>11 DEF Tick, Busy
    <2>2. enr'.due = Soon(enr.due) /\ enr'.step = enr.step
      BY <1>11 DEF Tick, SoloInv, TypeOK, Enrollment
    <2>3. age' = IF age < Horizon THEN age + 1 ELSE Horizon
      BY <1>11 DEF Tick
    <2>4. overlaps = 0 => (enr'.due # Never => age' + enr'.due >= DueAt[enr'.step])
      BY <1>0, <2>2, <2>3, CadenceAssumption DEF Soon, Never, SoloInv, Dated
    <2> QED  BY <2>1, <2>4 DEF SoloInv, Alone, Dated, Unasked, OneAsk
  <1>12. CASE TakeOff
    <2>1. enr'.due = Never /\ enr'.step = enr.step
      BY <1>12 DEF TakeOff, Ended, SoloInv, TypeOK, Enrollment
    <2> QED  BY <1>12, <2>1 DEF TakeOff, SoloInv, Alone, Dated, Unasked, OneAsk
  <1>13. CASE SetStatus \/ Reply \/ Accept \/ Click \/ UNCHANGED vars
    BY <1>13 DEF SetStatus, Reply, Accept, Click, vars, SoloInv, Alone, Dated, Unasked, OneAsk
  <1>14. ASSUME NEW k \in Kinds, Decide(k) PROVE Goal
    <2>1. pending' = [pending EXCEPT ![k] = @ - 1] /\ pending[k] > 0
      BY <1>14 DEF Decide
    <2>2. \A j \in Kinds : pending'[j] <= pending[j] /\ (pending[j] = 0 => pending'[j] = 0)
      BY <1>0, <2>1
    <2>3. \A j \in Kinds : pending[j] <= 1 => pending'[j] <= 1
      BY <1>0, <2>1
    <2>4. UNCHANGED <<age, enr, pass, overlaps>>
      BY <1>14 DEF Decide
    <2>5. Alone' /\ Dated'
      BY <2>4 DEF SoloInv, Alone, Dated
    <2>6. Unasked' /\ OneAsk'
      BY <1>0, <2>2, <2>3, <2>4 DEF SoloInv, Unasked, OneAsk
    <2> QED  BY <2>5, <2>6
  <1> QED  BY <1>1, <1>2, <1>3, <1>4, <1>5, <1>6, <1>7, <1>8, <1>9, <1>10, <1>11, <1>12,
              <1>13, <1>14 DEF Next, Advance

\* A single pass at a time never asks twice for the same thing ...
THEOREM AskedOnce == Spec => []OneAsk
  <1>1. SoloInv => OneAsk
    BY DEF SoloInv
  <1> QED  BY <1>1, SoloInit, SoloStep, PTL DEF Spec

\* ... and never before the date.
THEOREM NotEarly == Spec => []NeverEarly
  <1>1. SoloInv => NeverEarly
    BY DEF SoloInv, Dated, NeverEarly
  <1> QED  BY <1>1, SoloInit, SoloStep, PTL DEF Spec

-----------------------------------------------------------------------------
(***************************************************************************)
(* A reply.  What a pass knew when it began is still so, and it has acted  *)
(* on it at each gate it has passed.                                       *)
(***************************************************************************)

Gated(p) ==
    pass[p].heard =>
      /\ replied # "no"
      /\ pass[p].pc \notin {"idle", "reply", "note"} => ~StopOnReply[pass[p].step]
      /\ pass[p].pc \in {"find", "insert"} => Kind[pass[p].step] \notin Outbound

ReplyInv == TypeOK /\ \A p \in Passes : Gated(p)

LEMMA ReplyInit == Init => ReplyInv
  BY InitType DEF Init, ReplyInv, Gated, Idle

LEMMA ReplyStep == ReplyInv /\ [Next]_vars => ReplyInv'
  <1> SUFFICES ASSUME ReplyInv, [Next]_vars PROVE (\A q \in Passes : Gated(q))'
    BY StepType DEF ReplyInv
  <1> DEFINE Goal == (\A q \in Passes : Gated(q))'
  <1>0. replied \in {"no", "responded", "replied"}
    BY DEF ReplyInv, TypeOK
  <1>1. ASSUME NEW p \in Passes, Pickup(p) PROVE Goal
    <2>1. /\ pass'[p].pc = "reply" /\ pass'[p].heard = (replied # "no")
          /\ \A q \in Passes \ {p} : pass'[q] = pass[q]
      BY <1>1 DEF Pickup, ReplyInv, TypeOK
    <2> QED  BY <1>1, <2>1 DEF Pickup, ReplyInv, Gated, facts
  <1>2. ASSUME NEW p \in Passes, UNCHANGED replied, Leave(p) PROVE Goal
    <2>1. pass'[p].heard = FALSE /\ \A q \in Passes \ {p} : pass'[q] = pass[q]
      BY <1>2, PassStep DEF ReplyInv
    <2> QED  BY <1>2, <2>1 DEF ReplyInv, Gated
  <1>3. ASSUME NEW p \in Passes, UNCHANGED replied, NEW pc, Goto(p, pc),
               pass[p].heard => Gated(p)'
        PROVE  Goal
    <2>1. pass'[p].heard = pass[p].heard /\ \A q \in Passes \ {p} : pass'[q] = pass[q]
      BY <1>3, PassStep DEF ReplyInv
    <2> QED  BY <1>3, <2>1 DEF ReplyInv, Gated
  <1>4. ASSUME NEW p \in Passes, CheckReply(p) PROVE Goal
    <2>1. CASE StopOnReply[pass[p].step] /\ Replied
      <3>1. Goto(p, "note") /\ UNCHANGED replied
        BY <1>4, <2>1 DEF CheckReply, facts
      <3>2. pass[p].heard => Gated(p)'
        BY <3>1, PassStep DEF ReplyInv, Gated
      <3> QED  BY <1>3, <3>1, <3>2
    <2>2. CASE ~(StopOnReply[pass[p].step] /\ Replied)
      <3>1. Goto(p, "condition") /\ UNCHANGED replied
        BY <1>4, <2>2 DEF CheckReply, facts
      <3>2. pass[p].heard => Gated(p)'
        BY <1>0, <2>2, <3>1, PassStep DEF ReplyInv, Gated, Replied
      <3> QED  BY <1>3, <3>1, <3>2
    <2> QED  BY <2>1, <2>2
  <1>5. ASSUME NEW p \in Passes, CheckCondition(p) PROVE Goal
    <2>1. UNCHANGED replied /\ pass[p].pc = "condition"
          /\ (Leave(p) \/ Goto(p, "policy") \/ Goto(p, "record"))
      BY <1>5 DEF CheckCondition, facts
    <2>2. \A pc \in {"policy", "record"} : Goto(p, pc) => (pass[p].heard => Gated(p)')
      BY <2>1, PassStep DEF ReplyInv, Gated
    <2> QED  BY <1>2, <1>3, <2>1, <2>2
  <1>6. ASSUME NEW p \in Passes, Policy(p) PROVE Goal
    <2>1. UNCHANGED replied /\ pass[p].pc = "policy"
      BY <1>6 DEF Policy, facts
    <2>2. CASE Goto(p, "record")
      <3>1. pass[p].heard => Gated(p)'
        BY <2>1, <2>2, PassStep DEF ReplyInv, Gated
      <3> QED  BY <1>3, <2>1, <2>2, <3>1
    <2>3. CASE ~(Kind[pass[p].step] \in Outbound /\ Replied) /\ Goto(p, "find")
      <3>1. pass[p].heard => Gated(p)'
        BY <1>0, <2>1, <2>3, PassStep DEF ReplyInv, Gated, Replied
      <3> QED  BY <1>3, <2>1, <2>3, <3>1
    <2> QED  BY <1>6, <2>2, <2>3 DEF Policy
  <1>7. ASSUME NEW p \in Passes, FindCard(p) PROVE Goal
    <2>1. UNCHANGED replied /\ pass[p].pc = "find"
      BY <1>7 DEF FindCard, facts
    <2> QED  BY <1>7, <2>1, PassStep, ZenonT(40) DEF ReplyInv, Gated
  <1>8. ASSUME NEW p \in Passes, InsertCard(p) PROVE Goal
    <2>1. UNCHANGED replied /\ pass[p].pc = "insert" /\ Goto(p, "record")
      BY <1>8 DEF InsertCard, facts
    <2>2. pass[p].heard => Gated(p)'
      BY <2>1, PassStep DEF ReplyInv, Gated
    <2> QED  BY <1>3, <2>1, <2>2
  <1>9. ASSUME NEW p \in Passes, Record(p) PROVE Goal
    <2>1. UNCHANGED replied /\ pass[p].pc = "record" /\ Goto(p, "move")
      BY <1>9 DEF Record, facts
    <2>2. pass[p].heard => Gated(p)'
      BY <2>1, PassStep DEF ReplyInv, Gated
    <2> QED  BY <1>3, <2>1, <2>2
  <1>10. ASSUME NEW p \in Passes, Note(p) \/ MoveOn(p) \/ Crash(p) PROVE Goal
    BY <1>2, <1>10 DEF Note, MoveOn, Crash, facts
  <1>11. CASE Reply
    BY <1>11 DEF Reply, ReplyInv, Gated
  <1>12. CASE Tick \/ SetStatus \/ TakeOff \/ Accept \/ Click \/ UNCHANGED vars
    BY <1>12 DEF Tick, SetStatus, TakeOff, Accept, Click, vars, facts, ReplyInv, Gated
  <1>13. ASSUME NEW k \in Kinds, Decide(k) PROVE Goal
    BY <1>13 DEF Decide, facts, ReplyInv, Gated
  <1> QED  BY <1>1, <1>4, <1>5, <1>6, <1>7, <1>8, <1>9, <1>10, <1>11, <1>12, <1>13 DEF Next, Advance

\* Whoever noticed it, a reply before the pass keeps outbound cards back.
THEOREM QuietAfterReply == Spec => []NoCardAfterReply
  <1>1. ReplyInv => NoCardAfterReply
    BY DEF ReplyInv, Gated, NoCardAfterReply
  <1> QED  BY <1>1, ReplyInit, ReplyStep, PTL DEF Spec

=============================================================================
