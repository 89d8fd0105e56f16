---------------------------- MODULE CreditsProofs ----------------------------
(***************************************************************************)
(* Proofs about Credits, for any number of senders, people, plans, months  *)
(* and payments.                                                           *)
(***************************************************************************)
EXTENDS Credits, FiniteSetTheorems, TLAPS

-----------------------------------------------------------------------------
(* Types. *)

LEMMA InitType == Init => TypeOK
  <1> SUFFICES ASSUME Init PROVE TypeOK
    OBVIOUS
  <1>1. 0 \in Months /\ Idle.allowance \in Allowances
    BY CreditsAssumption DEF Months, Idle
  <1>2. Idle \in SenderRec
    BY <1>1 DEF Idle, SenderRec
  <1>3. log \in Seq(Contact)
    BY DEF Init
  <1> QED  BY <1>1, <1>2, <1>3, CreditsAssumption DEF Init, TypeOK

\* A sender stays a sender.
LEMMA GotoType ==
    ASSUME TypeOK, NEW s \in Senders
    PROVE  /\ Idle \in SenderRec /\ Cleared(s) \in SenderRec
           /\ Goto(s, "again") => sender' \in [Senders -> SenderRec]
           /\ sender' = [sender EXCEPT ![s] = Idle] => sender' \in [Senders -> SenderRec]
           /\ sender' = [sender EXCEPT ![s] = Cleared(s)] => sender' \in [Senders -> SenderRec]
  <1>1. Idle \in SenderRec
    <2>1. 0 \in Months /\ Idle.allowance \in Allowances
      BY CreditsAssumption DEF Months, Idle
    <2> QED  BY <2>1 DEF Idle, SenderRec
  <1>2. sender[s] \in SenderRec
    BY DEF TypeOK
  <1>3. Cleared(s) \in SenderRec
    BY <1>1, <1>2 DEF Cleared, SenderRec
  <1>4. [sender[s] EXCEPT !.pc = "again"] \in SenderRec
    BY <1>2 DEF SenderRec
  <1>5. sender \in [Senders -> SenderRec]
    BY DEF TypeOK
  <1>6. \A r \in SenderRec : [sender EXCEPT ![s] = r] \in [Senders -> SenderRec]
    BY <1>5
  <1>7. ASSUME Goto(s, "again") PROVE sender' \in [Senders -> SenderRec]
    <2>1. sender' = [sender EXCEPT ![s] = [sender[s] EXCEPT !.pc = "again"]]
      BY <1>7 DEF Goto
    <2> QED  BY <1>4, <1>6, <2>1
  <1> QED  BY <1>1, <1>3, <1>6, <1>7

\* What a sender without a look in progress holds.
LEMMA Rest ==
    ASSUME NEW s
    PROVE  /\ Idle.pc = "idle" /\ Idle.at = 0 /\ Idle.owed = {} /\ Idle.row = 0
           /\ Cleared(s).pc = "cleared" /\ Cleared(s).at = sender[s].at
           /\ Cleared(s).owed = {} /\ Cleared(s).row = 0
  <1>1. Idle.pc = "idle" /\ Idle.at = 0 /\ Idle.owed = {} /\ Idle.row = 0
    BY DEF Idle
  <1>2. DOMAIN Idle = {"pc", "at", "allowance", "over", "owed", "row"}
    BY DEF Idle
  <1> QED  BY <1>1, <1>2 DEF Cleared

LEMMA OwedType ==
    ASSUME TypeOK, NEW at, NEW allowance
    PROVE  Owed(at, allowance) \subseteq People
  <1>1. \A i \in Firsts(at) : i \in 1..Len(log)
    BY DEF TypeOK, Firsts, Since
  <1>2. \A i \in 1..Len(log) : log[i] \in Contact
    BY DEF TypeOK
  <1>3. \A i \in Firsts(at) : log[i].who \in People
    BY <1>1, <1>2 DEF Contact
  <1> QED  BY <1>3 DEF Owed

\* A sender that is about to record a contact has made it.
Rows == \A s \in Senders : sender[s].pc = "sent" => sender[s].row \in 1..Len(log)

LEMMA StepType == TypeOK /\ Rows /\ [Next]_vars => TypeOK'
  <1> SUFFICES ASSUME TypeOK, Rows, [Next]_vars PROVE TypeOK'
    OBVIOUS
  <1>1. ASSUME NEW s \in Senders, Look(s) PROVE TypeOK'
    <2>1. sender' \in [Senders -> SenderRec]
      BY <1>1, SMTT(30) DEF Look, TypeOK, SenderRec, Over
    <2> QED  BY <1>1, <2>1 DEF Look, TypeOK, ledger, history
  <1>2. ASSUME NEW s \in Senders, Select(s) PROVE TypeOK'
    <2>1. Owed(sender[s].at, sender[s].allowance) \subseteq People
      BY OwedType
    <2>2. sender' \in [Senders -> SenderRec]
      BY <1>2, <2>1, ZenonT(40) DEF Select, TypeOK, SenderRec
    <2> QED  BY <1>2, <2>2 DEF Select, TypeOK, ledger, history
  <1>3. ASSUME NEW s \in Senders, Charge(s) PROVE TypeOK'
    <2>1. PICK p \in sender[s].owed :
            LET c == <<p, sender[s].at>> IN
            /\ charges' = charges \cup {c}
            /\ astray' = IF sender[s].at < month /\ c \notin charges THEN astray \cup {c} ELSE astray
            /\ sender' = [sender EXCEPT ![s].owed = @ \ {p}]
            /\ UNCHANGED <<month, plan, log, recorded, packs, least, most, kept, upsets>>
      BY <1>3 DEF Charge
    <2>2. p \in People /\ sender[s].at \in Months /\ sender[s] \in SenderRec
      BY DEF TypeOK, SenderRec
    <2>3. charges' \subseteq People \X Months /\ astray' \subseteq charges'
      BY <2>1, <2>2 DEF TypeOK
    <2>4. sender' \in [Senders -> SenderRec]
      BY <2>1, <2>2 DEF TypeOK, SenderRec
    <2> QED  BY <2>1, <2>3, <2>4 DEF TypeOK
  <1>4. ASSUME NEW s \in Senders, Verdict(s) PROVE TypeOK'
    BY <1>4, GotoType DEF Verdict, TypeOK, ledger, history
  <1>5. ASSUME NEW s \in Senders, Send(s) PROVE TypeOK'
    <2>1. PICK p \in People : log' = Append(log, [who |-> p, month |-> month])
      BY <1>5 DEF Send
    <2>2. log' \in Seq(Contact) /\ Len(log') = Len(log) + 1 /\ Len(log) \in Nat
      BY <2>1 DEF TypeOK, Contact
    <2>3. sender' \in [Senders -> SenderRec]
      <3>1. [sender[s] EXCEPT !.pc = "sent", !.row = Len(log) + 1] \in SenderRec
        <4>1. sender[s] \in SenderRec /\ Len(log) + 1 \in Nat
          BY <2>2 DEF TypeOK
        <4> QED  BY <4>1 DEF SenderRec
      <3>2. sender' = [sender EXCEPT ![s] = [sender[s] EXCEPT !.pc = "sent", !.row = Len(log) + 1]]
        BY <1>5 DEF Send
      <3> QED  BY <3>1, <3>2 DEF TypeOK
    <2>4. recorded' \subseteq 1..Len(log')
      BY <1>5, <2>2 DEF Send, TypeOK
    <2> QED  BY <1>5, <2>2, <2>3, <2>4 DEF Send, TypeOK, ledger, history
  <1>6. ASSUME NEW s \in Senders, Leave(s) PROVE TypeOK'
    BY <1>6, GotoType DEF Leave, TypeOK, ledger, history
  <1>7. ASSUME NEW s \in Senders, Lose(s) PROVE TypeOK'
    <2>1. sender' \in [Senders -> SenderRec]
      BY <1>7, GotoType DEF Lose
    <2>2. upsets' \in 0..MaxUpsets
      BY <1>7, CreditsAssumption DEF Lose, Upset, TypeOK
    <2> QED  BY <1>7, <2>1, <2>2 DEF Lose, TypeOK, ledger, history
  <1>8. CASE ChangePlan
    <2>1. plan' \in Allowances
      BY <1>8 DEF ChangePlan
    <2>2. \A m \in Months : /\ Lower(least[m], plan') \in Allowances
                            /\ Higher(most[m], plan') \in Allowances
      BY <2>1 DEF TypeOK, Lower, Higher
    <2>3. least' \in [Months -> Allowances] /\ most' \in [Months -> Allowances]
      BY <1>8, <2>1, <2>2 DEF ChangePlan, TypeOK
    <2>4. upsets' \in 0..MaxUpsets
      BY <1>8, CreditsAssumption DEF ChangePlan, Upset, TypeOK
    <2> QED  BY <1>8, <2>1, <2>3, <2>4 DEF ChangePlan, TypeOK, ledger
  <1>9. CASE Grant
    BY <1>9, CreditsAssumption DEF Grant, TypeOK, history
  <1>10. CASE NewMonth
    BY <1>10, CreditsAssumption DEF NewMonth, TypeOK, Months, ledger, history
  <1>11. CASE UNCHANGED vars
    BY <1>11 DEF vars, TypeOK, ledger, history
  <1>12. ASSUME NEW s \in Senders, RecordSent(s) PROVE TypeOK'
    <2>1. sender' \in [Senders -> SenderRec]
      BY <1>12, GotoType DEF RecordSent
    <2>2. recorded' \subseteq 1..Len(log)
      BY <1>12 DEF RecordSent, Rows, TypeOK
    <2> QED  BY <1>12, <2>1, <2>2 DEF RecordSent, TypeOK, ledger, history
  <1>13. ASSUME NEW s \in Senders, FollowUp(s) PROVE TypeOK'
    <2>1. PICK i \in recorded : sender' = [sender EXCEPT ![s].pc = "sent", ![s].row = i]
      BY <1>13 DEF FollowUp
    <2>2. i \in Nat /\ sender[s] \in SenderRec
      BY DEF TypeOK
    <2>3. sender' \in [Senders -> SenderRec]
      BY <2>1, <2>2 DEF TypeOK, SenderRec
    <2> QED  BY <1>13, <2>3 DEF FollowUp, TypeOK, ledger, history
  <1>14. ASSUME NEW s \in Senders, GoOn(s) PROVE TypeOK'
    <2>1. sender' \in [Senders -> SenderRec]
      BY <1>14, GotoType DEF GoOn
    <2>2. upsets' \in 0..MaxUpsets
      BY <1>14, CreditsAssumption DEF GoOn, Upset, TypeOK
    <2>3. kept' \in [Months -> Nat]
      BY <1>14 DEF GoOn, TypeOK
    <2> QED  BY <1>14, <2>1, <2>2, <2>3 DEF GoOn, TypeOK, ledger
  <1> QED  BY <1>1, <1>2, <1>3, <1>4, <1>5, <1>6, <1>7, <1>8, <1>9, <1>10, <1>11, <1>12, <1>13, <1>14 DEF Next

LEMMA RowsStep == TypeOK /\ Rows /\ [Next]_vars => Rows'
  <1> SUFFICES ASSUME TypeOK, Rows, [Next]_vars PROVE Rows'
    OBVIOUS
  <1>1. \A s \in Senders : sender[s] \in SenderRec
    BY DEF TypeOK
  <1>2. ASSUME NEW s \in Senders, Look(s) \/ Select(s) \/ Charge(s) \/ Verdict(s)
                                  \/ RecordSent(s) \/ GoOn(s) \/ Leave(s) \/ Lose(s)
        PROVE  Rows'
    <2>1. log' = log /\ \A q \in Senders :
            sender'[q] = sender[q] \/ sender'[q].pc # "sent"
      <3>1. sender \in [Senders -> SenderRec]
        BY DEF TypeOK
      <3>2. CASE Look(s)
        BY <3>1, <3>2 DEF Look
      <3>3. CASE Select(s)
        BY <3>1, <3>3, <1>1 DEF Select, SenderRec
      <3>4. CASE Charge(s)
        BY <3>1, <3>4, <1>1 DEF Charge, SenderRec
      <3>5. CASE Verdict(s)
        BY <3>1, <3>5, <1>1 DEF Verdict, Cleared, Idle, SenderRec
      <3>6. CASE RecordSent(s)
        BY <3>1, <3>6, <1>1 DEF RecordSent, Goto, SenderRec
      <3>7. CASE GoOn(s) \/ Leave(s) \/ Lose(s)
        BY <3>1, <3>7, Rest DEF GoOn, Leave, Lose
      <3> QED  BY <1>2, <3>2, <3>3, <3>4, <3>5, <3>6, <3>7
    <2> QED  BY <2>1 DEF Rows
  <1>3. ASSUME NEW s \in Senders, Send(s) PROVE Rows'
    <2>1. Len(log') = Len(log) + 1 /\ Len(log) \in Nat
      BY <1>3 DEF Send, TypeOK, Contact
    <2>2. \A q \in Senders \ {s} : sender'[q] = sender[q]
      BY <1>3 DEF Send, TypeOK
    <2>3. sender'[s].row = Len(log')
      BY <1>3, <2>1, <1>1 DEF Send, TypeOK, SenderRec
    <2> QED  BY <2>1, <2>2, <2>3 DEF Rows
  <1>4. CASE ChangePlan \/ Grant \/ NewMonth \/ UNCHANGED vars
    BY <1>4 DEF ChangePlan, Grant, NewMonth, vars, Rows
  <1>5. ASSUME NEW s \in Senders, FollowUp(s) PROVE Rows'
    <2>1. PICK i \in recorded : sender' = [sender EXCEPT ![s].pc = "sent", ![s].row = i]
      BY <1>5 DEF FollowUp
    <2>2. /\ \A q \in Senders \ {s} : sender'[q] = sender[q]
          /\ sender'[s].row = i
      BY <2>1, <1>1 DEF TypeOK, SenderRec
    <2>3. i \in 1..Len(log) /\ log' = log
      BY <1>5 DEF FollowUp, TypeOK
    <2> QED  BY <2>2, <2>3 DEF Rows
  <1> QED  BY <1>2, <1>3, <1>4, <1>5 DEF Next

LEMMA Typed == Spec => [](TypeOK /\ Rows)
  <1>1. Init => Rows
    BY DEF Init, Rows, Idle
  <1> QED  BY <1>1, InitType, StepType, RowsStep, PTL DEF Spec

\* Months, charges and the waiting settlements of every sender are what they
\* are declared to be, through crashes and changes of plan.
THEOREM TypeCorrect == Spec => []TypeOK
  BY Typed, PTL

-----------------------------------------------------------------------------
(* Who pays. *)

\* The contacts of a month recorded ahead of the i-th.
Ahead(i, m) == {j \in recorded : j < i /\ log[j].month = m}

\* The allowance of month m left the person over.
LeftOver(p, m) ==
    \E i \in recorded : log[i] = [who |-> p, month |-> m] /\ Cardinality(Ahead(i, m)) >= least[m]

\* What a settlement is about to charge is owed, if its month is not over, and
\* no allowance it holds is below the smallest of its month.
AtLook(s) == sender[s].pc \in {"select", "settling"}
PayInv ==
    /\ TypeOK
    /\ \A i \in 1..Len(log) : log[i].month <= month
    /\ \A m \in Months : m >= month => least[m] <= plan
    /\ \A c \in charges : c[2] <= month
    /\ \A s \in Senders : /\ sender[s].at <= month
                          /\ AtLook(s) /\ sender[s].at = month =>
                               /\ sender[s].allowance >= least[month]
                               /\ \A p \in sender[s].owed : LeftOver(p, month)
    /\ \A c \in charges \ astray : LeftOver(c[1], c[2])

\* Whoever was left over stays so: rows are added, the allowance of a month
\* counts at its smallest.
LEMMA LeftOverStays ==
    ASSUME TypeOK, TypeOK', NEW p \in People, NEW m \in Months, LeftOver(p, m),
           recorded \subseteq recorded', least'[m] <= least[m],
           Len(log) <= Len(log'), \A i \in 1..Len(log) : log'[i] = log[i]
    PROVE  LeftOver(p, m)'
  <1>1. PICK i \in recorded : log[i] = [who |-> p, month |-> m] /\ Cardinality(Ahead(i, m)) >= least[m]
    BY DEF LeftOver
  <1>2. i \in recorded' /\ log'[i] = [who |-> p, month |-> m]
    BY <1>1 DEF TypeOK
  <1>3. Ahead(i, m) \subseteq Ahead(i, m)'
    BY DEF Ahead, TypeOK
  <1>4. IsFiniteSet(Ahead(i, m)')
    <2>1. Len(log') \in Int /\ 1 \in Int
      BY DEF TypeOK
    <2>2. IsFiniteSet(1..Len(log'))
      BY <2>1, FS_Interval, ZenonT(40)
    <2>3. Ahead(i, m)' \in SUBSET (1..Len(log'))
      BY DEF Ahead, TypeOK
    <2> QED  BY <2>2, <2>3, FS_Subset
  <1>5. /\ Cardinality(Ahead(i, m)) <= Cardinality(Ahead(i, m)')
        /\ Cardinality(Ahead(i, m)) \in Nat /\ Cardinality(Ahead(i, m)') \in Nat
    BY <1>3, <1>4, FS_Subset, FS_CardinalityType
  <1>6. least[m] \in Nat /\ least'[m] \in Nat
    BY CreditsAssumption DEF TypeOK
  <1>7. Cardinality(Ahead(i, m)') >= least'[m]
    BY <1>1, <1>5, <1>6
  <1> QED  BY <1>2, <1>7 DEF LeftOver, Ahead

\* What a settlement of the current month selects is left over.
LEMMA OwedIsLeftOver ==
    ASSUME PayInv, NEW allowance \in Nat, allowance >= least[month],
           NEW p \in Owed(month, allowance)
    PROVE  LeftOver(p, month)
  <1>1. PICK i \in Firsts(month) : p = log[i].who /\ Cardinality(Before(i, month)) >= allowance
    BY DEF Owed
  <1>2. /\ i \in recorded /\ recorded \subseteq 1..Len(log) /\ month \in Int
        /\ \A j \in 1..Len(log) : log[j] \in Contact /\ log[j].month \in Int
    <2>1. i \in recorded /\ recorded \subseteq 1..Len(log) /\ log \in Seq(Contact) /\ month \in Int
      BY DEF Firsts, Since, PayInv, TypeOK, Months
    <2>2. \A j \in 1..Len(log) : log[j] \in Contact
      BY <2>1
    <2>3. \A c \in Contact : c.month \in Int
      BY DEF Contact, Months
    <2> QED  BY <2>1, <2>2, <2>3
  <1>3. \A j \in Since(month) : j \in recorded /\ log[j].month = month
    BY <1>2 DEF Since, PayInv
  <1>4. log[i] = [who |-> p, month |-> month]
    BY <1>1, <1>2, <1>3 DEF Firsts, Contact
  <1>5. Before(i, month) \subseteq Ahead(i, month)
    BY <1>3 DEF Before, Firsts, Ahead
  <1>6. IsFiniteSet(Ahead(i, month))
    <2>1. Len(log) \in Int
      BY DEF PayInv, TypeOK
    <2>2. IsFiniteSet(1..Len(log))
      BY <2>1, FS_Interval
    <2>3. Ahead(i, month) \in SUBSET (1..Len(log))
      BY <1>2 DEF Ahead
    <2> QED  BY <2>2, <2>3, FS_Subset
  <1>7. /\ Cardinality(Before(i, month)) <= Cardinality(Ahead(i, month))
        /\ Cardinality(Before(i, month)) \in Nat /\ Cardinality(Ahead(i, month)) \in Nat
    BY <1>5, <1>6, FS_Subset, FS_CardinalityType
  <1>8. least[month] \in Nat
    BY CreditsAssumption DEF PayInv, TypeOK
  <1>9. Cardinality(Ahead(i, month)) >= least[month]
    BY <1>1, <1>7, <1>8
  <1> QED  BY <1>2, <1>4, <1>9 DEF LeftOver

LEMMA PayInit == Init => PayInv
  <1> SUFFICES ASSUME Init PROVE PayInv
    OBVIOUS
  <1>1. TypeOK
    BY InitType
  <1>2. Len(log) = 0 /\ plan \in Nat /\ \A m \in Months : least[m] = plan
    BY CreditsAssumption DEF Init
  <1>3. \A s \in Senders : sender[s].pc = "idle" /\ sender[s].at = 0 /\ sender[s].owed = {}
    BY DEF Init, Idle
  <1> QED  BY <1>1, <1>2, <1>3 DEF Init, PayInv, AtLook

LEMMA PayStep == PayInv /\ Rows /\ [Next]_vars => PayInv'
  <1> SUFFICES ASSUME PayInv, Rows, [Next]_vars PROVE PayInv'
    OBVIOUS
  <1>1. TypeOK /\ TypeOK'
    BY StepType DEF PayInv
  <1>2. /\ month \in Int /\ plan \in Nat
        /\ \A m \in Months : m \in Int /\ least[m] \in Nat
        /\ sender \in [Senders -> SenderRec]
    <2>1. Months \subseteq Int /\ Allowances \subseteq Nat
      BY CreditsAssumption DEF Months
    <2> QED  BY <1>1, <2>1 DEF TypeOK
  <1>3. \A s \in Senders : /\ sender[s].at \in Months /\ sender[s].allowance \in Nat
                           /\ sender[s].owed \subseteq People
    BY <1>1, CreditsAssumption DEF TypeOK, SenderRec
  \* What does not touch rows, allowances, months and charges leaves only the
  \* senders to look at.
  <1>4. ASSUME UNCHANGED <<month, plan, log, recorded, charges, least, astray>>,
               NEW s \in Senders, \A q \in Senders \ {s} : sender'[q] = sender[q],
               sender'[s].at <= month,
               AtLook(s)' /\ sender'[s].at = month =>
                 /\ sender'[s].allowance >= least[month]
                 /\ \A p \in sender'[s].owed : LeftOver(p, month)
        PROVE  PayInv'
    <2>1. \A p, m : LeftOver(p, m)' <=> LeftOver(p, m)
      BY <1>4 DEF LeftOver, Ahead
    <2> QED  BY <1>1, <1>4, <2>1 DEF PayInv, AtLook
  <1>5. ASSUME NEW s \in Senders, Look(s) PROVE PayInv'
    <2>1. /\ UNCHANGED <<month, plan, log, recorded, charges, least, astray>>
          /\ \A q \in Senders \ {s} : sender'[q] = sender[q]
          /\ sender'[s].at = (IF sender[s].pc = "idle" THEN month ELSE sender[s].at)
          /\ sender'[s].allowance = plan /\ sender'[s].owed = {}
      BY <1>2, <1>5 DEF Look, ledger, history
    <2>2. sender'[s].at <= month
      BY <1>2, <2>1 DEF PayInv
    <2>3. plan >= least[month]
      BY <1>1, <1>2 DEF PayInv, TypeOK
    <2> QED  BY <1>4, <2>1, <2>2, <2>3
  <1>6. ASSUME NEW s \in Senders, Select(s) PROVE PayInv'
    <2>1. /\ UNCHANGED <<month, plan, log, recorded, charges, least, astray>>
          /\ \A q \in Senders \ {s} : sender'[q] = sender[q]
          /\ sender[s].pc = "select" /\ sender'[s].at = sender[s].at
          /\ sender'[s].allowance = sender[s].allowance
          /\ sender'[s].owed = Owed(sender[s].at, sender[s].allowance)
      BY <1>2, <1>6 DEF Select, ledger, history, SenderRec
    <2>2. ASSUME sender[s].at = month PROVE /\ sender'[s].allowance >= least[month]
                                            /\ \A p \in sender'[s].owed : LeftOver(p, month)
      <3>1. sender[s].allowance >= least[month]
        BY <2>1, <2>2 DEF PayInv, AtLook
      <3> QED  BY <1>3, <2>1, <2>2, <3>1, OwedIsLeftOver
    <2>3. sender'[s].at <= month
      BY <2>1 DEF PayInv
    <2> QED  BY <1>4, <2>1, <2>2, <2>3
  <1>7. ASSUME NEW s \in Senders, Charge(s) PROVE PayInv'
    <2> DEFINE Key(p) == <<p, sender[s].at>>
    <2>1. PICK p \in sender[s].owed :
            /\ sender[s].pc = "settling"
            /\ charges' = charges \cup {Key(p)}
            /\ astray' = IF sender[s].at < month /\ Key(p) \notin charges
                         THEN astray \cup {Key(p)} ELSE astray
            /\ sender' = [sender EXCEPT ![s].owed = @ \ {p}]
            /\ UNCHANGED <<month, plan, log, recorded, packs, least, most, kept, upsets>>
      BY <1>7 DEF Charge
    <2>2. \A q \in Senders : /\ sender'[q].at = sender[q].at /\ sender'[q].pc = sender[q].pc
                             /\ sender'[q].allowance = sender[q].allowance
                             /\ sender'[q].owed \subseteq sender[q].owed
      BY <1>2, <2>1 DEF SenderRec
    <2>3. \A q, m : LeftOver(q, m)' <=> LeftOver(q, m)
      BY <2>1 DEF LeftOver, Ahead
    <2>4. sender[s].at <= month /\ Key(p)[1] = p /\ Key(p)[2] = sender[s].at
      BY DEF PayInv
    <2>5. Key(p) \in charges' \ astray' /\ Key(p) \notin charges => LeftOver(p, sender[s].at)
      <3>1. SUFFICES ASSUME Key(p) \in charges' \ astray', Key(p) \notin charges
                     PROVE  LeftOver(p, sender[s].at)
        OBVIOUS
      <3>2. sender[s].at = month
        BY <1>2, <1>3, <2>1, <2>4, <3>1
      <3> QED  BY <2>1, <3>2 DEF PayInv, AtLook
    <2>6. \A c \in charges' : c[2] <= month
      BY <2>1, <2>4 DEF PayInv
    <2>7. \A c \in charges' \ astray' : LeftOver(c[1], c[2])
      BY <2>1, <2>4, <2>5 DEF PayInv
    <2>8. \A q \in Senders : /\ sender'[q].at <= month
                             /\ AtLook(q)' /\ sender'[q].at = month =>
                                  /\ sender'[q].allowance >= least[month]
                                  /\ \A r \in sender'[q].owed : LeftOver(r, month)
      BY <2>2 DEF PayInv, AtLook
    <2>9. \A c \in charges' \ astray' : LeftOver(c[1], c[2])'
      BY <2>3, <2>7
    <2>10. \A q \in Senders : \A r \in sender'[q].owed :
             AtLook(q)' /\ sender'[q].at = month' => LeftOver(r, month)'
      <3>1. month' = month
        BY <2>1
      <3>2. \A r : LeftOver(r, month) => LeftOver(r, month)'
        BY <2>3, <3>1
      <3> QED  BY <2>8, <3>1, <3>2
    <2>11. UNCHANGED <<month, plan, log, least>>
      BY <2>1
    <2>12. /\ \A i \in 1..Len(log') : log'[i].month <= month'
           /\ \A m \in Months : m >= month' => least'[m] <= plan'
      BY <2>11 DEF PayInv
    <2> QED  BY <1>1, <2>6, <2>8, <2>9, <2>10, <2>11, <2>12 DEF PayInv
  <1>8. ASSUME NEW s \in Senders, Verdict(s) \/ GoOn(s) \/ Leave(s) \/ Lose(s) PROVE PayInv'
    <2>1. /\ UNCHANGED <<month, plan, log, recorded, charges, least, astray>>
          /\ \A q \in Senders \ {s} : sender'[q] = sender[q]
          /\ sender'[s] \in {Idle, Cleared(s)}
      BY <1>2, <1>8 DEF Verdict, GoOn, Leave, Lose, ledger, history
    <2>2. ~AtLook(s)' /\ sender'[s].at \in {0, sender[s].at}
      BY <2>1, Rest DEF AtLook
    <2>3. sender'[s].at <= month
      BY <1>1, <2>2 DEF PayInv, TypeOK, Months
    <2> QED  BY <1>4, <2>1, <2>2, <2>3
  <1>10. ASSUME NEW s \in Senders, Send(s) \/ FollowUp(s) \/ RecordSent(s) PROVE PayInv'
    <2>1. /\ UNCHANGED <<month, plan, charges, least, astray>> /\ recorded \subseteq recorded'
          /\ \A q \in Senders \ {s} : sender'[q] = sender[q]
          /\ ~AtLook(s)' /\ sender'[s].at = sender[s].at
          /\ sender'[s].owed = sender[s].owed /\ sender'[s].allowance = sender[s].allowance
      BY <1>2, <1>10 DEF Send, FollowUp, RecordSent, Goto, ledger, history, SenderRec, AtLook
    <2>2. /\ Len(log) <= Len(log')
          /\ \A i \in 1..Len(log) : log'[i] = log[i]
          /\ \A i \in 1..Len(log') : log'[i].month <= month
      <3>1. CASE Send(s)
        <4>1. PICK p \in People : log' = Append(log, [who |-> p, month |-> month])
          BY <3>1 DEF Send
        <4>2. /\ Len(log) \in Nat /\ Len(log') = Len(log) + 1
              /\ log'[Len(log) + 1] = [who |-> p, month |-> month]
              /\ \A i \in 1..Len(log) : log'[i] = log[i]
          BY <1>1, <4>1 DEF TypeOK
        <4> QED  BY <1>2, <4>2 DEF PayInv
      <3>2. CASE FollowUp(s) \/ RecordSent(s)
        <4>1. log' = log /\ Len(log) \in Nat
          BY <1>1, <3>2 DEF FollowUp, RecordSent, TypeOK
        <4> QED  BY <4>1 DEF PayInv
      <3> QED  BY <1>10, <3>1, <3>2
    <2>3. \A p \in People, m \in Months : LeftOver(p, m) => LeftOver(p, m)'
      <3> SUFFICES ASSUME NEW p \in People, NEW m \in Months, LeftOver(p, m) PROVE LeftOver(p, m)'
        OBVIOUS
      <3>1. least'[m] <= least[m]
        BY <1>2, <2>1
      <3> QED  BY <1>1, <2>1, <2>2, <3>1, LeftOverStays
    <2>4. \A c \in charges : c[1] \in People /\ c[2] \in Months
      BY <1>1 DEF TypeOK
    <2>5. \A c \in charges' \ astray' : LeftOver(c[1], c[2])'
      BY <2>1, <2>3, <2>4 DEF PayInv
    <2>6. \A q \in Senders : /\ sender'[q].at <= month
                             /\ AtLook(q)' /\ sender'[q].at = month =>
                                  /\ sender'[q].allowance >= least[month]
                                  /\ \A r \in sender'[q].owed : LeftOver(r, month)'
      <3>1. \A q \in Senders : /\ sender'[q].at = sender[q].at /\ sender'[q].owed = sender[q].owed
                               /\ sender'[q].allowance = sender[q].allowance
                               /\ AtLook(q)' => AtLook(q)
        BY <2>1 DEF AtLook
      <3>2. month \in Months
        BY <1>1 DEF TypeOK
      <3>3. \A q \in Senders : /\ sender'[q].at <= month
                               /\ AtLook(q)' /\ sender'[q].at = month =>
                                    /\ sender'[q].allowance >= least[month]
                                    /\ \A r \in sender'[q].owed : r \in People /\ LeftOver(r, month)
        BY <1>3, <3>1 DEF PayInv
      <3>4. \A r \in People : LeftOver(r, month) => LeftOver(r, month)'
        BY <2>1, <2>3, <3>2
      <3> QED  BY <3>3, <3>4
    <2>7. /\ \A m \in Months : m >= month' => least'[m] <= plan'
          /\ \A c \in charges' : c[2] <= month'
          /\ \A i \in 1..Len(log') : log'[i].month <= month'
      BY <2>1, <2>2 DEF PayInv
    <2>8. \A q \in Senders : \A r \in sender'[q].owed :
            AtLook(q)' /\ sender'[q].at = month' => LeftOver(r, month)'
      BY <2>1, <2>6
    <2> QED  BY <1>1, <2>1, <2>5, <2>6, <2>7, <2>8 DEF PayInv
  <1>11. CASE ChangePlan
    <2>1. /\ UNCHANGED <<month, log, recorded, charges, sender, astray>>
          /\ plan' \in Nat
          /\ \A m \in Months :
               least'[m] = IF m < month THEN least[m] ELSE
                           IF m = month THEN Lower(least[m], plan') ELSE plan'
      BY <1>11, CreditsAssumption DEF ChangePlan, ledger
    <2>2. \A m \in Months : m <= month => least'[m] <= least[m] /\ least'[m] \in Nat
      BY <1>2, <2>1 DEF Lower
    <2>3. \A m \in Months : m >= month' => least'[m] <= plan'
      BY <1>2, <2>1 DEF Lower
    <2>4. \A p \in People, m \in Months : m <= month /\ LeftOver(p, m) => LeftOver(p, m)'
      <3> SUFFICES ASSUME NEW p \in People, NEW m \in Months, m <= month, LeftOver(p, m)
                   PROVE  LeftOver(p, m)'
        OBVIOUS
      <3>1. least'[m] <= least[m] /\ log' = log /\ recorded' = recorded /\ Len(log) <= Len(log')
        BY <1>1, <2>1, <2>2 DEF TypeOK
      <3> QED  BY <1>1, <3>1, LeftOverStays
    <2>5. month \in Months /\ month <= month /\ \A c \in charges : c[1] \in People /\ c[2] \in Months
      BY <1>1, <1>2, SMTT(30) DEF TypeOK
    <2>6. \A c \in charges' \ astray' : LeftOver(c[1], c[2])'
      BY <2>1, <2>4, <2>5 DEF PayInv
    <2>7. \A q \in Senders : AtLook(q) /\ sender[q].at = month =>
            /\ sender[q].allowance >= least'[month]
            /\ \A r \in sender[q].owed : LeftOver(r, month)'
      <3>1. SUFFICES ASSUME NEW q \in Senders, AtLook(q), sender[q].at = month
                     PROVE  /\ sender[q].allowance >= least'[month]
                            /\ \A r \in sender[q].owed : LeftOver(r, month)'
        OBVIOUS
      <3>2. sender[q].allowance >= least[month] /\ \A r \in sender[q].owed : LeftOver(r, month)
        BY <3>1 DEF PayInv
      <3>3. sender[q].allowance >= least'[month]
        BY <1>2, <1>3, <2>2, <2>5, <3>2
      <3> QED  BY <1>3, <2>1, <2>4, <2>5, <3>2, <3>3
    <2>8. /\ \A i \in 1..Len(log') : log'[i].month <= month'
          /\ \A c \in charges' : c[2] <= month'
          /\ \A q \in Senders : sender'[q].at <= month'
      BY <2>1 DEF PayInv
    <2>9. \A q \in Senders : \A r \in sender'[q].owed :
            AtLook(q)' /\ sender'[q].at = month' => LeftOver(r, month)'
      BY <2>1, <2>7 DEF AtLook
    <2> QED  BY <1>1, <2>1, <2>3, <2>6, <2>7, <2>8, <2>9 DEF PayInv, AtLook
  <1>12. CASE Grant \/ UNCHANGED vars
    <2>1. UNCHANGED <<month, plan, log, recorded, charges, least, astray, sender>>
      BY <1>12 DEF Grant, vars, ledger, history
    <2>2. \A p, m : LeftOver(p, m)' <=> LeftOver(p, m)
      BY <2>1 DEF LeftOver, Ahead
    <2> QED  BY <1>1, <2>1, <2>2 DEF PayInv, AtLook
  <1>13. CASE NewMonth
    <2>1. UNCHANGED <<plan, log, recorded, charges, least, astray, sender>> /\ month' = month + 1
      BY <1>13 DEF NewMonth, ledger, history
    <2>2. \A p, m : LeftOver(p, m)' <=> LeftOver(p, m)
      BY <2>1 DEF LeftOver, Ahead
    <2>3. \A s \in Senders : sender'[s].at < month'
      BY <1>2, <1>3, <2>1 DEF PayInv, Months
    <2>4. \A i \in 1..Len(log') : log'[i].month <= month'
      <3>1. \A i \in 1..Len(log) : log[i] \in Contact
        BY <1>1 DEF TypeOK
      <3>2. \A i \in 1..Len(log) : log[i].month \in Int
        BY <3>1 DEF Contact, Months
      <3> QED  BY <1>2, <2>1, <3>2 DEF PayInv
    <2>5. \A c \in charges' : c[2] <= month'
      <3>1. \A c \in charges : c[2] \in Int
        BY <1>1, <1>2 DEF TypeOK
      <3> QED  BY <1>2, <2>1, <3>1 DEF PayInv
    <2>6. \A m \in Months : m >= month' => least'[m] <= plan'
      BY <1>2, <2>1 DEF PayInv
    <2>7. \A c \in charges' \ astray' : LeftOver(c[1], c[2])'
      BY <2>1, <2>2 DEF PayInv
    <2>8. \A s \in Senders : sender'[s].at <= month' /\ sender'[s].at # month'
      BY <1>1, <1>2, <1>3, <2>1, <2>3 DEF Months
    <2> QED  BY <1>1, <2>4, <2>5, <2>6, <2>7, <2>8 DEF PayInv
  <1> QED  BY <1>5, <1>6, <1>7, <1>8, <1>10, <1>11, <1>12, <1>13 DEF Next

\* A charge that no forgotten clock placed in a month gone by is for a person
\* the month's allowance did not cover, however often and at once it is settled.
THEOREM CoveredNotCharged == Spec => []CoveredIsFree
  <1>1. PayInv => CoveredIsFree
    <2>1. \A i, m : Ahead(i, m) = {j \in recorded : j < i /\ log[j].month = m}
      BY DEF Ahead
    <2> QED  BY <2>1 DEF PayInv, LeftOver, CoveredIsFree
  <1> QED  BY <1>1, Typed, PayInit, PayStep, PTL DEF Spec

-----------------------------------------------------------------------------
(* How far it goes. *)

\* People on record this month, and the senders whose contact has no row yet.
Rowed == {p \in People : \E i \in recorded : log[i] = [who |-> p, month |-> month]}
Sending == {s \in Senders : sender[s].pc = "sent"}

\* The allowance a settlement works with, and whom it has charged or will: no
\* fewer than the people its look or its selection counted.
Claimed(s) == charges \cup {<<p, sender[s].at>> : p \in sender[s].owed}
Count(s) == sender[s].allowance + Cardinality(Claimed(s))

\* A sender may get past the balance though x people are on record: it was
\* below its allowance, or counted fewer than x, or its allowance is that of
\* another month.
Stale(s) == sender[s].allowance > most[month]
Live(s, x) ==
    \/ sender[s].pc = "cleared"
    \/ sender[s].pc = "settling" /\ (~sender[s].over \/ Stale(s) \/ Count(s) < x)
    \/ sender[s].pc = "select" /\ Stale(s)
Lives(x) == {s \in Senders : Live(s, x)}

Limit(m) == most[m] + packs * Pack

\* Contacts and those who may still make one fit, whatever number past the
\* limit one counts from; a month gone by keeps what it had.
Now == \A x \in Nat : x >= Limit(month) =>
         Cardinality(Standing(month)) + Cardinality(Lives(x)) <= x - 1 + Cardinality(Senders) + kept[month]
Past == \A m \in Months : m < month =>
          Cardinality(Standing(m)) <= Limit(m) + Cardinality(Senders) - 1 + kept[m]

Book ==
    /\ IsFiniteSet(charges)
    /\ \A s \in Senders : /\ IsFiniteSet(sender[s].owed)
                          /\ sender[s].pc = "select" => sender[s].over
                          /\ sender[s].pc # "sent" => sender[s].row \in recorded \cup {0}
    /\ \A m \in Months : m >= month => most[m] >= plan

Known == PayInv /\ Rows /\ Book

\* A set of row numbers has a first.
LEMMA Earliest ==
    ASSUME NEW n \in Nat, NEW T, T \subseteq 1..n, T # {}
    PROVE  \E j \in T : \A h \in T : j <= h
  <1> DEFINE R == OpToRel(<, Nat)
  <1>1. T \subseteq Nat
    OBVIOUS
  <1>2. \A h, j \in Nat : <<h, j>> \notin R => j <= h
    BY DEF OpToRel
  <1>3. IsWellFoundedOn(R, Nat)
    BY NatLessThanWellFounded
  <1> HIDE DEF R
  <1>4. PICK j \in T : \A h \in T : ~(<<h, j>> \in R)
    BY <1>1, <1>3, WFMin
  <1> QED  BY <1>1, <1>2, <1>4

\* Whoever the log names.
Whose == {log[i].who : i \in 1..Len(log)}

LEMMA Sizes ==
    ASSUME Known
    PROVE  /\ IsFiniteSet(Senders) /\ Cardinality(Senders) \in Nat
           /\ IsFiniteSet(1..Len(log)) /\ Len(log) \in Nat
           /\ IsFiniteSet(Rowed) /\ Cardinality(Rowed) \in Nat
           /\ \A m : IsFiniteSet(Standing(m)) /\ Cardinality(Standing(m)) \in Nat
           /\ \A L \in SUBSET Senders : IsFiniteSet(L) /\ Cardinality(L) \in Nat
           /\ \A at : IsFiniteSet(Since(at)) /\ IsFiniteSet(Firsts(at)) /\ Used(at) \in Nat
           /\ \A s \in Senders : IsFiniteSet(Claimed(s)) /\ Cardinality(Claimed(s)) \in Nat
  <1>1. IsFiniteSet(Senders) /\ Cardinality(Senders) \in Nat
    BY CreditsAssumption, FS_CardinalityType
  <1>2. Len(log) \in Nat /\ recorded \in SUBSET (1..Len(log))
    BY DEF Known, PayInv, TypeOK
  <1>3. IsFiniteSet(1..Len(log))
    BY <1>2, FS_Interval
  <1>4. \A T \in SUBSET (1..Len(log)) : IsFiniteSet(T) /\ Cardinality(T) \in Nat
    BY <1>3, FS_Subset, FS_CardinalityType
  <1>5. \A T \in SUBSET Whose : IsFiniteSet(T) /\ Cardinality(T) \in Nat
    <2>1. [i \in 1..Len(log) |-> log[i].who] \in Surjection(1..Len(log), Whose)
      BY DEF Surjection, Whose
    <2>2. IsFiniteSet(Whose)
      BY <1>3, <2>1, FS_Surjection
    <2> QED  BY <2>2, FS_Subset, FS_CardinalityType
  <1>6. /\ Rowed \in SUBSET Whose /\ \A m : Standing(m) \in SUBSET Whose
        /\ \A L \in SUBSET Whose : IsFiniteSet(L)
    BY <1>2, <1>5 DEF Rowed, Standing, Whose
  <1>7. \A at : Since(at) \in SUBSET (1..Len(log)) /\ Firsts(at) \in SUBSET (1..Len(log))
    BY <1>2 DEF Since, Firsts
  <1>8. \A L \in SUBSET Senders : IsFiniteSet(L) /\ Cardinality(L) \in Nat
    BY <1>1, FS_Subset, FS_CardinalityType
  <1>9. ASSUME NEW s \in Senders PROVE IsFiniteSet(Claimed(s)) /\ Cardinality(Claimed(s)) \in Nat
    <2> DEFINE f == [p \in sender[s].owed |-> <<p, sender[s].at>>]
               T == {<<p, sender[s].at>> : p \in sender[s].owed}
    <2>1. f \in Surjection(sender[s].owed, T)
      BY DEF Surjection
    <2>2. IsFiniteSet(T)
      BY <2>1, FS_Surjection DEF Known, Book
    <2>3. IsFiniteSet(charges \cup T)
      BY <2>2, FS_Union DEF Known, Book
    <2> QED  BY <2>3, FS_CardinalityType DEF Claimed
  <1> QED  BY <1>1, <1>2, <1>3, <1>4, <1>5, <1>6, <1>7, <1>8, <1>9 DEF Used

\* Fewer than x on record leave room for everybody who is at work.
LEMMA RoomLeft ==
    ASSUME Known, NEW x \in Nat, Cardinality(Rowed) < x,
           NEW L \in SUBSET Senders, L \cap Sending = {}
    PROVE  Cardinality(Standing(month)) + Cardinality(L) <= x - 1 + Cardinality(Senders)
  <1> DEFINE made == {log[sender[s].row].who : s \in Sending}
             f == [s \in Sending |-> log[sender[s].row].who]
  <1>1. Sending \in SUBSET Senders
    BY DEF Sending
  <1>2. f \in Surjection(Sending, made)
    BY DEF Surjection
  <1>3. /\ IsFiniteSet(made) /\ Cardinality(made) <= Cardinality(Sending) /\ Cardinality(made) \in Nat
        /\ IsFiniteSet(Sending) /\ Cardinality(Sending) \in Nat
    BY <1>1, <1>2, FS_Surjection, FS_CardinalityType, Sizes
  <1>4. Standing(month) \subseteq Rowed \cup made
    <2> SUFFICES ASSUME NEW p \in Standing(month), p \notin Rowed PROVE p \in made
      OBVIOUS
    <2>1. PICK i \in 1..Len(log) : /\ p \in People /\ log[i] = [who |-> p, month |-> month]
                                   /\ i \in recorded \/ \E s \in Senders : sender[s].row = i
      BY DEF Standing
    <2>2. i \notin recorded
      BY <2>1 DEF Rowed
    <2>3. PICK s \in Senders : sender[s].row = i
      BY <2>1, <2>2
    <2>4. i # 0
      BY Sizes
    <2>5. sender[s].pc = "sent"
      BY <2>2, <2>3, <2>4 DEF Known, Book
    <2>6. log[sender[s].row].who = p
      BY <2>1, <2>3
    <2> QED  BY <2>5, <2>6 DEF Sending
  <1>5. Cardinality(Standing(month)) <= Cardinality(Rowed) + Cardinality(made)
    <2>1. /\ IsFiniteSet(Rowed \cup made)
          /\ Cardinality(Rowed \cup made) = Cardinality(Rowed) + Cardinality(made) - Cardinality(Rowed \cap made)
      BY <1>3, FS_Union, Sizes
    <2>2. Cardinality(Rowed \cap made) \in Nat
      BY <1>3, FS_Intersection, FS_CardinalityType
    <2>3. Cardinality(Standing(month)) <= Cardinality(Rowed \cup made)
      BY <1>4, <2>1, FS_Subset
    <2> QED  BY <1>3, <2>1, <2>2, <2>3, Sizes
  <1>6. Cardinality(Sending) + Cardinality(L) <= Cardinality(Senders)
    <2>1. IsFiniteSet(L) /\ Cardinality(L) \in Nat
      BY Sizes
    <2>2. Cardinality(Sending \cup L) = Cardinality(Sending) + Cardinality(L) - Cardinality(Sending \cap L)
      BY <1>3, <2>1, FS_Union
    <2>3. Sending \cap L = {}
      OBVIOUS
    <2>4. Cardinality(Sending \cap L) = 0
      BY <2>3, FS_EmptySet
    <2>5. Cardinality(Sending \cup L) <= Cardinality(Senders)
      <3>1. Sending \cup L \in SUBSET Senders
        BY <1>1
      <3> QED  BY <3>1, FS_Subset, CreditsAssumption
    <2> QED  BY <1>3, <2>1, <2>2, <2>4, <2>5
  <1>7. /\ Cardinality(Standing(month)) \in Nat /\ Cardinality(L) \in Nat
        /\ Cardinality(Senders) \in Nat /\ Cardinality(Rowed) \in Nat
    BY Sizes
  <1> QED  BY <1>3, <1>5, <1>6, <1>7

\* Everybody on record this month is counted by a look that began in time.
LEMMA AllCounted ==
    ASSUME Known, NEW at \in Months, at <= month
    PROVE  Cardinality(Rowed) <= Used(at)
  <1>1. /\ recorded \subseteq 1..Len(log) /\ log \in Seq(Contact) /\ Len(log) \in Nat
        /\ at \in Int /\ month \in Int
    BY DEF Known, PayInv, TypeOK, Months
  <1>2. ASSUME NEW p \in Rowed PROVE \E j \in Firsts(at) : log[j].who = p
    <2> DEFINE T == {j \in Since(at) : log[j].who = p}
    <2>1. PICK i \in recorded : log[i] = [who |-> p, month |-> month]
      BY DEF Rowed
    <2>2. T \subseteq 1..Len(log)
      BY <1>1 DEF Since
    <2>3. i \in T
      BY <1>1, <2>1 DEF Since
    <2>4. PICK j \in T : \A h \in T : j <= h
      <3> HIDE DEF T
      <3> QED  BY <1>1, <2>2, <2>3, Earliest
    <2>5. j \in Firsts(at)
      BY <2>4 DEF Firsts
    <2> QED  BY <2>5
  <1> DEFINE f == [p \in Rowed |-> CHOOSE j \in Firsts(at) : log[j].who = p]
  <1>4. \A p \in Rowed : f[p] \in Firsts(at) /\ log[f[p]].who = p
    BY <1>2
  <1>6. f \in Injection(Rowed, Firsts(at))
    <2>1. f \in [Rowed -> Firsts(at)]
      BY <1>4
    <2>2. \A p, q \in Rowed : f[p] = f[q] => p = q
      <3> HIDE DEF f
      <3> QED  BY <1>4
    <2> HIDE DEF f
    <2> QED  BY <2>1, <2>2 DEF Injection, IsInjective
  <1>7. IsFiniteSet(Firsts(at))
    BY Sizes
  <1> QED  BY <1>6, <1>7, FS_Injection DEF Used
\* An allowance covers no more people than it says.
LEMMA Few ==
    ASSUME Known, NEW at \in Months, NEW a \in Nat
    PROVE  Cardinality({i \in Firsts(at) : Cardinality(Before(i, at)) < a}) <= a
  <1> DEFINE C == {i \in Firsts(at) : Cardinality(Before(i, at)) < a}
             f == [i \in C |-> Cardinality(Before(i, at))]
  <1>1. IsFiniteSet(Firsts(at)) /\ \A i \in Firsts(at) : i \in Nat
    <2>1. \A i \in Firsts(at) : i \in 1..Len(log)
      BY DEF Firsts, Since, Known, PayInv, TypeOK
    <2> QED  BY <2>1, Sizes
  <1>2. \A i : IsFiniteSet(Before(i, at)) /\ Cardinality(Before(i, at)) \in Nat
    <2>1. \A i : Before(i, at) \in SUBSET Firsts(at)
      BY DEF Before
    <2> QED  BY <1>1, <2>1, FS_Subset, FS_CardinalityType
  <1>3. ASSUME NEW i \in Firsts(at), NEW j \in Firsts(at), i < j
        PROVE  Cardinality(Before(i, at)) < Cardinality(Before(j, at))
    <2>1. i \notin Before(i, at)
      BY <1>1 DEF Before
    <2>2. Before(i, at) \cup {i} \in SUBSET Before(j, at)
      BY <1>1, <1>3 DEF Before
    <2>3. Cardinality(Before(i, at) \cup {i}) = Cardinality(Before(i, at)) + 1
      BY <1>2, <2>1, FS_AddElement
    <2>4. Cardinality(Before(i, at) \cup {i}) <= Cardinality(Before(j, at))
      BY <1>2, <2>2, FS_Subset
    <2> QED  BY <1>2, <2>3, <2>4
  <1>4. f \in [C -> 0..(a - 1)]
    BY <1>2
  <1>5. \A i, j \in C : f[i] = f[j] => i = j
    BY <1>1, <1>2, <1>3
  <1>6. IsFiniteSet(0..(a - 1)) /\ Cardinality(0..(a - 1)) = a
    BY FS_Interval
  <1>7. f \in Injection(C, 0..(a - 1))
    <2> HIDE DEF f
    <2> QED  BY <1>4, <1>5 DEF Injection, IsInjective
  <1> HIDE DEF f
  <1> QED  BY <1>6, <1>7, FS_Injection

\* A selection finds a charge, old or to come, for everybody it counted beyond
\* the allowance.
LEMMA Selected ==
    ASSUME Known, NEW at \in Months, NEW a \in Nat
    PROVE  LET T == charges \cup {<<p, at>> : p \in Owed(at, a)} IN
           /\ IsFiniteSet(Owed(at, a))
           /\ IsFiniteSet(T) /\ Cardinality(T) \in Nat
           /\ Used(at) <= a + Cardinality(T)
  <1> DEFINE C == {i \in Firsts(at) : Cardinality(Before(i, at)) < a}
             B == {i \in Firsts(at) : Cardinality(Before(i, at)) >= a}
             W == {log[i].who : i \in B}
             K == {<<p, at>> : p \in Owed(at, a)}
             T == charges \cup K
             h == [i \in B |-> log[i].who]
             k == [p \in Owed(at, a) |-> <<p, at>>]
             g == [i \in B |-> <<log[i].who, at>>]
  <1>1. /\ IsFiniteSet(Firsts(at)) /\ Used(at) \in Nat
        /\ \A i \in Firsts(at) : i \in Nat /\ i \in Since(at)
    <2>1. \A i \in Firsts(at) : i \in 1..Len(log) /\ i \in Since(at)
      BY DEF Firsts, Since, Known, PayInv, TypeOK
    <2> QED  BY <2>1, Sizes
  <1>2. \A i : IsFiniteSet(Before(i, at)) /\ Cardinality(Before(i, at)) \in Nat
    <2>1. \A i : Before(i, at) \in SUBSET Firsts(at)
      BY DEF Before
    <2> QED  BY <1>1, <2>1, FS_Subset, FS_CardinalityType
  <1>3. /\ IsFiniteSet(B) /\ Cardinality(B) \in Nat
        /\ IsFiniteSet(C) /\ Cardinality(C) \in Nat
    <2>1. B \in SUBSET Firsts(at) /\ C \in SUBSET Firsts(at)
      OBVIOUS
    <2> QED  BY <1>1, <2>1, FS_Subset, FS_CardinalityType
  <1>4. IsFiniteSet(Owed(at, a))
    <2>1. h \in Surjection(B, W)
      BY DEF Surjection
    <2>2. IsFiniteSet(W)
      BY <1>3, <2>1, FS_Surjection
    <2>3. Owed(at, a) \in SUBSET W
      BY DEF Owed
    <2> QED  BY <2>2, <2>3, FS_Subset
  <1>5. IsFiniteSet(T) /\ Cardinality(T) \in Nat
    <2>1. k \in Surjection(Owed(at, a), K)
      BY DEF Surjection
    <2>2. IsFiniteSet(K)
      BY <1>4, <2>1, FS_Surjection
    <2>3. IsFiniteSet(charges)
      BY DEF Known, Book
    <2> QED  BY <2>2, <2>3, FS_Union, FS_CardinalityType
  <1>6. g \in [B -> T]
    <2> SUFFICES ASSUME NEW i \in B PROVE <<log[i].who, at>> \in T
      OBVIOUS
    <2>1. <<log[i].who, at>> \notin charges => log[i].who \in Owed(at, a)
      BY DEF Owed
    <2> QED  BY <2>1
  <1>7. \A i, j \in B : g[i] = g[j] => i = j
    <2>1. \A i, j \in B : log[i].who = log[j].who => i <= j /\ j <= i
      BY <1>1 DEF Firsts
    <2>2. \A i, j \in B : g[i] = g[j] => log[i].who = log[j].who
      OBVIOUS
    <2> QED  BY <1>1, <2>1, <2>2
  <1>8. Cardinality(B) <= Cardinality(T)
    <2>1. g \in Injection(B, T)
      <3> HIDE DEF g
      <3> QED  BY <1>6, <1>7 DEF Injection, IsInjective
    <2> HIDE DEF g, B, T
    <2> QED  BY <1>5, <2>1, FS_Injection
  <1>9. Used(at) <= Cardinality(C) + Cardinality(B)
    <2>1. Firsts(at) = C \cup B
      BY <1>2
    <2>2. Cardinality(C \cup B) = Cardinality(C) + Cardinality(B) - Cardinality(C \cap B)
      BY <1>3, FS_Union
    <2>3. C \cap B = {}
      BY <1>2
    <2>4. Cardinality(C \cap B) = 0
      BY <2>3, FS_EmptySet
    <2> HIDE DEF B, C
    <2> QED  BY <1>3, <2>1, <2>2, <2>4 DEF Used
  <1>10. Cardinality(C) <= a
    BY Few
  <1> HIDE DEF B, C, T
  <1>11. Used(at) <= a + Cardinality(T)
    BY <1>1, <1>3, <1>5, <1>8, <1>9, <1>10
  <1> QED  BY <1>4, <1>5, <1>11 DEF T
LEMMA BookInit == Init => Book
  <1> SUFFICES ASSUME Init PROVE Book
    OBVIOUS
  <1>1. IsFiniteSet({}) /\ plan \in Nat /\ Len(log) = 0
    BY FS_EmptySet, CreditsAssumption DEF Init
  <1>2. \A s \in Senders : sender[s].pc = "idle" /\ sender[s].owed = {} /\ sender[s].row = 0
    BY DEF Init, Idle
  <1>4. charges = {} /\ \A m \in Months : most[m] = plan
    BY DEF Init
  <1>5. IsFiniteSet(charges) /\ \A s \in Senders : IsFiniteSet(sender[s].owed)
    BY <1>1, <1>2, <1>4
  <1>6. \A m \in Months : m >= month => most[m] >= plan
    BY <1>1, <1>4
  <1> QED  BY <1>2, <1>5, <1>6 DEF Book

LEMMA BookStep == Known /\ [Next]_vars => Book'
  <1> SUFFICES ASSUME Known, [Next]_vars PROVE Book'
    OBVIOUS
  <1>1. /\ TypeOK /\ TypeOK' /\ plan \in Nat /\ plan' \in Nat /\ month \in Int
        /\ sender \in [Senders -> SenderRec] /\ \A m \in Months : m \in Int
    <2>1. TypeOK /\ TypeOK'
      BY StepType DEF Known, PayInv
    <2>2. sender \in [Senders -> SenderRec] /\ plan \in Allowances /\ plan' \in Allowances /\ month \in Months
      BY <2>1 DEF TypeOK
    <2>3. Allowances \subseteq Nat
      BY CreditsAssumption
    <2>4. \A m \in Months : m \in Int
      BY DEF Months
    <2> QED  BY <2>1, <2>2, <2>3, <2>4
  <1>2. ASSUME UNCHANGED <<month, plan, log, charges, most>>, recorded \subseteq recorded',
               NEW s \in Senders, \A q \in Senders \ {s} : sender'[q] = sender[q],
               IsFiniteSet(sender'[s].owed),
               sender'[s].pc = "select" => sender'[s].over,
               sender'[s].pc # "sent" => sender'[s].row \in recorded' \cup {0}
        PROVE  Book'
    <2>1. \A q \in Senders : /\ IsFiniteSet(sender'[q].owed)
                             /\ sender'[q].pc = "select" => sender'[q].over
                             /\ sender'[q].pc # "sent" => sender'[q].row \in recorded' \cup {0}
      <3>1. \A q \in Senders \ {s} : /\ IsFiniteSet(sender'[q].owed)
                                     /\ sender'[q].pc = "select" => sender'[q].over
                                     /\ sender'[q].pc # "sent" => sender'[q].row \in recorded' \cup {0}
        BY <1>2 DEF Known, Book
      <3> QED  BY <1>2, <3>1
    <2> QED  BY <1>2, <2>1 DEF Known, Book
  <1>3. IsFiniteSet({})
    BY FS_EmptySet
  <1>4. ASSUME NEW s \in Senders, Look(s) PROVE Book'
    <2>1. PICK at : sender' = [sender EXCEPT ![s] =
               [pc |-> IF Used(at) > plan THEN "select" ELSE "settling",
                at |-> at, allowance |-> plan, over |-> Over(at), owed |-> {}, row |-> @.row]]
      BY <1>4 DEF Look
    <2>2. Used(at) > plan => Over(at)
      BY <1>1, Sizes DEF Over
    <2>3. /\ \A q \in Senders \ {s} : sender'[q] = sender[q]
          /\ sender'[s].owed = {} /\ sender'[s].row = sender[s].row
          /\ sender'[s].pc \in {"select", "settling"}
          /\ sender'[s].pc = "select" => sender'[s].over
      BY <1>1, <2>1, <2>2
    <2>4. UNCHANGED <<month, plan, log, charges, most, recorded>> /\ sender[s].pc # "sent"
      BY <1>4 DEF Look, ledger, history
    <2>5. sender'[s].row \in recorded' \cup {0}
      BY <2>3, <2>4 DEF Known, Book
    <2> QED  BY <1>2, <1>3, <2>3, <2>4, <2>5
  <1>5. ASSUME NEW s \in Senders, Select(s) PROVE Book'
    <2>1. /\ \A q \in Senders \ {s} : sender'[q] = sender[q]
          /\ sender[s].pc = "select" /\ sender'[s].pc = "settling"
          /\ sender'[s].owed = Owed(sender[s].at, sender[s].allowance)
          /\ sender'[s].row = sender[s].row
      BY <1>1, <1>5 DEF Select, SenderRec
    <2>2. UNCHANGED <<month, plan, log, charges, most, recorded>>
      BY <1>5 DEF Select, ledger, history
    <2>3. sender[s].at \in Months /\ sender[s].allowance \in Nat
      BY <1>1, CreditsAssumption DEF SenderRec
    <2>4. IsFiniteSet(sender'[s].owed)
      BY <2>1, <2>3, Selected
    <2>5. sender'[s].row \in recorded' \cup {0}
      BY <2>1, <2>2 DEF Known, Book
    <2> QED  BY <1>2, <2>1, <2>2, <2>4, <2>5
  <1>6. ASSUME NEW s \in Senders, Charge(s) PROVE Book'
    <2>1. PICK p \in sender[s].owed :
            /\ charges' = charges \cup {<<p, sender[s].at>>}
            /\ sender' = [sender EXCEPT ![s].owed = @ \ {p}]
            /\ UNCHANGED <<month, plan, log, recorded, most>>
      BY <1>6 DEF Charge
    <2>2. IsFiniteSet(charges')
      BY <2>1, FS_AddElement DEF Known, Book
    <2>3. IsFiniteSet(sender[s].owed \ {p})
      BY FS_RemoveElement DEF Known, Book
    <2>4. \A q \in Senders : /\ sender'[q].pc = sender[q].pc /\ sender'[q].over = sender[q].over
                             /\ sender'[q].row = sender[q].row
                             /\ \/ sender'[q].owed = sender[q].owed
                                \/ sender'[q].owed = sender[s].owed \ {p}
      BY <1>1, <2>1 DEF SenderRec
    <2>5. \A q \in Senders : IsFiniteSet(sender'[q].owed)
      BY <2>3, <2>4 DEF Known, Book
    <2>6. \A q \in Senders : /\ sender'[q].pc = "select" => sender'[q].over
                             /\ sender'[q].pc # "sent" => sender'[q].row \in recorded' \cup {0}
      BY <2>1, <2>4 DEF Known, Book
    <2>7. \A m \in Months : m >= month' => most'[m] >= plan'
      BY <2>1 DEF Known, Book
    <2> QED  BY <2>2, <2>5, <2>6, <2>7 DEF Book
  <1>7. ASSUME NEW s \in Senders, Verdict(s) \/ GoOn(s) \/ Leave(s) \/ Lose(s) PROVE Book'
    <2>1. /\ \A q \in Senders \ {s} : sender'[q] = sender[q]
          /\ sender'[s] \in {Idle, Cleared(s)}
      BY <1>1, <1>7 DEF Verdict, GoOn, Leave, Lose
    <2>2. UNCHANGED <<month, plan, log, charges, most, recorded>>
      BY <1>7 DEF Verdict, GoOn, Leave, Lose, ledger, history
    <2>3. /\ sender'[s].owed = {} /\ sender'[s].row = 0
          /\ sender'[s].pc \in {"idle", "cleared"}
      BY <2>1, Rest
    <2> QED  BY <1>2, <1>3, <2>1, <2>2, <2>3
  <1>8. ASSUME NEW s \in Senders, RecordSent(s) PROVE Book'
    <2>1. /\ \A q \in Senders \ {s} : sender'[q] = sender[q]
          /\ sender'[s].pc = "again" /\ sender'[s].owed = sender[s].owed
          /\ sender'[s].row = sender[s].row
          /\ recorded' = recorded \cup {sender[s].row}
      BY <1>1, <1>8 DEF RecordSent, Goto, SenderRec
    <2>2. UNCHANGED <<month, plan, log, charges, most>>
      BY <1>8 DEF RecordSent, ledger, history
    <2>3. IsFiniteSet(sender'[s].owed)
      BY <2>1 DEF Known, Book
    <2> QED  BY <1>2, <2>1, <2>2, <2>3
  <1>9. ASSUME NEW s \in Senders, Send(s) \/ FollowUp(s) PROVE Book'
    <2>1. /\ UNCHANGED <<month, plan, charges, most, recorded>>
          /\ \A q \in Senders \ {s} : sender'[q] = sender[q]
          /\ sender'[s].pc = "sent" /\ sender'[s].owed = sender[s].owed
      BY <1>1, <1>9 DEF Send, FollowUp, ledger, history, SenderRec
    <2>2. \A q \in Senders : /\ IsFiniteSet(sender'[q].owed)
                             /\ sender'[q].pc = "select" => sender'[q].over
                             /\ sender'[q].pc # "sent" => sender'[q].row \in recorded' \cup {0}
      BY <2>1 DEF Known, Book
    <2> QED  BY <2>1, <2>2 DEF Known, Book
  <1>10. CASE ChangePlan
    <2>1. /\ UNCHANGED <<month, log, recorded, charges, sender>>
          /\ \A m \in Months : m >= month =>
               most'[m] = (IF m = month THEN Higher(most[m], plan') ELSE plan')
      BY <1>1, <1>10 DEF ChangePlan, ledger
    <2>2. \A m \in Months : most[m] \in Nat
      BY <1>1, CreditsAssumption DEF TypeOK
    <2>3. \A m \in Months : m >= month' => most'[m] >= plan'
      BY <1>1, <2>1, <2>2 DEF Higher
    <2> QED  BY <2>1, <2>3 DEF Known, Book
  <1>11. CASE Grant \/ UNCHANGED vars
    <2>1. UNCHANGED <<month, plan, log, recorded, charges, sender, most>>
      BY <1>11 DEF Grant, vars, ledger, history
    <2> QED  BY <2>1 DEF Known, Book
  <1>12. CASE NewMonth
    <2>1. UNCHANGED <<plan, log, recorded, charges, sender, most>> /\ month' = month + 1
      BY <1>12 DEF NewMonth, ledger, history
    <2>2. \A m \in Months : m >= month' => most'[m] >= plan'
      BY <1>1, <2>1 DEF Known, Book
    <2> QED  BY <2>1, <2>2 DEF Known, Book
  <1> QED  BY <1>4, <1>5, <1>6, <1>7, <1>8, <1>9, <1>10, <1>11, <1>12 DEF Next, Known, PayInv
LEMMA LimitType ==
    ASSUME NEW f \in [Months -> Allowances], NEW k \in Nat, NEW m \in Months
    PROVE  /\ f[m] \in Nat /\ f[m] >= 1 /\ k * Pack \in Nat /\ (k + 1) * Pack \in Nat
           /\ (k + 1) * Pack >= k * Pack
           /\ f[m] + k * Pack \in Nat /\ f[m] + k * Pack >= f[m]
  <1>1. f[m] \in Nat /\ f[m] >= 1 /\ Pack \in Nat
    <2>1. f[m] \in Allowances
      OBVIOUS
    <2>2. f[m] \in Nat \ {0} /\ Pack \in Nat
      BY <2>1, CreditsAssumption
    <2> QED  BY <2>2
  <1>2. k * Pack \in Nat
    BY <1>1
  <1>3. (k + 1) * Pack = k * Pack + Pack
    BY <1>1
  <1> QED  BY <1>1, <1>2, <1>3

\* Who keeps his look and his allowance is not let past by charges of others.
LEMMA LiveStays ==
    ASSUME TypeOK, TypeOK', NEW x \in Nat, NEW q \in Senders, Live(q, x)',
           most[month] <= most'[month'],
           sender'[q].pc = sender[q].pc, sender'[q].over = sender[q].over,
           sender'[q].allowance = sender[q].allowance,
           Claimed(q) \subseteq Claimed(q)', IsFiniteSet(Claimed(q)')
    PROVE  Live(q, x)
  <1>1. /\ sender[q].allowance \in Nat
        /\ most[month] \in Nat /\ most'[month'] \in Nat
    BY CreditsAssumption DEF TypeOK, SenderRec
  <1>2. Stale(q)' => Stale(q)
    BY <1>1 DEF Stale
  <1>3. Count(q)' >= Count(q) /\ Count(q) \in Nat /\ Count(q)' \in Nat
    <2>1. /\ IsFiniteSet(Claimed(q)) /\ Cardinality(Claimed(q)) <= Cardinality(Claimed(q)')
          /\ Cardinality(Claimed(q)) \in Nat /\ Cardinality(Claimed(q)') \in Nat
      BY FS_Subset, FS_CardinalityType
    <2> QED  BY <1>1, <2>1 DEF Count
  <1> QED  BY <1>2, <1>3 DEF Live

\* A step within a month that adds no contact keeps the sum, if whoever it lets
\* past the balance is let past with fewer than x on record.
LEMMA SumStays ==
    ASSUME Known, Known', Now, Past, month' = month, \A m \in Months : kept[m] <= kept'[m],
           \A m \in Months : m <= month => Limit(m) <= Limit(m)' /\ Standing(m)' \subseteq Standing(m),
           \A x \in Nat : x >= Limit(month) =>
             \/ Lives(x)' \subseteq Lives(x)
             \/ Cardinality(Rowed) < x /\ Lives(x)' \cap Sending = {}
             \/ \E s \in Senders : Lives(x)' \subseteq Lives(x) \cup {s} /\ kept'[month] = kept[month] + 1
    PROVE  Now' /\ Past'
  <1>1. /\ month \in Months /\ month' \in Months /\ month \in Int
        /\ \A m \in Months : m \in Int /\ Limit(m) \in Nat /\ Limit(m)' \in Nat
    <2>1. /\ month \in Months /\ month' \in Months /\ packs \in Nat /\ packs' \in Nat
          /\ most \in [Months -> Allowances] /\ most' \in [Months -> Allowances]
      BY DEF Known, PayInv, TypeOK
    <2>2. \A m \in Months : most[m] + packs * Pack \in Nat /\ most'[m] + packs' * Pack \in Nat
      BY <2>1, LimitType
    <2>3. \A m \in Months : m \in Int
      BY DEF Months
    <2> QED  BY <2>1, <2>2, <2>3 DEF Limit
  <1>2. \A m \in Months : m <= month => /\ Cardinality(Standing(m)') <= Cardinality(Standing(m))
                          /\ Cardinality(Standing(m)') \in Nat /\ Cardinality(Standing(m)) \in Nat
    <2>1. \A m : IsFiniteSet(Standing(m)) /\ Cardinality(Standing(m)) \in Nat
      BY Sizes
    <2> QED  BY <2>1, FS_Subset, FS_CardinalityType
  <1>3. Cardinality(Senders) \in Nat /\ \A m \in Months : kept[m] \in Nat /\ kept'[m] \in Nat
    <2>1. kept \in [Months -> Nat] /\ kept' \in [Months -> Nat]
      BY DEF Known, PayInv, TypeOK
    <2> QED  BY <2>1, Sizes
  <1>4. Past'
    <2>1. \A m \in Months : m < month =>
            Cardinality(Standing(m)') <= Limit(m)' + Cardinality(Senders) - 1 + kept'[m]
      <3> SUFFICES ASSUME NEW m \in Months, m < month
                   PROVE  Cardinality(Standing(m)') <= Limit(m)' + Cardinality(Senders) - 1 + kept'[m]
        OBVIOUS
      <3>1. Cardinality(Standing(m)) <= Limit(m) + Cardinality(Senders) - 1 + kept[m]
        BY DEF Past
      <3>2. m <= month
        BY <1>1
      <3>3. Limit(m) <= Limit(m)'
        BY <3>2
      <3>4. /\ Cardinality(Standing(m)') <= Cardinality(Standing(m))
            /\ Cardinality(Standing(m)') \in Nat /\ Cardinality(Standing(m)) \in Nat
        BY <1>2, <3>2
      <3>5. /\ Limit(m) \in Int /\ Limit(m)' \in Int
            /\ kept[m] \in Int /\ kept'[m] \in Int /\ kept[m] <= kept'[m]
        BY <1>1, <1>3
      <3> QED  BY <1>3, <3>1, <3>3, <3>4, <3>5
    <2> QED  BY <2>1 DEF Past
  <1>5. ASSUME NEW x \in Nat, x >= Limit(month)'
        PROVE  Cardinality(Standing(month)') + Cardinality(Lives(x)') <= x - 1 + Cardinality(Senders) + kept'[month]
    <2>1. x >= Limit(month)
      <3>1. Limit(month) <= Limit(month)'
        BY <1>1
      <3>2. Limit(month) \in Nat /\ Limit(month)' \in Nat
        BY <1>1
      <3> QED  BY <1>5, <3>1, <3>2
    <2>2. Lives(x) \in SUBSET Senders /\ Lives(x)' \in SUBSET Senders
      BY DEF Lives
    <2>3. /\ IsFiniteSet(Lives(x)) /\ Cardinality(Lives(x)) \in Nat
          /\ IsFiniteSet(Lives(x)') /\ Cardinality(Lives(x)') \in Nat
      BY <2>2, Sizes
    <2>4. /\ Cardinality(Standing(month)') <= Cardinality(Standing(month))
          /\ Cardinality(Standing(month)') \in Nat /\ Cardinality(Standing(month)) \in Nat
      BY <1>1, <1>2
    <2>7. /\ kept[month] \in Nat /\ kept'[month] \in Nat /\ kept[month] <= kept'[month]
      BY <1>1, <1>3
    <2>5. CASE Lives(x)' \subseteq Lives(x)
      <3>1. Cardinality(Standing(month)) + Cardinality(Lives(x)) <= x - 1 + Cardinality(Senders) + kept[month]
        BY <2>1 DEF Now
      <3>2. Cardinality(Lives(x)') <= Cardinality(Lives(x))
        BY <2>3, <2>5, FS_Subset
      <3> QED  BY <1>3, <2>3, <2>4, <2>7, <3>1, <3>2
    <2>6. CASE Cardinality(Rowed) < x /\ Lives(x)' \cap Sending = {}
      <3>1. Cardinality(Standing(month)) + Cardinality(Lives(x)') <= x - 1 + Cardinality(Senders)
        BY <2>2, <2>6, RoomLeft
      <3> QED  BY <1>3, <2>3, <2>4, <2>7, <3>1
    <2>8. ASSUME NEW s \in Senders, Lives(x)' \subseteq Lives(x) \cup {s}, kept'[month] = kept[month] + 1
          PROVE  Cardinality(Standing(month)') + Cardinality(Lives(x)') <= x - 1 + Cardinality(Senders) + kept'[month]
      <3>1. Cardinality(Standing(month)) + Cardinality(Lives(x)) <= x - 1 + Cardinality(Senders) + kept[month]
        BY <2>1 DEF Now
      <3>2. /\ IsFiniteSet(Lives(x) \cup {s})
            /\ Cardinality(Lives(x) \cup {s}) \in {Cardinality(Lives(x)), Cardinality(Lives(x)) + 1}
        BY <2>3, FS_AddElement
      <3>3. Cardinality(Lives(x)') <= Cardinality(Lives(x) \cup {s})
        BY <2>8, <3>2, FS_Subset
      <3>4. Cardinality(Lives(x)') <= Cardinality(Lives(x)) + 1
        BY <2>3, <3>2, <3>3
      <3> QED  BY <1>3, <2>3, <2>4, <2>7, <2>8, <3>1, <3>4
    <2> QED  BY <2>1, <2>5, <2>6, <2>8
  <1>6. Now'
    <2>1. \A x \in Nat : x >= Limit(month)' =>
            Cardinality(Standing(month)') + Cardinality(Lives(x)') <= x - 1 + Cardinality(Senders) + kept'[month]
      BY <1>5
    <2> QED  BY <2>1 DEF Now
  <1> QED  BY <1>4, <1>6
\* One sender's step lets nobody else past.
LEMMA OthersStay ==
    ASSUME Known, Known', month' = month, most[month] <= most'[month], charges \subseteq charges',
           NEW s \in Senders, \A q \in Senders \ {s} : sender'[q] = sender[q], NEW x \in Nat
    PROVE  Lives(x)' \subseteq Lives(x) \cup {s}
  <1> SUFFICES ASSUME NEW q \in Senders, q # s, Live(q, x)' PROVE Live(q, x)
    BY DEF Lives
  <1>1. sender'[q] = sender[q] /\ TypeOK /\ TypeOK' /\ IsFiniteSet(charges')
    BY DEF Known, PayInv, Book
  <1>2. Claimed(q)' = charges' \cup Claimed(q)
    BY <1>1 DEF Claimed
  <1>3. IsFiniteSet(Claimed(q)')
    BY <1>1, <1>2, Sizes, FS_Union
  <1> QED  BY <1>1, <1>2, <1>3, LiveStays

\* Nobody is contacted by whoever adds no row of his own.
LEMMA NothingNew ==
    ASSUME Known, UNCHANGED log, NEW s \in Senders, \A q \in Senders \ {s} : sender'[q] = sender[q],
           recorded' \subseteq recorded \cup {sender[s].row},
           sender'[s].row \in {0, sender[s].row} \cup recorded, NEW m
    PROVE  Standing(m)' \subseteq Standing(m)
  <1> SUFFICES ASSUME NEW p \in Standing(m)' PROVE p \in Standing(m)
    OBVIOUS
  <1>1. PICK i \in 1..Len(log) : /\ p \in People /\ log[i] = [who |-> p, month |-> m]
                                 /\ i \in recorded' \/ \E q \in Senders : sender'[q].row = i
    BY DEF Standing
  <1>2. i # 0
    BY Sizes
  <1>3. i \in recorded \/ \E q \in Senders : sender[q].row = i
    BY <1>1, <1>2
  <1> QED  BY <1>1, <1>3 DEF Standing

LEMMA SenderStep ==
    ASSUME Known, Known', Now, Past, UNCHANGED <<month, log, most, packs, kept>>,
           charges \subseteq charges',
           NEW s \in Senders, \A q \in Senders \ {s} : sender'[q] = sender[q],
           recorded' \subseteq recorded \cup {sender[s].row},
           sender'[s].row \in {0, sender[s].row} \cup recorded,
           \A x \in Nat : x >= Limit(month) /\ Live(s, x)' =>
             Live(s, x) \/ (Cardinality(Rowed) < x /\ s \notin Sending)
    PROVE  Now' /\ Past'
  <1>1. ASSUME NEW m \in Months PROVE Limit(m) <= Limit(m)' /\ Standing(m)' \subseteq Standing(m)
    <2>1. Limit(m)' = Limit(m) /\ Limit(m) \in Nat
      <3>1. packs \in Nat /\ most \in [Months -> Allowances]
        BY DEF Known, PayInv, TypeOK
      <3>2. most[m] + packs * Pack \in Nat
        BY <3>1, LimitType
      <3> QED  BY <3>2 DEF Limit
    <2>2. Standing(m)' \subseteq Standing(m)
      BY NothingNew
    <2> QED  BY <2>1, <2>2
  <1>2. ASSUME NEW x \in Nat, x >= Limit(month)
        PROVE  \/ Lives(x)' \subseteq Lives(x)
               \/ Cardinality(Rowed) < x /\ Lives(x)' \cap Sending = {}
    <2>1. Lives(x)' \subseteq Lives(x) \cup {s}
      <3>1. most[month] <= most'[month]
        <4>1. most[month] \in Nat /\ most' = most
          BY CreditsAssumption DEF Known, PayInv, TypeOK
        <4> QED  BY <4>1
      <3> QED  BY <3>1, OthersStay
    <2>2. \A q \in Lives(x)' : q # s => q \notin Sending
      BY DEF Lives, Live, Sending
    <2>3. s \in Lives(x)' <=> Live(s, x)'
      BY DEF Lives
    <2>4. s \in Lives(x) <=> Live(s, x)
      BY DEF Lives
    <2> QED  BY <1>2, <2>1, <2>2, <2>3, <2>4
  <1>3. \A m \in Months : kept[m] <= kept'[m]
    <2>1. kept \in [Months -> Nat]
      BY DEF Known, PayInv, TypeOK
    <2> QED  BY <2>1
  <1> QED  BY <1>1, <1>2, <1>3, SumStays

LEMMA OverrunStep == Known /\ Now /\ Past /\ [Next]_vars => Now' /\ Past'
  <1> SUFFICES ASSUME Known, Now, Past, [Next]_vars PROVE Now' /\ Past'
    OBVIOUS
  <1>1. Known'
    BY StepType, RowsStep, PayStep, BookStep DEF Known, PayInv
  <1>2. /\ TypeOK /\ TypeOK' /\ sender \in [Senders -> SenderRec]
        /\ plan \in Nat /\ most[month] \in Nat /\ most[month] >= plan
        /\ packs \in Nat /\ month \in Months /\ month \in Int
        /\ most \in [Months -> Allowances] /\ kept \in [Months -> Nat]
    <2>1. TypeOK /\ TypeOK' /\ month \in Months /\ month \in Int /\ packs \in Nat
      <3>1. TypeOK /\ TypeOK'
        BY <1>1 DEF Known, PayInv
      <3>2. month \in Months /\ packs \in 0..MaxPacks /\ MaxPacks \in Nat
        BY <3>1, CreditsAssumption DEF TypeOK
      <3> QED  BY <3>1, <3>2 DEF Months
    <2>2. most[month] >= plan
      BY <2>1 DEF Known, Book
    <2>3. /\ sender \in [Senders -> SenderRec] /\ most \in [Months -> Allowances]
          /\ kept \in [Months -> Nat] /\ plan \in Allowances
      BY <2>1 DEF TypeOK
    <2>4. Allowances \subseteq Nat
      BY CreditsAssumption
    <2>5. plan \in Nat /\ most[month] \in Nat
      BY <2>1, <2>3, <2>4
    <2> QED  BY <2>1, <2>2, <2>3, <2>5
  <1>3. \A s \in Senders : /\ sender[s].at \in Months /\ sender[s].at <= month
                           /\ sender[s].allowance \in Nat
    BY <1>2, CreditsAssumption DEF SenderRec, Known, PayInv
  <1>4. /\ packs * Pack \in Nat /\ Limit(month) \in Nat
        /\ Limit(month) = most[month] + packs * Pack
    BY <1>2, LimitType DEF Limit
  <1>5. Cardinality(charges) \in Nat /\ Cardinality(Rowed) \in Nat
    BY Sizes, FS_CardinalityType DEF Known, Book
  <1>6. ASSUME NEW s \in Senders, Look(s) PROVE Now' /\ Past'
    <2> DEFINE at == IF sender[s].pc = "idle" THEN month ELSE sender[s].at
    <2>1. /\ sender[s].pc \in {"idle", "again"}
          /\ sender' = [sender EXCEPT ![s] =
               [pc |-> IF Used(at) > plan THEN "select" ELSE "settling",
                at |-> at, allowance |-> plan, over |-> Over(at), owed |-> {}, row |-> @.row]]
          /\ UNCHANGED <<month, log, recorded, charges, packs, most, kept>>
      BY <1>6 DEF Look, ledger, history
    <2>2. at \in Months /\ at <= month
      BY <1>2, <1>3
    <2>3. Cardinality(Rowed) <= Used(at) /\ Used(at) \in Nat
      BY <2>2, AllCounted, Sizes
    <2> HIDE DEF at
    <2>4. /\ \A q \in Senders \ {s} : sender'[q] = sender[q]
          /\ sender'[s].row = sender[s].row /\ sender'[s].allowance = plan /\ sender'[s].owed = {}
          /\ sender'[s].pc = (IF Used(at) > plan THEN "select" ELSE "settling")
          /\ sender'[s].over = (Used(at) >= plan)
      BY <1>2, <2>1 DEF Over
    <2>5. ~Stale(s)'
      BY <1>2, <2>1, <2>4 DEF Stale
    <2>6. Count(s)' = plan + Cardinality(charges)
      <3>1. Claimed(s)' = charges
        BY <2>1, <2>4 DEF Claimed
      <3> QED  BY <2>4, <3>1 DEF Count
    <2>7. ASSUME NEW x \in Nat, x >= Limit(month), Live(s, x)' PROVE Cardinality(Rowed) < x
      <3>1. /\ Used(at) <= plan
            /\ ~(Used(at) >= plan) \/ plan + Cardinality(charges) < x
        <4>1. sender'[s].pc = "settling"
          BY <2>4, <2>5, <2>7 DEF Live
        <4>2. Used(at) <= plan
          BY <1>2, <2>3, <2>4, <4>1
        <4>3. ~sender'[s].over \/ Count(s)' < x
          BY <2>5, <2>7, <4>1 DEF Live
        <4> QED  BY <2>4, <2>6, <4>2, <4>3
      <3> QED  BY <1>2, <1>4, <1>5, <2>3, <2>7, <3>1
    <2>8. s \notin Sending
      BY <2>1 DEF Sending
    <2> QED  BY <1>1, <2>1, <2>4, <2>7, <2>8, SenderStep
  <1>7. ASSUME NEW s \in Senders, Select(s) PROVE Now' /\ Past'
    <2>1. /\ sender[s].pc = "select"
          /\ \A q \in Senders \ {s} : sender'[q] = sender[q]
          /\ sender'[s].pc = "settling" /\ sender'[s].over = sender[s].over
          /\ sender'[s].allowance = sender[s].allowance
          /\ sender'[s].at = sender[s].at /\ sender'[s].row = sender[s].row
          /\ sender'[s].owed = Owed(sender[s].at, sender[s].allowance)
          /\ UNCHANGED <<month, log, recorded, charges, packs, most, kept>>
      BY <1>2, <1>7 DEF Select, ledger, history, SenderRec
    <2>2. sender[s].over
      BY <2>1 DEF Known, Book
    <2>3. Count(s)' \in Nat /\ Used(sender[s].at) <= Count(s)'
      <3>1. Claimed(s)' = charges \cup {<<p, sender[s].at>> : p \in Owed(sender[s].at, sender[s].allowance)}
        BY <2>1 DEF Claimed
      <3> QED  BY <1>3, <2>1, <3>1, Selected DEF Count
    <2>4. Cardinality(Rowed) <= Used(sender[s].at) /\ Used(sender[s].at) \in Nat
      BY <1>3, AllCounted, Sizes
    <2>5. ASSUME NEW x \in Nat, Live(s, x)', ~Live(s, x) PROVE Cardinality(Rowed) < x
      <3>1. Stale(s)' = Stale(s)
        BY <2>1 DEF Stale
      <3>2. Count(s)' < x
        BY <2>1, <2>2, <2>5, <3>1 DEF Live
      <3> QED  BY <1>5, <2>3, <2>4, <3>2
    <2>6. s \notin Sending
      BY <2>1 DEF Sending
    <2> QED  BY <1>1, <2>1, <2>5, <2>6, SenderStep
  <1>8. ASSUME NEW s \in Senders, Charge(s) PROVE Now' /\ Past'
    <2>1. PICK p \in sender[s].owed :
            /\ charges' = charges \cup {<<p, sender[s].at>>}
            /\ sender' = [sender EXCEPT ![s].owed = @ \ {p}]
            /\ UNCHANGED <<month, log, recorded, packs, most, kept>>
      BY <1>8 DEF Charge
    <2>2. /\ \A q \in Senders \ {s} : sender'[q] = sender[q]
          /\ sender'[s].pc = sender[s].pc /\ sender'[s].over = sender[s].over
          /\ sender'[s].allowance = sender[s].allowance
          /\ sender'[s].at = sender[s].at /\ sender'[s].row = sender[s].row
          /\ sender'[s].owed = sender[s].owed \ {p}
      BY <1>2, <2>1 DEF SenderRec
    <2>3. Claimed(s)' = Claimed(s)
      BY <2>1, <2>2 DEF Claimed
    <2>4. IsFiniteSet(Claimed(s)') /\ most[month] <= most'[month']
      BY <1>2, <2>1, <2>3, Sizes
    <2>5. \A x \in Nat : Live(s, x)' => Live(s, x)
      BY <1>2, <2>2, <2>3, <2>4, LiveStays
    <2>6. /\ charges \subseteq charges' /\ recorded' \subseteq recorded \cup {sender[s].row}
          /\ UNCHANGED <<month, log, most, packs, kept>>
      BY <2>1
    <2>7. \A x \in Nat : x >= Limit(month) /\ Live(s, x)' =>
            Live(s, x) \/ (Cardinality(Rowed) < x /\ s \notin Sending)
      BY <2>5
    <2>8. sender'[s].row \in {0, sender[s].row} /\ \A q \in Senders \ {s} : sender'[q] = sender[q]
      BY <2>2
    <2> QED  BY <1>1, <2>6, <2>7, <2>8, SenderStep
  <1>9. ASSUME NEW s \in Senders, Verdict(s) PROVE Now' /\ Past'
    <2>1. /\ \A q \in Senders \ {s} : sender'[q] = sender[q]
          /\ sender[s].pc = "settling" /\ sender[s].owed = {}
          /\ \/ ~Exhausted(s) /\ sender'[s].pc = "cleared" /\ sender'[s].row = 0
             \/ sender'[s].pc = "idle" /\ sender'[s].row = 0
          /\ UNCHANGED <<month, log, recorded, charges, packs, most, kept>>
      BY <1>2, <1>9 DEF Verdict, Cleared, Idle, ledger, history, SenderRec
    <2>2. ASSUME NEW x \in Nat, x >= Limit(month), Live(s, x)' PROVE Live(s, x)
      <3>1. ~Exhausted(s)
        BY <2>1, <2>2 DEF Live
      <3>2. CASE ~sender[s].over \/ Stale(s)
        BY <2>1, <3>2 DEF Live
      <3>3. CASE sender[s].over /\ ~Stale(s)
        <4>1. Cardinality(charges) < packs * Pack
          BY <1>4, <1>5, <3>1, <3>3 DEF Exhausted, Remaining
        <4>2. sender[s].allowance <= most[month]
          BY <1>2, <1>3, <3>3 DEF Stale
        <4>3. Claimed(s) = charges
          BY <2>1 DEF Claimed
        <4>4. Count(s) < x
          BY <1>2, <1>3, <1>4, <1>5, <2>2, <4>1, <4>2, <4>3 DEF Count
        <4> QED  BY <2>1, <4>4 DEF Live
      <3> QED  BY <3>2, <3>3
    <2>3. /\ charges \subseteq charges' /\ recorded' \subseteq recorded \cup {sender[s].row}
          /\ UNCHANGED <<month, log, most, packs, kept>> /\ sender'[s].row \in {0, sender[s].row}
          /\ \A q \in Senders \ {s} : sender'[q] = sender[q]
      BY <2>1
    <2>4. \A x \in Nat : x >= Limit(month) /\ Live(s, x)' =>
            Live(s, x) \/ (Cardinality(Rowed) < x /\ s \notin Sending)
      BY <2>2
    <2> QED  BY <1>1, <2>3, <2>4, SenderStep
  <1>10. ASSUME NEW s \in Senders, FollowUp(s) \/ RecordSent(s) \/ Leave(s) \/ Lose(s) PROVE Now' /\ Past'
    <2>1. /\ \A q \in Senders \ {s} : sender'[q] = sender[q]
          /\ sender'[s].pc \in {"sent", "again", "idle"}
          /\ sender'[s].row \in {0, sender[s].row} \cup recorded
          /\ recorded' \subseteq recorded \cup {sender[s].row}
          /\ UNCHANGED <<month, log, charges, packs, most, kept>>
      BY <1>2, <1>10 DEF FollowUp, RecordSent, Leave, Lose, Goto, Idle, ledger, history, SenderRec
    <2>2. \A x \in Nat : ~Live(s, x)'
      BY <2>1 DEF Live
    <2> QED  BY <1>1, <2>1, <2>2, SenderStep
  <1>11. ASSUME NEW s \in Senders, Send(s) PROVE Now' /\ Past'
    <2>1. PICK p \in People : log' = Append(log, [who |-> p, month |-> month])
      BY <1>11 DEF Send
    <2>2. /\ Len(log) \in Nat /\ Len(log') = Len(log) + 1
          /\ log'[Len(log) + 1] = [who |-> p, month |-> month]
          /\ \A i \in 1..Len(log) : log'[i] = log[i]
      BY <1>2, <2>1, SMTT(30) DEF TypeOK
    <2>3. /\ sender[s].pc = "cleared"
          /\ \A q \in Senders \ {s} : sender'[q] = sender[q]
          /\ sender'[s].pc = "sent" /\ sender'[s].row = Len(log) + 1
          /\ UNCHANGED <<month, recorded, charges, packs, most, kept>>
      BY <1>2, <1>11 DEF Send, ledger, history, SenderRec
    <2>4. \A m : Standing(m)' \subseteq Standing(m) \cup (IF m = month THEN {p} ELSE {})
      <3> SUFFICES ASSUME NEW m, NEW q \in Standing(m)', q # p \/ m # month
                   PROVE  q \in Standing(m)
        OBVIOUS
      <3>1. PICK i \in 1..Len(log') : /\ q \in People /\ log'[i] = [who |-> q, month |-> m]
                                      /\ i \in recorded' \/ \E r \in Senders : sender'[r].row = i
        BY DEF Standing
      <3>2. i # Len(log) + 1
        BY <2>2, <3>1
      <3>3. i \in 1..Len(log) /\ log[i] = [who |-> q, month |-> m]
        BY <2>2, <3>1, <3>2
      <3>4. i \in recorded \/ \E r \in Senders : sender[r].row = i
        BY <2>3, <3>1, <3>2
      <3> QED  BY <3>1, <3>3, <3>4 DEF Standing
    <2>5. ASSUME NEW m \in Months, m < month PROVE Cardinality(Standing(m)') <= Limit(m)' + Cardinality(Senders) - 1 + kept'[m]
      <3>1. Standing(m)' \in SUBSET Standing(m) /\ Limit(m)' = Limit(m)
        BY <1>2, <2>3, <2>4, <2>5 DEF Limit
      <3>2. /\ Cardinality(Standing(m)') <= Cardinality(Standing(m))
            /\ Cardinality(Standing(m)') \in Nat /\ Cardinality(Standing(m)) \in Nat
        <4>1. IsFiniteSet(Standing(m)) /\ Cardinality(Standing(m)) \in Nat
          BY Sizes
        <4> QED  BY <3>1, <4>1, FS_Subset, FS_CardinalityType
      <3>3. Cardinality(Standing(m)) <= Limit(m) + Cardinality(Senders) - 1 + kept[m]
        BY <2>5 DEF Past
      <3>4. Limit(m) \in Nat /\ Cardinality(Senders) \in Nat /\ kept[m] \in Nat /\ kept' = kept
        BY <1>2, <2>3, LimitType, Sizes DEF Limit
      <3> QED  BY <3>1, <3>2, <3>3, <3>4
    <2>6. ASSUME NEW x \in Nat, x >= Limit(month)
          PROVE  Cardinality(Standing(month)') + Cardinality(Lives(x)') <= x - 1 + Cardinality(Senders) + kept[month]
      <3>1. Lives(x)' \in SUBSET (Lives(x) \ {s})
        <4>1. Lives(x)' \subseteq Lives(x) \cup {s}
          BY <1>1, <1>2, <2>3, OthersStay
        <4>2. s \notin Lives(x)'
          BY <2>3 DEF Lives, Live
        <4> QED  BY <4>1, <4>2
      <3>2. s \in Lives(x) /\ IsFiniteSet(Lives(x)) /\ Cardinality(Lives(x)) \in Nat
        <4>1. Lives(x) \in SUBSET Senders
          BY DEF Lives
        <4>2. s \in Lives(x)
          BY <2>3 DEF Lives, Live
        <4> QED  BY <4>1, <4>2, Sizes
      <3>3. /\ Cardinality(Lives(x)') \in Nat
            /\ Cardinality(Lives(x)') <= Cardinality(Lives(x)) - 1
        <4>1. IsFiniteSet(Lives(x) \ {s}) /\ Cardinality(Lives(x) \ {s}) = Cardinality(Lives(x)) - 1
          BY <3>2, FS_RemoveElement
        <4> QED  BY <3>1, <4>1, FS_Subset, FS_CardinalityType
      <3>4. IsFiniteSet(Standing(month)) /\ Cardinality(Standing(month)) \in Nat
        BY Sizes
      <3>5. /\ IsFiniteSet(Standing(month) \cup {p})
            /\ Cardinality(Standing(month) \cup {p}) <= Cardinality(Standing(month)) + 1
            /\ Cardinality(Standing(month) \cup {p}) \in Nat
        <4>1. /\ IsFiniteSet(Standing(month) \cup {p})
              /\ Cardinality(Standing(month) \cup {p}) \in
                   {Cardinality(Standing(month)), Cardinality(Standing(month)) + 1}
          BY <3>4, FS_AddElement
        <4> QED  BY <3>4, <4>1
      <3>6. /\ Cardinality(Standing(month)') \in Nat
            /\ Cardinality(Standing(month)') <= Cardinality(Standing(month)) + 1
        <4>1. Standing(month)' \in SUBSET (Standing(month) \cup {p})
          BY <2>3, <2>4
        <4> QED  BY <3>4, <3>5, <4>1, FS_Subset, FS_CardinalityType
      <3>7. Cardinality(Standing(month)) + Cardinality(Lives(x)) <= x - 1 + Cardinality(Senders) + kept[month]
        BY <2>6 DEF Now
      <3>8. Cardinality(Senders) \in Nat /\ kept[month] \in Nat
        BY <1>2, Sizes
      <3> QED  BY <3>2, <3>3, <3>4, <3>6, <3>7, <3>8
    <2>7. Limit(month)' = Limit(month) /\ month' = month /\ kept' = kept
      BY <2>3 DEF Limit
    <2>8. Now'
      <3>1. \A x \in Nat : x >= Limit(month)' =>
              Cardinality(Standing(month)') + Cardinality(Lives(x)') <= x - 1 + Cardinality(Senders) + kept[month]
        BY <2>6, <2>7
      <3>2. kept'[month'] = kept[month]
        BY <2>7
      <3> QED  BY <3>1, <3>2 DEF Now
    <2>9. Past'
      BY <2>5, <2>7 DEF Past
    <2> QED  BY <2>8, <2>9
  <1>12. CASE ChangePlan \/ Grant \/ UNCHANGED vars
    <2>1. UNCHANGED <<month, log, recorded, charges, sender, kept>>
      BY <1>12 DEF ChangePlan, Grant, vars, ledger, history
    <2>2. packs' = packs \/ packs' = packs + 1
      BY <1>12 DEF ChangePlan, Grant, vars, ledger, history
    <2>3. \A m \in Months : most[m] \in Nat /\ most'[m] \in Nat /\ (m <= month => most[m] <= most'[m])
      <3>1. \A m \in Months : m \in Int /\ most[m] \in Nat /\ most'[m] \in Nat
        <4>1. \A m \in Months : m \in Int
          BY DEF Months
        <4>2. \A m \in Months : most[m] \in Allowances /\ most'[m] \in Allowances
          BY <1>2 DEF TypeOK
        <4> QED  BY <4>1, <4>2, CreditsAssumption
      <3>2. CASE ChangePlan
        <4>1. /\ plan' \in Nat
              /\ \A m \in Months : m <= month =>
                   most'[m] = (IF m = month THEN Higher(most[m], plan') ELSE most[m])
          BY <1>2, <3>1, <3>2, CreditsAssumption DEF ChangePlan
        <4> QED  BY <3>1, <4>1 DEF Higher
      <3>3. CASE Grant \/ UNCHANGED vars
        <4>1. most' = most
          BY <3>3 DEF Grant, vars, history
        <4> QED  BY <3>1, <4>1
      <3> QED  BY <1>12, <3>1, <3>2, <3>3
    <2>4. ASSUME NEW m \in Months, m <= month PROVE Limit(m) <= Limit(m)'
      <3>1. packs * Pack \in Nat /\ packs' * Pack \in Nat /\ packs * Pack <= packs' * Pack
        <4>1. packs \in Nat /\ most \in [Months -> Allowances] /\ m \in Months
          BY <1>2, <2>4 DEF TypeOK
        <4>2. packs * Pack \in Nat /\ (packs + 1) * Pack \in Nat /\ packs * Pack <= (packs + 1) * Pack
          BY <4>1, LimitType, SMTT(30)
        <4> QED  BY <2>2, <4>2
      <3> QED  BY <2>3, <2>4, <3>1 DEF Limit
    <2>5. \A m : Standing(m)' = Standing(m)
      BY <2>1 DEF Standing
    <2>6. \A x \in Nat : Lives(x)' \subseteq Lives(x)
      <3> SUFFICES ASSUME NEW x \in Nat, NEW q \in Senders, Live(q, x)' PROVE Live(q, x)
        BY DEF Lives
      <3>1. Claimed(q)' = Claimed(q) /\ IsFiniteSet(Claimed(q))
        BY <2>1, Sizes DEF Claimed
      <3>2. most[month] <= most'[month']
        BY <1>2, <2>1, <2>3
      <3> QED  BY <1>2, <2>1, <3>1, <3>2, LiveStays
    <2>7. \A m \in Months : kept[m] <= kept'[m]
      BY <1>2, <2>1
    <2> QED  BY <1>1, <2>1, <2>4, <2>5, <2>6, <2>7, SumStays
  <1>13. CASE NewMonth
    <2>1. UNCHANGED <<log, recorded, charges, packs, most, kept, sender>> /\ month' = month + 1
      BY <1>13 DEF NewMonth, ledger, history
    <2>2. Cardinality(Senders) \in Nat /\ \A m \in Months : kept[m] \in Nat
      BY <1>2, Sizes
    <2>3. \A m : Standing(m)' = Standing(m)
      BY <2>1 DEF Standing
    <2>4. Past'
      <3> SUFFICES ASSUME NEW m \in Months, m < month'
                   PROVE  Cardinality(Standing(m)) <= Limit(m) + Cardinality(Senders) - 1 + kept[m]
        BY <2>1, <2>3 DEF Past, Limit
      <3>1. m \in Int
        BY DEF Months
      <3>2. CASE m < month
        BY <3>2 DEF Past
      <3>3. CASE m = month
        <4>1. Cardinality(Standing(month)) + Cardinality(Lives(Limit(month))) <= Limit(month) - 1 + Cardinality(Senders) + kept[month]
          BY <1>4 DEF Now
        <4>2. Cardinality(Lives(Limit(month))) \in Nat /\ Cardinality(Standing(month)) \in Nat
          <5>1. Lives(Limit(month)) \in SUBSET Senders
            BY DEF Lives
          <5> QED  BY <5>1, Sizes
        <4> QED  BY <1>4, <2>2, <3>3, <4>1, <4>2
      <3> QED  BY <1>2, <2>1, <3>1, <3>2, <3>3
    <2>5. Standing(month') = {}
      <3>1. \A i \in 1..Len(log) : log[i].month # month + 1
        <4>1. \A i \in 1..Len(log) : log[i].month <= month /\ log[i] \in Contact
          <5>1. log \in Seq(Contact)
            BY <1>2 DEF TypeOK
          <5>2. \A i \in 1..Len(log) : log[i].month <= month
            BY DEF Known, PayInv
          <5> QED  BY <5>1, <5>2
        <4>2. \A i \in 1..Len(log) : log[i].month \in Int
          BY <4>1 DEF Contact, Months
        <4> QED  BY <1>2, <4>1, <4>2
      <3> QED  BY <2>1, <3>1 DEF Standing
    <2>6. Now'
      <3> SUFFICES ASSUME NEW x \in Nat, x >= Limit(month')
                   PROVE  Cardinality(Standing(month')) + Cardinality(Lives(x)') <= x - 1 + Cardinality(Senders) + kept[month']
        BY <2>1, <2>3 DEF Now, Limit
      <3>1. Cardinality(Standing(month')) = 0
        BY <2>5, FS_EmptySet
      <3>2. Cardinality(Lives(x)') \in Nat /\ Cardinality(Lives(x)') <= Cardinality(Senders)
        <4>1. Lives(x)' \in SUBSET Senders
          BY DEF Lives
        <4> QED  BY <4>1, FS_Subset, FS_CardinalityType, CreditsAssumption
      <3>4. month' \in Months
        BY <1>2 DEF TypeOK
      <3>3. x >= 1
        <4>1. month' \in Months
          BY <3>4
        <4>2. Limit(month') \in Nat /\ Limit(month') >= 1
          BY <1>2, <4>1, LimitType DEF Limit
        <4> QED  BY <4>2
      <3> QED  BY <2>2, <3>1, <3>2, <3>3, <3>4
    <2> QED  BY <2>4, <2>6
  <1>14. ASSUME NEW s \in Senders, GoOn(s) PROVE Now' /\ Past'
    <2>1. /\ UNCHANGED <<month, log, recorded, charges, packs, most>>
          /\ \A q \in Senders \ {s} : sender'[q] = sender[q]
          /\ sender'[s].row = 0
          /\ kept' = [kept EXCEPT ![month] = @ + 1]
      BY <1>2, <1>14 DEF GoOn, Cleared, Idle, ledger
    <2>2. \A m \in Months : kept[m] <= kept'[m]
      <3> SUFFICES ASSUME NEW m \in Months PROVE kept[m] <= kept'[m]
        OBVIOUS
      <3>1. kept[m] \in Nat /\ kept'[m] \in {kept[m], kept[m] + 1}
        BY <1>2, <2>1
      <3> QED  BY <3>1
    <2>3. kept'[month] = kept[month] + 1
      BY <1>2, <2>1
    <2>4. \A m \in Months : Limit(m) <= Limit(m)' /\ Standing(m)' \subseteq Standing(m)
      <3> SUFFICES ASSUME NEW m \in Months PROVE Limit(m) <= Limit(m)' /\ Standing(m)' \subseteq Standing(m)
        OBVIOUS
      <3>1. Limit(m)' = Limit(m) /\ most[m] + packs * Pack \in Nat
        BY <1>2, <2>1, LimitType DEF Limit
      <3>2. Standing(m)' \subseteq Standing(m)
        BY <2>1, NothingNew
      <3> QED  BY <3>1, <3>2 DEF Limit
    <2>5. \A x \in Nat : Lives(x)' \subseteq Lives(x) \cup {s}
      BY <1>1, <1>2, <2>1, OthersStay
    <2> QED  BY <1>1, <2>1, <2>2, <2>3, <2>4, <2>5, SumStays
  <1> QED  BY <1>6, <1>7, <1>8, <1>9, <1>10, <1>11, <1>12, <1>13, <1>14 DEF Next

\* Before anybody is contacted, whoever is at work fits under any limit.
LEMMA EmptyFits ==
    ASSUME Known, NEW x \in Nat, x >= 1, Standing(month) = {}
    PROVE  Cardinality(Standing(month)) + Cardinality(Lives(x)) <= x - 1 + Cardinality(Senders) + kept[month]
  <1>1. Cardinality(Standing(month)) = 0
    BY FS_EmptySet
  <1>2. Lives(x) \in SUBSET Senders
    BY DEF Lives
  <1>3. /\ Cardinality(Lives(x)) \in Nat /\ Cardinality(Senders) \in Nat
        /\ Cardinality(Lives(x)) <= Cardinality(Senders)
    BY <1>2, Sizes, FS_Subset
  <1>4. kept[month] \in Nat
    BY DEF Known, PayInv, TypeOK
  <1> QED  BY <1>1, <1>3, <1>4

LEMMA OverrunInit == Init => Known /\ Now /\ Past
  <1> SUFFICES ASSUME Init PROVE Known /\ Now /\ Past
    OBVIOUS
  <1>1. Known
    <2>1. Rows
      BY DEF Init, Rows, Idle
    <2> QED  BY <2>1, PayInit, BookInit DEF Known
  <1>2. Past
    BY DEF Init, Past, Months
  <1>3. Standing(month) = {}
    <2>1. Len(log) = 0
      BY DEF Init
    <2> QED  BY <2>1 DEF Standing
  <1>4. Limit(month) \in Nat /\ Limit(month) >= 1
    <2>1. most \in [Months -> Allowances] /\ packs \in Nat /\ month \in Months
      BY <1>1 DEF Known, PayInv, TypeOK
    <2> QED  BY <2>1, LimitType DEF Limit
  <1>5. \A x \in Nat : x >= Limit(month) => x >= 1
    BY <1>4
  <1> QED  BY <1>1, <1>2, <1>3, <1>5, EmptyFits DEF Now

\* The people contacted in a month, those on their way included, go past its
\* largest allowance and every credit ever granted by no more than the senders
\* that were racing, less the one that was due, and the looks a pass kept over
\* a message in it.
THEOREM OverrunHolds == Spec => []OverrunBounded
  <1>1. Known /\ Now /\ Past => OverrunBounded
    <2> SUFFICES ASSUME Known, Now, Past, NEW m \in Months
                 PROVE  Cardinality(Standing(m)) <= most[m] + packs * Pack + Cardinality(Senders) - 1 + kept[m]
      BY DEF OverrunBounded
    <2>1. /\ month \in Months /\ month \in Int /\ m \in Int
          /\ most \in [Months -> Allowances] /\ packs \in Nat /\ kept[m] \in Nat
      BY DEF Known, PayInv, TypeOK, Months
    <2>2. /\ Limit(m) \in Nat /\ Limit(m) >= 1 /\ Limit(m) = most[m] + packs * Pack
          /\ Cardinality(Senders) \in Nat
      <3>1. most[m] + packs * Pack \in Nat /\ most[m] + packs * Pack >= 1
        BY <2>1, LimitType
      <3>2. Cardinality(Senders) \in Nat
        BY Sizes
      <3> QED  BY <3>1, <3>2 DEF Limit
    <2>3. CASE m < month
      BY <2>1, <2>2, <2>3 DEF Past
    <2>4. CASE m = month
      <3>1. Cardinality(Standing(m)) + Cardinality(Lives(Limit(m))) <= Limit(m) - 1 + Cardinality(Senders) + kept[m]
        BY <2>2, <2>4 DEF Now
      <3>2. Lives(Limit(m)) \in SUBSET Senders
        BY DEF Lives
      <3>3. Cardinality(Standing(m)) \in Nat /\ Cardinality(Lives(Limit(m))) \in Nat
        BY <3>2, Sizes
      <3> QED  BY <2>1, <2>2, <2>4, <3>1, <3>3
    <2>5. CASE m > month
      <3>1. \A i \in 1..Len(log) : log[i].month <= month /\ log[i] \in Contact
        BY DEF Known, PayInv, TypeOK
      <3>2. \A i \in 1..Len(log) : log[i].month \in Int
        BY <3>1 DEF Contact, Months
      <3>3. \A i \in 1..Len(log) : log[i].month # m
        BY <2>1, <2>5, <3>1, <3>2
      <3>4. Standing(m) = {}
        BY <3>3 DEF Standing
      <3>5. Cardinality(Standing(m)) = 0
        BY <3>4, FS_EmptySet
      <3> QED  BY <2>1, <2>2, <3>5
    <2> QED  BY <2>1, <2>3, <2>4, <2>5
  <1>2. Known /\ [Next]_vars => Known'
    BY StepType, RowsStep, PayStep, BookStep DEF Known, PayInv
  <1> QED  BY <1>1, <1>2, OverrunInit, OverrunStep, PTL DEF Spec
=============================================================================
