------------------------------- MODULE Credits -------------------------------
(***************************************************************************)
(* The month's allowance of prospects and the prepaid credits behind it,   *)
(* for one organization: the budget looks that autopilot passes, approvals *)
(* and cadences take before they contact somebody (packages/pipeline/src/  *)
(* metering.ts), and the charges those looks settle on the way (credits.ts)*)
(*                                                                         *)
(* Nothing is locked: usage, charges, balance, the message and its row in  *)
(* interactions are statements of their own, and other senders, the        *)
(* billing webhook and the calendar move between any two of them.  A pass  *)
(* keeps the time it started with, over the end of its month too, and the  *)
(* look it has when something fails after a message is out: it is taken    *)
(* anew at the end of the try, and what is thrown before skips it.         *)
(***************************************************************************)
EXTENDS Integers, FiniteSets, Sequences

CONSTANTS
    People,
    Senders,     \* autopilot passes, approvals (held or not), cadence runs
    Passes,      \* those of autopilot: one look serves until the next message
    Allowances,  \* prospectsPerMonth of the plans the organization may be on
    Pack,        \* credits a confirmed payment grants
    LastMonth,   \* bound: months
    MaxPacks,    \* bound: payments
    MaxUpsets    \* bound: changes of plan, looks kept over a message and
                 \* senders that end between a message and its row, together

Months == 0..LastMonth

ASSUME CreditsAssumption ==
    /\ IsFiniteSet(Senders) /\ Passes \subseteq Senders
    /\ Allowances \subseteq Nat \ {0} /\ Allowances # {}
    /\ Pack \in Nat /\ LastMonth \in Nat
    /\ MaxPacks \in Nat /\ MaxUpsets \in Nat

VARIABLES
    month,      \* the calendar month, UTC
    plan,       \* planFor: the allowance in force
    log,        \* contacts of a person in a month, in order of occurred_at
    recorded,   \* those with a row in interactions
    charges,    \* spends of the credit_ledger: one a person and a month
    packs,      \* grants of the credit_ledger
    sender,
    least, most,    \* history: the smallest and the largest allowance of each month
    astray,         \* history: charges by a look whose month was over
    kept,           \* history: looks kept over a message, by month
    upsets

ledger == <<charges, packs>>
history == <<least, most, astray, kept>>
vars == <<month, plan, log, recorded, ledger, sender, history, upsets>>

-----------------------------------------------------------------------------

Contact == [who : People, month : Months]

SenderRec == [pc : {"idle", "select", "settling", "cleared", "sent", "again"},
              at : Months,             \* the month of its clock
              allowance : Allowances,  \* as read
              over : BOOLEAN,          \* overPlan, as read
              owed : SUBSET People,    \* the rows it is charging
              row : Nat]               \* the contact it made last
Idle == [pc |-> "idle", at |-> 0, allowance |-> CHOOSE a \in Allowances : TRUE,
         over |-> FALSE, owed |-> {}, row |-> 0]

\* A look that lets the sender contact somebody: of what it read only the clock
\* is used again.
Cleared(s) == [Idle EXCEPT !.pc = "cleared", !.at = sender[s].at]

Init ==
    /\ month = 0
    /\ plan \in Allowances
    /\ log = <<>> /\ recorded = {}
    /\ charges = {} /\ packs = 0
    /\ sender = [s \in Senders |-> Idle]
    /\ least = [m \in Months |-> plan] /\ most = [m \in Months |-> plan]
    /\ astray = {} /\ kept = [m \in Months |-> 0]
    /\ upsets = 0

\* Rows since the start of a month, without an end: usageFor and the settlement.
Since(at) == {i \in recorded : log[i].month >= at}

\* The first of each person's, in order of time.
Firsts(at) == {i \in Since(at) : \A j \in Since(at) : log[j].who = log[i].who => i <= j}
Used(at) == Cardinality(Firsts(at))
Over_Late(at) == Used(at) > plan
Over(at) == Used(at) >= plan

\* settleProspectCredits: whom an allowance leaves over, if not yet charged.
Before_ByPerson(i, at) == {j \in Firsts(at) : log[j].who # log[i].who}
Before(i, at) == {j \in Firsts(at) : j < i}
Owed(at, allowance) ==
    {log[i].who : i \in {i \in Firsts(at) : /\ Cardinality(Before(i, at)) >= allowance
                                            /\ <<log[i].who, at>> \notin charges}}

\* creditsFor, clamped at zero where it is read.
Remaining == packs * Pack - Cardinality(charges)

Upset == upsets < MaxUpsets /\ upsets' = upsets + 1

Goto(s, pc) == sender' = [sender EXCEPT ![s].pc = pc]

-----------------------------------------------------------------------------
(* budgetStatus. *)

\* usageFor and planFor.  A pass keeps its clock between two looks.
Look(s) ==
    \E at \in {IF sender[s].pc = "idle" THEN month ELSE sender[s].at} :
      /\ sender[s].pc = "idle" \/ (sender[s].pc = "again" /\ s \in Passes)
      /\ sender' = [sender EXCEPT ![s] =
           [pc |-> IF Used(at) > plan THEN "select" ELSE "settling", at |-> at,
            allowance |-> plan, over |-> Over(at), owed |-> {}, row |-> @.row]]
      /\ UNCHANGED <<month, plan, log, recorded, ledger, history, upsets>>

Select(s) ==
    /\ sender[s].pc = "select"
    /\ sender' = [sender EXCEPT ![s].pc = "settling",
                                ![s].owed = Owed(sender[s].at, sender[s].allowance)]
    /\ UNCHANGED <<month, plan, log, recorded, ledger, history, upsets>>

\* spendProspectCredit: a second charge of the month is refused by the index.
Charge(s) ==
    \E p \in sender[s].owed :
      LET c == <<p, sender[s].at>> IN
      /\ sender[s].pc = "settling"
      /\ charges' = charges \cup {c}
      /\ astray' = IF sender[s].at < month /\ c \notin charges THEN astray \cup {c} ELSE astray
      /\ sender' = [sender EXCEPT ![s].owed = @ \ {p}]
      /\ UNCHANGED <<month, plan, log, recorded, packs, least, most, kept, upsets>>

\* The balance.
Exhausted(s) == sender[s].over /\ Remaining <= 0

\* Nobody is contacted on an exhausted look, and only a message brings another:
\* the sender is done.
Verdict(s) ==
    /\ sender[s].pc = "settling" /\ sender[s].owed = {}
    /\ sender' = [sender EXCEPT ![s] = IF Exhausted(s) THEN Idle ELSE Cleared(s)]
    /\ UNCHANGED <<month, plan, log, recorded, ledger, history, upsets>>

-----------------------------------------------------------------------------
(* The contact. *)

\* People contacted in a month who have, or will have, a row.
Standing(m) == {p \in People : \E i \in 1..Len(log) :
                  /\ log[i] = [who |-> p, month |-> m]
                  /\ i \in recorded \/ \E s \in Senders : sender[s].row = i}

\* Whatever else the policy engine refuses leaves the look as it is.
Send(s) ==
    /\ sender[s].pc = "cleared"
    /\ \E p \in People \ Standing(month) : log' = Append(log, [who |-> p, month |-> month])
    /\ sender' = [sender EXCEPT ![s].pc = "sent", ![s].row = Len(log) + 1]
    /\ UNCHANGED <<month, plan, recorded, ledger, history, upsets>>

\* A message to somebody the month has a row of: the first one stands for both.
FollowUp(s) ==
    /\ sender[s].pc = "cleared"
    /\ \E i \in recorded : /\ log[i].month = month
                           /\ sender' = [sender EXCEPT ![s].pc = "sent", ![s].row = i]
    /\ UNCHANGED <<month, plan, log, recorded, ledger, history, upsets>>

\* recordEmailSent and its likes: the row appears after its time was taken.
RecordSent(s) ==
    /\ sender[s].pc = "sent"
    /\ recorded' = recorded \cup {sender[s].row}
    /\ Goto(s, "again")
    /\ UNCHANGED <<month, plan, log, ledger, history, upsets>>

\* What recordEmailSent throws before its row or after it, forgetHolds or the
\* next look is caught: the pass goes on to the next card with the look it had.
GoOn(s) ==
    /\ s \in Passes
    /\ \/ sender[s].pc \in {"sent", "again"}
       \/ sender[s].pc \in {"select", "settling"} /\ sender[s].row # 0
    /\ Upset
    /\ kept' = [kept EXCEPT ![month] = @ + 1]
    /\ sender' = [sender EXCEPT ![s] = Cleared(s)]
    /\ UNCHANGED <<month, plan, log, recorded, ledger, least, most, astray>>

\* The end of a pass or of a request: nothing left to do, an error, a death.
Leave(s) ==
    /\ sender[s].pc \notin {"idle", "sent"}
    /\ sender' = [sender EXCEPT ![s] = Idle]
    /\ UNCHANGED <<month, plan, log, recorded, ledger, history, upsets>>

\* The same with a message out that has no row yet, and gets none.
Lose(s) ==
    /\ sender[s].pc = "sent"
    /\ Upset
    /\ sender' = [sender EXCEPT ![s] = Idle]
    /\ UNCHANGED <<month, plan, log, recorded, ledger, history>>

-----------------------------------------------------------------------------
(* Billing and the calendar. *)

Lower(a, b) == IF a < b THEN a ELSE b
Higher(a, b) == IF a > b THEN a ELSE b

\* Another plan, or an account that stops being active and counts as free.
ChangePlan ==
    /\ Upset
    /\ plan' \in Allowances \ {plan}
    /\ least' = [m \in Months |-> IF m < month THEN least[m] ELSE
                                  IF m = month THEN Lower(least[m], plan') ELSE plan']
    /\ most' = [m \in Months |-> IF m < month THEN most[m] ELSE
                                 IF m = month THEN Higher(most[m], plan') ELSE plan']
    /\ UNCHANGED <<month, log, recorded, ledger, sender, astray, kept>>

\* grantCredits, once a payment.
Grant ==
    /\ packs < MaxPacks
    /\ packs' = packs + 1
    /\ UNCHANGED <<month, plan, log, recorded, charges, sender, history, upsets>>

NewMonth ==
    /\ month < LastMonth
    /\ month' = month + 1
    /\ UNCHANGED <<plan, log, recorded, ledger, sender, history, upsets>>

Next ==
    \/ \E s \in Senders : \/ Look(s) \/ Select(s) \/ Charge(s) \/ Verdict(s)
                          \/ Send(s) \/ FollowUp(s) \/ RecordSent(s)
                          \/ GoOn(s) \/ Leave(s) \/ Lose(s)
    \/ ChangePlan \/ Grant \/ NewMonth

Spec == Init /\ [][Next]_vars

-----------------------------------------------------------------------------
(***************************************************************************)
(* Properties                                                              *)
(***************************************************************************)

TypeOK ==
    /\ month \in Months
    /\ plan \in Allowances
    /\ log \in Seq(Contact)
    /\ recorded \subseteq 1..Len(log)
    /\ charges \subseteq People \X Months /\ astray \subseteq charges
    /\ packs \in 0..MaxPacks
    /\ sender \in [Senders -> SenderRec]
    /\ least \in [Months -> Allowances] /\ most \in [Months -> Allowances]
    /\ kept \in [Months -> Nat]
    /\ upsets \in 0..MaxUpsets

\* Nobody is charged whom the allowance of the month covered, whatever is
\* recorded late, settled twice at once or cut short, but by a pass that
\* outlived its month (settleProspectCredits: "the allowance covers the first N
\* distinct people of the month, and everyone after them costs a credit").
CoveredIsFree ==
    \A c \in charges \ astray :
      \E i \in recorded : /\ log[i] = [who |-> c[1], month |-> c[2]]
                          /\ Cardinality({j \in recorded : j < i /\ log[j].month = c[2]}) >= least[c[2]]

\* The people contacted in a month go past its allowance and all credits ever
\* granted by no more than the senders that were racing (creditBalance: "two
\* sends racing past the last credit will both be allowed") and the looks that
\* were kept in it over a message, which no comment speaks of ("refreshed after
\* each send", autopilot says of them).
OverrunBounded ==
    \A m \in Months :
      Cardinality(Standing(m)) <= most[m] + packs * Pack + Cardinality(Senders) - 1 + kept[m]
=============================================================================
