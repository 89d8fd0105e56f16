------------------------- MODULE ReplyIntakeProofs -------------------------
(***************************************************************************)
(* What ReplyIntake promises for any number of containers, messages, cards *)
(* and upsets.  First the types, with the fact that a run or a desk that   *)
(* holds a card holds one that exists; then, while nothing excuses it,     *)
(* that one run at a time is about a message and one card an answer; that  *)
(* a stop is heard whatever overlaps; and that every triage job is used as *)
(* OneJob allows.                                                          *)
(***************************************************************************)
EXTENDS ReplyIntake, TLAPS

Statuses == {"pending", "approved", "executed", "skipped"}
Carrying == {"draft", "approve", "send", "sent", "refused", "failed"}

\* A card once held exists.
Hands ==
    /\ \A p \in Containers : work[p].pc \in Carrying => work[p].card \in Cards /\ ~Free(work[p].card)
    /\ desk.card # NoCard => desk.card \in Cards /\ ~Free(desk.card)
    /\ desk.pc = "deliver" => desk.card # NoCard

TypeInv == TypeOK /\ Hands

\* No card changes what it is about.
Kept == \A c \in Cards : /\ cards'[c] = NoCard <=> cards[c] = NoCard
                         /\ cards[c] # NoCard => /\ cards'[c].msg = cards[c].msg
                                                 /\ cards'[c].kind = cards[c].kind
CardsType == cards' \in [Cards -> Card \cup {NoCard}]

-----------------------------------------------------------------------------
(* The operations on cards. *)

LEMMA SetStatusKeeps ==
  ASSUME TypeOK, NEW c \in Cards, ~Free(c), NEW s \in Statuses, SetStatus(c, s)
  PROVE  CardsType /\ Kept
  <1>1. cards[c] \in Card
    BY DEF TypeOK, Free
  <1>2. [cards[c] EXCEPT !.status = s] \in Card
    BY <1>1 DEF Card, Statuses
  <1>3. \A d \in Cards : cards'[d] = IF d = c THEN [cards[c] EXCEPT !.status = s] ELSE cards[d]
    BY DEF SetStatus, TypeOK
  <1>4. cards' = [d \in Cards |-> IF d = c THEN [cards[c] EXCEPT !.status = s] ELSE cards[d]]
    BY DEF SetStatus, TypeOK
  <1>5. CardsType
    BY <1>2, <1>4 DEF CardsType, TypeOK
  <1>6. Kept
    BY <1>1, <1>2, <1>3, CardAssumption DEF Kept, Card, Free
  <1> QED  BY <1>5, <1>6

LEMMA ClosingKeeps ==
  ASSUME TypeOK, cards' = Closed
  PROVE  CardsType /\ Kept
  <1>1. ASSUME NEW c \in Cards, ~Free(c)
        PROVE  [cards[c] EXCEPT !.status = "skipped"] \in Card
    BY <1>1 DEF TypeOK, Free, Card
  <1>2. CardsType
    BY <1>1 DEF CardsType, Closed, TypeOK
  <1>3. ASSUME NEW c \in Cards PROVE /\ cards'[c] = NoCard <=> cards[c] = NoCard
                                     /\ cards[c] # NoCard => /\ cards'[c].msg = cards[c].msg
                                                             /\ cards'[c].kind = cards[c].kind
    <2>1. CASE Free(c)
      BY <2>1 DEF Closed, Free
    <2>2. CASE ~Free(c)
      <3>1. cards[c] \in Card
        BY <2>2 DEF TypeOK, Free
      <3> QED  BY <1>1, <2>2, <3>1, CardAssumption DEF Closed, Free, Card
    <2> QED  BY <2>1, <2>2
  <1> QED  BY <1>2, <1>3 DEF Kept

LEMMA NewKeeps ==
  ASSUME TypeOK, NEW c \in Cards, Free(c), NEW card \in Card, cards' = [cards EXCEPT ![c] = card]
  PROVE  CardsType /\ ~Free(c)' /\ \A d \in Cards \ {c} : cards'[d] = cards[d]
  BY CardAssumption DEF TypeOK, CardsType, Free

LEMMA IdleTyped == Idle \in WorkRec /\ AnyMessage \in Messages /\ Empty \in DeskRec
  BY IntakeAssumption DEF Idle, AnyMessage, Empty, WorkRec, DeskRec, Labels

\* What a person approves: a card as it is, or a new one.
LEMMA ApprovingKeeps ==
  ASSUME TypeOK, NEW c \in Cards, NEW card \in Card, Approves(c, card)
  PROVE  /\ CardsType /\ ~Free(c)' /\ \A d \in Cards \ {c} : cards'[d] = cards[d]
         /\ cards'[c].msg = card.msg /\ cards'[c].kind = card.kind
         /\ desk' \in DeskRec
         /\ desk'.card # NoCard => desk'.card = c
         /\ desk'.pc = "deliver" => desk'.card # NoCard
  <1> DEFINE new == IF ~suppressed THEN [card EXCEPT !.status = "approved"] ELSE card
  <1>1. new \in Card /\ new.msg = card.msg /\ new.kind = card.kind
    BY DEF Card
  <1>2. cards' = [cards EXCEPT ![c] = new]
    BY DEF Approves
  <1>3. CardsType /\ cards'[c] = new /\ \A d \in Cards \ {c} : cards'[d] = cards[d]
    BY <1>1, <1>2 DEF TypeOK, CardsType
  <1>4. ~Free(c)'
    BY <1>1, <1>3, CardAssumption DEF Free
  <1>5. CASE suppressed
    BY <1>1, <1>3, <1>4, <1>5, IdleTyped DEF Approves, Empty
  <1>6. CASE ~suppressed
    <2>1. desk' = [pc |-> "deliver", msg |-> card.msg, card |-> c]
      BY <1>6 DEF Approves
    <2>2. desk' \in DeskRec /\ desk'.card = c /\ c # NoCard
      BY <2>1, IntakeAssumption DEF DeskRec, Card
    <2> QED  BY <1>1, <1>3, <1>4, <2>2
  <1> QED  BY <1>5, <1>6

\* A card as it is stays what it is about.
LEMMA ApprovedKept ==
  ASSUME TypeOK, NEW c \in Cards, ~Free(c), Approves(c, cards[c])
  PROVE  Kept
  <1>1. cards[c] \in Card
    BY DEF TypeOK, Free
  <1> QED  BY <1>1, ApprovingKeeps DEF Kept, Free

\* A step of one container's work.
LEMMA WorkSteps ==
  ASSUME TypeOK, NEW p \in Containers, NEW r \in WorkRec, work' = [work EXCEPT ![p] = r]
  PROVE  /\ work' \in [Containers -> WorkRec]
         /\ work'[p] = r /\ \A q \in Containers \ {p} : work'[q] = work[q]
  BY DEF TypeOK

Pcs == {"idle", "insert", "enqueue", "label", "classify", "act", "block", "new",
        "draft", "approve", "send", "sent", "refused", "failed", "finish"}

LEMMA GotoSteps ==
  ASSUME TypeOK, NEW p \in Containers, NEW pc \in Pcs, Goto(p, pc)
  PROVE  /\ work' \in [Containers -> WorkRec]
         /\ work'[p] = [work[p] EXCEPT !.pc = pc]
         /\ work'[p].pc = pc /\ work'[p].msg = work[p].msg /\ work'[p].label = work[p].label
         /\ work'[p].bump = work[p].bump /\ work'[p].card = work[p].card
         /\ \A q \in Containers \ {p} : work'[q] = work[q]
  <1>1. work[p] \in WorkRec
    BY DEF TypeOK
  <1>2. [work[p] EXCEPT !.pc = pc] \in WorkRec
    BY <1>1 DEF WorkRec, Pcs
  <1>3. work' = [work EXCEPT ![p] = [work[p] EXCEPT !.pc = pc]]
    BY DEF Goto
  <1>4. /\ work' \in [Containers -> WorkRec]
        /\ work'[p] = [work[p] EXCEPT !.pc = pc] /\ \A q \in Containers \ {p} : work'[q] = work[q]
    BY <1>2, <1>3, WorkSteps
  <1> QED  BY <1>1, <1>4 DEF WorkRec

LEMMA LeaveSteps ==
  ASSUME TypeOK, NEW p \in Containers, Leave(p)
  PROVE  /\ work' \in [Containers -> WorkRec]
         /\ work'[p] = Idle /\ work'[p].pc = "idle"
         /\ \A q \in Containers \ {p} : work'[q] = work[q]
  BY IdleTyped, WorkSteps DEF Leave, Idle

LEMMA DoneSteps ==
  ASSUME TypeOK, NEW p \in Containers, Done(p)
  PROVE  /\ work' \in [Containers -> WorkRec]
         /\ work'[p].pc = "finish" /\ work'[p].msg = work[p].msg /\ work'[p].bump = work[p].bump
         /\ \A q \in Containers \ {p} : work'[q] = work[q]
  <1> DEFINE r == [work[p] EXCEPT !.pc = "finish", !.label = "none", !.card = NoCard]
  <1>1. r \in WorkRec /\ r.pc = "finish" /\ r.msg = work[p].msg /\ r.bump = work[p].bump
    BY ZenonT(40) DEF TypeOK, WorkRec, Labels
  <1>2. work' = [work EXCEPT ![p] = r]
    BY DEF Done
  <1> QED  BY <1>1, <1>2, WorkSteps

LEMMA DraftingSteps ==
  ASSUME TypeOK, NEW p \in Containers, NEW c \in Cards, Drafting(p, c)
  PROVE  /\ work' \in [Containers -> WorkRec]
         /\ work'[p].pc = "draft" /\ work'[p].msg = work[p].msg /\ work'[p].bump = work[p].bump
         /\ work'[p].card = c
         /\ \A q \in Containers \ {p} : work'[q] = work[q]
  <1> DEFINE r == [work[p] EXCEPT !.pc = "draft", !.label = "none", !.card = c]
  <1>1. r \in WorkRec /\ r.pc = "draft" /\ r.msg = work[p].msg /\ r.bump = work[p].bump /\ r.card = c
    BY ZenonT(40) DEF TypeOK, WorkRec, Labels
  <1>2. work' = [work EXCEPT ![p] = r]
    BY DEF Drafting
  <1> QED  BY <1>1, <1>2, WorkSteps

LEMMA SameKeeps == ASSUME TypeOK, cards' = cards PROVE CardsType /\ Kept
  BY DEF CardsType, Kept, TypeOK

\* A container that changes the cards' statuses at most leaves every hand full.
LEMMA HandsStep ==
  ASSUME TypeInv, Kept, desk' = desk, NEW p \in Containers,
         \A q \in Containers \ {p} : work'[q] = work[q],
         work'[p].pc \in Carrying => work'[p].card \in Cards /\ ~Free(work'[p].card)
  PROVE  Hands'
  <1>1. \A c \in Cards : ~Free(c) => ~Free(c)'
    BY DEF Kept, Free
  <1>2. \A q \in Containers : work'[q].pc \in Carrying => work'[q].card \in Cards /\ ~Free(work'[q].card)
    BY DEF TypeInv, Hands
  <1> QED  BY <1>1, <1>2 DEF TypeInv, Hands, Free

-----------------------------------------------------------------------------
(* Types. *)

LEMMA TypeInit == Init => TypeInv
  <1> SUFFICES ASSUME Init PROVE TypeInv
    OBVIOUS
  <1>1. TypeOK
    <2>1. /\ inbox \subseteq Messages /\ orphans \subseteq Messages /\ excused \subseteq {"overlap", "beside"}
          /\ upsets \in 0..MaxUpsets
      BY IntakeAssumption DEF Init
    <2>4. suppressed \in BOOLEAN /\ blocked \in BOOLEAN
      BY DEF Init
    <2>2. /\ label \in [Messages -> Labels]
          /\ job \in [Messages -> {"none", "pending", "running", "done", "dead"}]
          /\ cards \in [Cards -> Card \cup {NoCard}]
          /\ mailed \subseteq Cards
      BY DEF Init, Labels
    <2>3. work \in [Containers -> WorkRec] /\ desk \in DeskRec
      BY IdleTyped DEF Init
    <2> QED  BY <2>1, <2>2, <2>3, <2>4 DEF TypeOK
  <1>2. Hands
    BY DEF Init, Hands, Idle, Empty, Carrying
  <1> QED  BY <1>1, <1>2 DEF TypeInv

LEMMA PollTypes ==
  ASSUME TypeInv, NEW p \in Containers,
         (\E m \in Messages : Poll(p, m) \/ Claim(p, m)) \/ Insert(p) \/ QueueTriage(p)
  PROVE  TypeInv'
  <1>0. TypeOK /\ work[p] \in WorkRec
    BY DEF TypeInv, TypeOK
  <1>1. ASSUME NEW m \in Messages, Poll(p, m) PROVE TypeInv'
    <2> DEFINE r == [Idle EXCEPT !.pc = "insert", !.msg = m]
    <2>1. r \in WorkRec /\ r.pc \notin Carrying
      BY IdleTyped DEF WorkRec, Idle, Carrying
    <2>2. work' \in [Containers -> WorkRec] /\ work'[p] = r /\ \A q \in Containers \ {p} : work'[q] = work[q]
      BY <1>0, <1>1, <2>1, WorkSteps DEF Poll
    <2>3. Hands'
      BY <1>0, <1>1, <2>1, <2>2, SameKeeps, HandsStep DEF Poll
    <2> QED  BY <1>1, <2>2, <2>3 DEF Poll, TypeInv, TypeOK, optOut, past
  <1>2. ASSUME NEW m \in Messages, Claim(p, m) PROVE TypeInv'
    <2> DEFINE r == [Idle EXCEPT !.pc = "label", !.msg = m]
    <2>1. r \in WorkRec /\ r.pc \notin Carrying
      BY IdleTyped DEF WorkRec, Idle, Carrying
    <2>2. work' \in [Containers -> WorkRec] /\ work'[p] = r /\ \A q \in Containers \ {p} : work'[q] = work[q]
      BY <1>0, <1>2, <2>1, WorkSteps DEF Claim
    <2>3. Hands'
      BY <1>0, <1>2, <2>1, <2>2, SameKeeps, HandsStep DEF Claim
    <2> QED  BY <1>2, <2>2, <2>3 DEF Claim, TypeInv, TypeOK, optOut, past
  <1>3. CASE Insert(p)
    <2>1. work' \in [Containers -> WorkRec] /\ work'[p].pc \notin Carrying
          /\ \A q \in Containers \ {p} : work'[q] = work[q]
      BY <1>0, <1>3, GotoSteps, LeaveSteps DEF Insert, Carrying, Pcs
    <2>2. Hands'
      BY <1>0, <1>3, <2>1, SameKeeps, HandsStep DEF Insert
    <2>3. label' \in [Messages -> Labels]
      BY <1>0, <1>3 DEF Insert, TypeOK, Labels
    <2> QED  BY <1>3, <2>1, <2>2, <2>3 DEF Insert, TypeInv, TypeOK, optOut, past
  <1>4. CASE QueueTriage(p)
    <2>1. work' \in [Containers -> WorkRec] /\ work'[p].pc \notin Carrying
          /\ \A q \in Containers \ {p} : work'[q] = work[q]
      BY <1>0, <1>4, LeaveSteps DEF QueueTriage, Carrying
    <2>2. Hands'
      BY <1>0, <1>4, <2>1, SameKeeps, HandsStep DEF QueueTriage
    <2> QED  BY <1>4, <2>1, <2>2 DEF QueueTriage, TypeInv, TypeOK, optOut, past
  <1> QED  BY <1>1, <1>2, <1>3, <1>4

LEMMA LabelTypes ==
  ASSUME TypeInv, NEW p \in Containers,
         ReadLabel(p) \/ Classify(p) \/ Honour(p) \/ Block(p) \/ Evaluate(p)
  PROVE  TypeInv'
  <1>0. TypeOK /\ work[p] \in WorkRec
    BY DEF TypeInv, TypeOK
  <1>1. CASE ReadLabel(p)
    <2> DEFINE r == [work[p] EXCEPT !.pc = "act", !.label = label[work[p].msg]]
    <2>1. r \in WorkRec /\ r.pc = "act"
      BY <1>0 DEF WorkRec, TypeOK
    <2>2. work' = [work EXCEPT ![p] = r] \/ Goto(p, "classify")
      BY <1>0, <1>1 DEF ReadLabel, TypeOK
    <2>3. work' \in [Containers -> WorkRec] /\ work'[p].pc \notin Carrying
          /\ \A q \in Containers \ {p} : work'[q] = work[q]
      BY <1>0, <2>1, <2>2, WorkSteps, GotoSteps DEF Carrying, Pcs
    <2>4. Hands'
      BY <1>0, <1>1, <2>3, SameKeeps, HandsStep DEF ReadLabel
    <2> QED  BY <1>1, <2>3, <2>4 DEF ReadLabel, TypeInv, TypeOK, optOut, past
  <1>2. CASE Classify(p)
    <2>1. PICK l \in {"maybe_stop", "answerable", "other", "unclassified"} :
            /\ label' = [label EXCEPT ![work[p].msg] = l]
            /\ work' = [work EXCEPT ![p].pc = "act", ![p].label = l]
      BY <1>2 DEF Classify
    <2> DEFINE r == [work[p] EXCEPT !.pc = "act", !.label = l]
    <2>2. r \in WorkRec /\ r.pc \notin Carrying
      BY <1>0 DEF WorkRec, Labels, Carrying
    <2>6. work' = [work EXCEPT ![p] = r]
      BY <1>0, <2>1 DEF TypeOK
    <2>3. work' \in [Containers -> WorkRec] /\ work'[p] = r /\ \A q \in Containers \ {p} : work'[q] = work[q]
      BY <1>0, <2>6, <2>2, WorkSteps
    <2>4. Hands'
      BY <1>0, <1>2, <2>2, <2>3, SameKeeps, HandsStep DEF Classify
    <2>5. label' \in [Messages -> Labels]
      BY <1>0, <2>1 DEF TypeOK, Labels
    <2> QED  BY <1>2, <2>3, <2>4, <2>5 DEF Classify, TypeInv, TypeOK, optOut, past
  <1>3. CASE Honour(p)
    <2>1. CardsType /\ Kept
      BY <1>0, <1>3, ClosingKeeps DEF Honour, Suppressing
    <2>2. work' \in [Containers -> WorkRec] /\ work'[p].pc \notin Carrying
          /\ \A q \in Containers \ {p} : work'[q] = work[q]
      BY <1>0, <1>3, GotoSteps DEF Honour, Carrying, Pcs
    <2>3. Hands'
      BY <1>3, <2>1, <2>2, HandsStep DEF Honour
    <2> QED  BY <1>3, <2>1, <2>2, <2>3 DEF Honour, Suppressing, CardsType, TypeInv, TypeOK, optOut, past
  <1>4. CASE Block(p)
    <2>1. work' \in [Containers -> WorkRec] /\ work'[p].pc \notin Carrying
          /\ \A q \in Containers \ {p} : work'[q] = work[q]
      BY <1>0, <1>4, DoneSteps DEF Block, Carrying
    <2>2. Hands'
      BY <1>0, <1>4, <2>1, SameKeeps, HandsStep DEF Block
    <2> QED  BY <1>4, <2>1, <2>2 DEF Block, TypeInv, TypeOK, past
  <1>5. CASE Evaluate(p)
    <2>1. Done(p) \/ Goto(p, "approve")
      BY <1>5 DEF Evaluate
    <2>2. /\ work' \in [Containers -> WorkRec] /\ \A q \in Containers \ {p} : work'[q] = work[q]
          /\ work'[p].pc \in Carrying => work'[p].card = work[p].card
      BY <1>0, <2>1, GotoSteps, DoneSteps DEF Pcs, Carrying
    <2>3. work[p].card \in Cards /\ ~Free(work[p].card)
      BY <1>5 DEF Evaluate, At, TypeInv, Hands, Carrying
    <2>4. Hands'
      BY <1>0, <1>5, <2>2, <2>3, SameKeeps, HandsStep DEF Evaluate, Free
    <2> QED  BY <1>5, <2>2, <2>4 DEF Evaluate, TypeInv, TypeOK, optOut, past
  <1> QED  BY <1>1, <1>2, <1>3, <1>4, <1>5

LEMMA CardTypes ==
  ASSUME TypeInv, NEW p \in Containers, FindCard(p) \/ NewCard(p)
  PROVE  TypeInv'
  <1>0. TypeOK /\ work[p] \in WorkRec
    BY DEF TypeInv, TypeOK
  <1>1. CASE FindCard(p)
    <2>1. CASE Done(p) \/ Goto(p, "new")
      <3>1. work' \in [Containers -> WorkRec] /\ work'[p].pc \notin Carrying
            /\ \A q \in Containers \ {p} : work'[q] = work[q]
        BY <1>0, <2>1, GotoSteps, DoneSteps DEF Carrying, Pcs
      <3>2. Hands'
        BY <1>0, <1>1, <3>1, SameKeeps, HandsStep DEF FindCard
      <3> QED  BY <1>1, <3>1, <3>2 DEF FindCard, TypeInv, TypeOK, optOut, past
    <2>2. CASE \E c \in ReplyCardFor(work[p].msg) : Drafting(p, c)
      <3>1. PICK c \in ReplyCardFor(work[p].msg) : Drafting(p, c)
        BY <2>2
      <3>2. c \in Cards /\ ~Free(c)
        BY DEF ReplyCardFor, About, Free
      <3>3. work' \in [Containers -> WorkRec] /\ work'[p].card = c
            /\ \A q \in Containers \ {p} : work'[q] = work[q]
        BY <1>0, <3>1, <3>2, DraftingSteps
      <3>4. work'[p].card \in Cards /\ ~Free(work'[p].card)
        BY <3>2, <3>3 DEF Free
      <3>5. Kept /\ desk' = desk
        BY <1>0, <1>1, SameKeeps DEF FindCard
      <3>6. Hands'
        BY <3>3, <3>4, <3>5, HandsStep
      <3> QED  BY <1>1, <3>3, <3>6 DEF FindCard, TypeInv, TypeOK, optOut, past
    <2> QED  BY <1>1, <2>1, <2>2 DEF FindCard
  <1>2. CASE NewCard(p)
    <2> DEFINE new == [msg |-> work[p].msg, kind |-> KindOf(p), status |-> "pending"]
    <2>1. PICK c \in Cards : /\ Free(c) /\ cards' = [cards EXCEPT ![c] = new]
                             /\ Done(p) \/ Drafting(p, c)
      BY <1>2 DEF NewCard
    <2>2. new \in Card
      BY <1>0 DEF Card, KindOf, WorkRec
    <2>3. CardsType /\ ~Free(c)' /\ \A d \in Cards \ {c} : cards'[d] = cards[d]
      BY <1>0, <2>1, <2>2, NewKeeps
    <2>4. /\ work' \in [Containers -> WorkRec] /\ \A q \in Containers \ {p} : work'[q] = work[q]
          /\ work'[p].pc \in Carrying => work'[p].card = c
      BY <1>0, <2>1, DoneSteps, DraftingSteps DEF Carrying
    <2>5. \A d \in Cards : ~Free(d) => ~Free(d)'
      BY <2>3 DEF Free
    <2>6. Hands'
      <3>1. \A q \in Containers : work'[q].pc \in Carrying => work'[q].card \in Cards /\ cards'[work'[q].card] # NoCard
        BY <2>3, <2>4, <2>5 DEF TypeInv, Hands, Free
      <3>2. desk' = desk
        BY <1>2 DEF NewCard
      <3> QED  BY <2>5, <3>1, <3>2 DEF TypeInv, Hands, Free
    <2> QED  BY <1>2, <2>3, <2>4, <2>6 DEF NewCard, CardsType, TypeInv, TypeOK, optOut, past
  <1> QED  BY <1>1, <1>2

LEMMA SendTypes ==
  ASSUME TypeInv, NEW p \in Containers,
         Approve(p) \/ Send(p) \/ MarkExecuted(p) \/ Refused(p) \/ BackToPending(p) \/ Finish(p)
  PROVE  TypeInv'
  <1>0. TypeOK /\ work[p] \in WorkRec
    BY DEF TypeInv, TypeOK
  <1>1. ASSUME work[p].pc \in Carrying PROVE work[p].card \in Cards /\ ~Free(work[p].card)
    BY <1>1 DEF TypeInv, Hands
  <1>2. ASSUME NEW pc \in Pcs, Goto(p, pc), work[p].pc \in Carrying, Kept, desk' = desk
        PROVE  Hands' /\ work' \in [Containers -> WorkRec]
    BY <1>0, <1>1, <1>2, GotoSteps, HandsStep
  <1>10. ASSUME Done(p), Kept, desk' = desk PROVE Hands' /\ work' \in [Containers -> WorkRec]
    BY <1>0, <1>10, DoneSteps, HandsStep DEF Carrying
  <1>3. ASSUME NEW s \in Statuses, SetStatus(work[p].card, s), work[p].pc \in Carrying
        PROVE  CardsType /\ Kept
    BY <1>0, <1>1, <1>3, SetStatusKeeps
  <1>4. CASE Approve(p)
    <2>1. work[p].pc \in Carrying
      BY <1>4 DEF Approve, At, Carrying
    <2>2. CardsType /\ Kept
      BY <1>3, <1>4, <2>1 DEF Approve, Statuses
    <2>3. Hands' /\ work' \in [Containers -> WorkRec]
      BY <1>2, <1>4, <2>1, <2>2 DEF Approve, Pcs
    <2> QED  BY <1>4, <2>2, <2>3 DEF Approve, CardsType, TypeInv, TypeOK, optOut, past
  <1>5. CASE Send(p)
    <2>1. work[p].pc \in Carrying
      BY <1>5 DEF Send, At, Carrying
    <2>2. PICK pc \in Pcs : Goto(p, pc)
      BY <1>5 DEF Send, Pcs
    <2>3. Kept
      BY <1>0, <1>5, SameKeeps DEF Send
    <2>4. Hands' /\ work' \in [Containers -> WorkRec]
      BY <1>2, <1>5, <2>1, <2>2, <2>3 DEF Send
    <2>5. mailed' \subseteq Cards
      BY <1>0, <1>1, <1>5, <2>1 DEF Send, Out, TypeOK
    <2> QED  BY <1>5, <2>4, <2>5 DEF Send, TypeInv, TypeOK, optOut, past
  <1>6. CASE MarkExecuted(p)
    <2>1. work[p].pc \in Carrying
      BY <1>6 DEF MarkExecuted, At, Carrying
    <2>2. CardsType /\ Kept
      BY <1>3, <1>6, <2>1 DEF MarkExecuted, Statuses
    <2>3. Hands' /\ work' \in [Containers -> WorkRec]
      BY <1>10, <1>6, <2>2 DEF MarkExecuted
    <2> QED  BY <1>6, <2>2, <2>3 DEF MarkExecuted, CardsType, TypeInv, TypeOK, optOut, past
  <1>7. CASE Refused(p)
    <2>1. work[p].pc \in Carrying
      BY <1>7 DEF Refused, At, Carrying
    <2>2. CardsType /\ Kept
      BY <1>0, <1>7, ClosingKeeps DEF Refused, Suppressing
    <2>3. Hands' /\ work' \in [Containers -> WorkRec]
      BY <1>2, <1>7, <2>1, <2>2 DEF Refused, Pcs
    <2> QED  BY <1>7, <2>2, <2>3 DEF Refused, Suppressing, CardsType, TypeInv, TypeOK, optOut, past
  <1>8. CASE BackToPending(p)
    <2>1. work[p].pc \in Carrying
      BY <1>8 DEF BackToPending, At, Carrying
    <2>2. CardsType /\ Kept
      BY <1>3, <1>8, <2>1 DEF BackToPending, Statuses
    <2>3. Hands' /\ work' \in [Containers -> WorkRec]
      BY <1>10, <1>8, <2>2 DEF BackToPending
    <2> QED  BY <1>8, <2>2, <2>3 DEF BackToPending, CardsType, TypeInv, TypeOK, optOut, past
  <1>9. CASE Finish(p)
    <2>1. work' \in [Containers -> WorkRec] /\ work'[p].pc \notin Carrying
          /\ \A q \in Containers \ {p} : work'[q] = work[q]
      BY <1>0, <1>9, LeaveSteps DEF Finish, Carrying
    <2>2. Hands'
      BY <1>0, <1>9, <2>1, SameKeeps, HandsStep DEF Finish
    <2>3. job' \in [Messages -> {"none", "pending", "running", "done", "dead"}]
      BY <1>0, <1>9 DEF Finish, Settle, TypeOK
    <2> QED  BY <1>9, <2>1, <2>2, <2>3 DEF Finish, TypeInv, TypeOK, optOut, past
  <1> QED  BY <1>4, <1>5, <1>6, <1>7, <1>8, <1>9

LEMMA FaultTypes ==
  ASSUME TypeInv, NEW p \in Containers, Throw(p) \/ Crash(p) \/ \E m \in Messages : Bump(p, m)
  PROVE  TypeInv'
  <1>0. TypeOK /\ work[p] \in WorkRec
    BY DEF TypeInv, TypeOK
  <1>1. Upset => upsets' \in 0..MaxUpsets
    BY <1>0, IntakeAssumption DEF Upset, TypeOK
  <1>2. Orphaned(p) => orphans' \subseteq Messages
    BY <1>0 DEF Orphaned, TypeOK, WorkRec
  <1>3. CASE Throw(p) /\ At(p, "sent") /\ Goto(p, "failed") /\ UNCHANGED <<job, orphans>>
    <2>1. work[p].card \in Cards /\ ~Free(work[p].card)
      BY <1>3 DEF At, Carrying, TypeInv, Hands
    <2>2. /\ work' \in [Containers -> WorkRec] /\ work'[p].card = work[p].card
          /\ \A q \in Containers \ {p} : work'[q] = work[q]
      BY <1>0, <1>3, GotoSteps DEF Pcs
    <2>3. Hands'
      BY <1>0, <1>3, <2>1, <2>2, SameKeeps, HandsStep DEF Throw
    <2> QED  BY <1>1, <1>3, <2>2, <2>3 DEF Throw, TypeInv, TypeOK, optOut
  <1>4. CASE Throw(p) /\ ~At(p, "sent") /\ Orphaned(p) /\ Leave(p)
    <2>1. work' \in [Containers -> WorkRec] /\ work'[p].pc \notin Carrying
          /\ \A q \in Containers \ {p} : work'[q] = work[q]
      BY <1>0, <1>4, LeaveSteps DEF Carrying
    <2>2. Hands'
      BY <1>0, <1>4, <2>1, SameKeeps, HandsStep DEF Throw
    <2>3. job' = job \/ Settle(p, "pending") \/ Settle(p, "dead")
      BY <1>4 DEF Throw
    <2>4. job' \in [Messages -> {"none", "pending", "running", "done", "dead"}]
      BY <1>0, <2>3 DEF Settle, TypeOK
    <2> QED  BY <1>1, <1>2, <1>4, <2>1, <2>2, <2>4 DEF Throw, TypeInv, TypeOK, optOut
  <1>5. CASE Crash(p)
    <2>1. work' \in [Containers -> WorkRec] /\ work'[p].pc \notin Carrying
          /\ \A q \in Containers \ {p} : work'[q] = work[q]
      BY <1>0, <1>5, LeaveSteps DEF Crash, Carrying
    <2>2. Hands'
      BY <1>0, <1>5, <2>1, SameKeeps, HandsStep DEF Crash
    <2> QED  BY <1>1, <1>2, <1>5, <2>1, <2>2 DEF Crash, TypeInv, TypeOK, optOut
  <1>6. ASSUME NEW m \in Messages, Bump(p, m) PROVE TypeInv'
    <2> DEFINE r == [Idle EXCEPT !.pc = "new", !.msg = m, !.bump = TRUE]
    <2>1. r \in WorkRec /\ r.pc \notin Carrying
      BY IdleTyped DEF WorkRec, Idle, Labels, Carrying
    <2>2. work' \in [Containers -> WorkRec] /\ work'[p] = r /\ \A q \in Containers \ {p} : work'[q] = work[q]
      BY <1>0, <1>6, <2>1, WorkSteps DEF Bump
    <2>3. Hands'
      BY <1>0, <1>6, <2>1, <2>2, SameKeeps, HandsStep DEF Bump
    <2> QED  BY <1>6, <2>2, <2>3 DEF Bump, TypeInv, TypeOK, optOut, past
  <1>7. Throw(p) => \/ At(p, "sent") /\ Goto(p, "failed") /\ UNCHANGED <<job, orphans>>
                    \/ ~At(p, "sent") /\ Orphaned(p) /\ Leave(p)
    BY DEF Throw
  <1> QED  BY <1>3, <1>4, <1>5, <1>6, <1>7

LEMMA PeopleTypes ==
  ASSUME TypeInv,
         \/ \E m \in Messages : Arrive(m) \/ Reclaim(m) \/ Compose(m)
         \/ \E c \in Cards : Skip(c) \/ ApproveByHand(c)
         \/ WriteReply \/ Deliver
  PROVE  TypeInv'
  <1>0. TypeOK
    BY DEF TypeInv
  <1>1. ASSUME work' = work, desk' = desk, Kept PROVE Hands'
    BY <1>1 DEF TypeInv, Hands, Kept, Free
  <1>9. Upset => upsets' \in 0..MaxUpsets
    BY <1>0, IntakeAssumption DEF Upset, TypeOK
  <1>2. ASSUME NEW m \in Messages, Arrive(m) PROVE TypeInv'
    <2>1. Hands'
      BY <1>0, <1>1, <1>2, SameKeeps DEF Arrive
    <2> QED  BY <1>2, <2>1 DEF Arrive, TypeInv, TypeOK, optOut, past
  <1>3. ASSUME NEW m \in Messages, Reclaim(m) PROVE TypeInv'
    <2>1. Hands'
      BY <1>0, <1>1, <1>3, SameKeeps DEF Reclaim
    <2>2. upsets' \in 0..MaxUpsets
      BY <1>0, <1>3, IntakeAssumption DEF Reclaim, Upset, TypeOK
    <2>3. excused' \subseteq {"overlap", "beside"}
      BY <1>0, <1>3 DEF Reclaim, TypeOK
    <2> QED  BY <1>3, <2>1, <2>2, <2>3 DEF Reclaim, TypeInv, TypeOK, optOut
  <1>4. ASSUME NEW m \in Messages, Compose(m) PROVE TypeInv'
    <2>1. desk'.pc = "write" /\ (desk'.card # NoCard => desk'.card \in Cards /\ ~Free(desk'.card))
      BY <1>4 DEF Compose, About, Free
    <2>2. desk' \in DeskRec
      BY <1>4 DEF Compose, DeskRec
    <2>3. Hands'
      BY <1>4, <2>1 DEF Compose, TypeInv, Hands, Free
    <2> QED  BY <1>4, <1>9, <2>2, <2>3 DEF Compose, TypeInv, TypeOK, optOut
  <1>5. ASSUME NEW c \in Cards, Skip(c) PROVE TypeInv'
    <2>1. CardsType /\ Kept
      BY <1>0, <1>5, SetStatusKeeps DEF Skip, Statuses
    <2>2. Hands'
      BY <1>1, <1>5, <2>1 DEF Skip
    <2> QED  BY <1>5, <1>9, <2>1, <2>2 DEF Skip, CardsType, TypeInv, TypeOK, optOut
  <1>6. ASSUME NEW c \in Cards, ApproveByHand(c) PROVE TypeInv'
    <2>1. cards[c] \in Card /\ ~Free(c) /\ Approves(c, cards[c]) /\ work' = work
      BY <1>0, <1>6 DEF ApproveByHand, TypeOK, Free
    <2>2. CardsType /\ Kept /\ ~Free(c)'
      BY <1>0, <2>1, ApprovingKeeps, ApprovedKept
    <2>3. /\ desk' \in DeskRec /\ (desk'.card # NoCard => desk'.card = c)
          /\ desk'.pc = "deliver" => desk'.card # NoCard
      BY <1>0, <2>1, ApprovingKeeps
    <2>4. Hands'
      BY <2>1, <2>2, <2>3 DEF TypeInv, Hands, Kept, Free
    <2> QED  BY <1>6, <1>9, <2>2, <2>3, <2>4 DEF ApproveByHand, CardsType, TypeInv, TypeOK, optOut
  <1>7. CASE WriteReply
    <2>2. excused' \subseteq {"overlap", "beside"}
      BY <1>0, <1>7 DEF WriteReply, TypeOK
    <2>3. CASE desk.card # NoCard
      <3>1. /\ desk.card \in Cards /\ ~Free(desk.card) /\ cards[desk.card] \in Card
            /\ Approves(desk.card, cards[desk.card]) /\ work' = work
        BY <1>0, <1>7, <2>3 DEF WriteReply, TypeInv, Hands, TypeOK, Free
      <3>2. CardsType /\ Kept /\ cards'[desk.card] # NoCard
        BY <1>0, <3>1, ApprovingKeeps, ApprovedKept DEF Free
      <3>3. /\ desk' \in DeskRec /\ (desk'.card # NoCard => desk'.card = desk.card)
            /\ desk'.pc = "deliver" => desk'.card # NoCard
        BY <1>0, <3>1, ApprovingKeeps
      <3>4. Hands'
        BY <3>1, <3>2, <3>3 DEF TypeInv, Hands, Kept, Free
      <3> QED  BY <1>7, <2>2, <3>2, <3>3, <3>4 DEF WriteReply, CardsType, TypeInv, TypeOK, optOut
    <2>4. CASE desk.card = NoCard
      <3> DEFINE new == [msg |-> desk.msg, kind |-> "answer", status |-> "skipped"]
      <3>1. PICK c \in Cards : Free(c) /\ Approves(c, new)
        BY <1>7, <2>4 DEF WriteReply
      <3>2. new \in Card
        BY <1>0 DEF Card, TypeOK, DeskRec
      <3>3. CardsType /\ ~Free(c)' /\ \A d \in Cards \ {c} : cards'[d] = cards[d]
        BY <1>0, <3>1, <3>2, ApprovingKeeps
      <3>4. /\ desk' \in DeskRec /\ (desk'.card # NoCard => desk'.card = c)
            /\ desk'.pc = "deliver" => desk'.card # NoCard
        BY <1>0, <3>1, <3>2, ApprovingKeeps
      <3>5. work' = work
        BY <1>7 DEF WriteReply
      <3>6. Hands'
        BY <3>3, <3>4, <3>5 DEF TypeInv, Hands, Free
      <3> QED  BY <1>7, <2>2, <3>3, <3>4, <3>6 DEF WriteReply, CardsType, TypeInv, TypeOK, optOut
    <2> QED  BY <2>3, <2>4
  <1>8. CASE Deliver
    <2>1. desk.card \in Cards /\ ~Free(desk.card)
      BY <1>8 DEF Deliver, TypeInv, Hands
    <2>2. CardsType /\ Kept
      <3>1. \/ SetStatus(desk.card, "executed") \/ cards' = cards \/ cards' = Closed
        BY <1>8 DEF Deliver, Suppressing
      <3> QED  BY <1>0, <2>1, <3>1, SetStatusKeeps, SameKeeps, ClosingKeeps DEF Statuses
    <2>3. mailed' \subseteq Cards /\ suppressed' \in BOOLEAN /\ blocked' \in BOOLEAN
      BY <1>0, <1>8, <2>1 DEF Deliver, Out, Suppressing, TypeOK
    <2>4. desk' = Empty /\ Empty \in DeskRec /\ work' = work
      BY <1>8, IdleTyped DEF Deliver
    <2>5. Hands'
      BY <2>2, <2>4 DEF TypeInv, Hands, Kept, Free, Empty
    <2> QED  BY <1>8, <2>2, <2>3, <2>4, <2>5 DEF Deliver, CardsType, TypeInv, TypeOK, past
  <1> QED  BY <1>2, <1>3, <1>4, <1>5, <1>6, <1>7, <1>8

LEMMA TypeStep == TypeInv /\ [Next]_vars => TypeInv'
  <1> SUFFICES ASSUME TypeInv, [Next]_vars PROVE TypeInv'
    OBVIOUS
  <1>1. ASSUME NEW p \in Containers, Run(p) PROVE TypeInv'
    BY <1>1, PollTypes, LabelTypes, CardTypes, SendTypes DEF Run
  <1>2. CASE UNCHANGED vars
    BY <1>2 DEF vars, TypeInv, TypeOK, Hands, Free
  <1> QED  BY <1>1, <1>2, FaultTypes, PeopleTypes DEF Next

\* The rows, the runs and the desk are of their types.
THEOREM TypeCorrect == Spec => []TypeOK
  <1>1. TypeInv => TypeOK
    BY DEF TypeInv
  <1> QED  BY <1>1, TypeInit, TypeStep, PTL DEF Spec

-----------------------------------------------------------------------------
(* One run at a time, and one card. *)

\* Until a message is recorded nobody is about it, and until its job is queued
\* only the poll that recorded it.
QueuedOnce ==
    \A m \in Messages, p \in Containers :
      /\ label[m] = "absent" =>
           job[m] = "none" /\ ~Triaging(p, m) /\ ~(At(p, "enqueue") /\ work[p].msg = m)
      /\ At(p, "enqueue") /\ work[p].msg = m =>
           /\ job[m] = "none"
           /\ \A q \in Containers : ~Triaging(q, m) /\ (At(q, "enqueue") /\ work[q].msg = m => q = p)

\* A run's job is running, and no two runs are about one message.
OneRun ==
    \A m \in Messages, p \in Containers : Triaging(p, m) =>
      job[m] = "running" /\ \A q \in Containers : Triaging(q, m) => q = p

\* A run that is about to insert a card has found none about its message, and
\* there are no two, bumps apart.
Alike(p, c) == ~work[p].bump /\ Answers(c, work[p].msg)
OneCard ==
    /\ \A p \in Containers, c \in Cards : At(p, "new") => ~Alike(p, c)
    /\ \A c, d \in Cards : SameQuestion(c, d) => c = d

\* A bump has neither label nor job: it starts at its card.
Late == Carrying \cup {"new", "finish"}
Bumping == \A p \in Containers : work[p].bump => work[p].pc \in Late

OneInv == /\ QueuedOnce
          /\ "overlap" \notin excused => OneRun
          /\ excused = {} => OneCard
Inv == TypeInv /\ Bumping /\ OneInv

LEMMA BumpingStep == TypeInv /\ Bumping /\ [Next]_vars => Bumping'
  <1> SUFFICES ASSUME TypeInv, Bumping, [Next]_vars PROVE Bumping'
    OBVIOUS
  <1>0. TypeOK /\ \A p \in Containers : work[p] \in WorkRec
    BY DEF TypeInv, TypeOK
  <1>1. ASSUME NEW p \in Containers, NEW pc \in Pcs, Goto(p, pc), pc \in Late \/ work[p].pc \notin Late
        PROVE  Bumping'
    <2>1. /\ work'[p].pc = pc /\ work'[p].bump = work[p].bump
          /\ \A q \in Containers \ {p} : work'[q] = work[q]
      BY <1>0, <1>1, GotoSteps
    <2>2. work'[p].bump => work'[p].pc \in Late
      BY <1>1, <2>1 DEF Bumping
    <2> QED  BY <2>1, <2>2 DEF Bumping
  <1>2. ASSUME NEW p \in Containers, Leave(p) \/ Done(p) \/ \E c \in Cards : Drafting(p, c) PROVE Bumping'
    BY <1>0, <1>2, LeaveSteps, DoneSteps, DraftingSteps DEF Bumping, Idle, Late, Carrying
  <1>3. ASSUME NEW p \in Containers, NEW r \in WorkRec, work' = [work EXCEPT ![p] = r],
               ~r.bump \/ r.pc \in Late
        PROVE  Bumping'
    BY <1>0, <1>3, WorkSteps DEF Bumping
  <1>4. ASSUME NEW p \in Containers, NEW m \in Messages, Poll(p, m) \/ Claim(p, m) \/ Bump(p, m)
        PROVE  Bumping'
    <2> DEFINE r1 == [Idle EXCEPT !.pc = "insert", !.msg = m]
               r2 == [Idle EXCEPT !.pc = "label", !.msg = m]
               r3 == [Idle EXCEPT !.pc = "new", !.msg = m, !.bump = TRUE]
    <2>1. r1 \in WorkRec /\ r2 \in WorkRec /\ r3 \in WorkRec /\ ~r1.bump /\ ~r2.bump /\ r3.pc \in Late
      BY IdleTyped DEF WorkRec, Idle, Labels, Late
    <2>2. work' = [work EXCEPT ![p] = r1] \/ work' = [work EXCEPT ![p] = r2] \/ work' = [work EXCEPT ![p] = r3]
      BY <1>4 DEF Poll, Claim, Bump
    <2> QED  BY <1>3, <2>1, <2>2
  <1>5. ASSUME NEW p \in Containers, ReadLabel(p) \/ Classify(p) PROVE Bumping'
    <2>1. work[p].pc \notin Late
      BY <1>5 DEF ReadLabel, Classify, At, Late, Carrying
    <2>2. \/ Goto(p, "classify")
          \/ \E l \in Labels : work' = [work EXCEPT ![p].pc = "act", ![p].label = l]
      BY <1>0, <1>5 DEF ReadLabel, Classify, Labels, TypeOK, WorkRec
    <2>3. ASSUME NEW l \in Labels, work' = [work EXCEPT ![p].pc = "act", ![p].label = l] PROVE Bumping'
      <3> DEFINE r == [work[p] EXCEPT !.pc = "act", !.label = l]
      <3>1. r \in WorkRec /\ r.bump = work[p].bump
        BY <1>0 DEF WorkRec
      <3>2. work' = [work EXCEPT ![p] = r]
        BY <1>0, <2>3 DEF TypeOK
      <3> QED  BY <1>3, <2>1, <3>1, <3>2 DEF Bumping
    <2> QED  BY <1>1, <2>1, <2>2, <2>3 DEF Pcs
  <1>6. ASSUME NEW p \in Containers, FindCard(p) \/ NewCard(p) PROVE Bumping'
    <2>1. Done(p) \/ Goto(p, "new") \/ \E c \in Cards : Drafting(p, c)
      BY <1>6 DEF FindCard, NewCard, ReplyCardFor, About
    <2> QED  BY <1>1, <1>2, <2>1 DEF Late, Pcs
  <1>8. ASSUME NEW p \in Containers,
               \/ Insert(p) \/ QueueTriage(p) \/ Honour(p) \/ Block(p) \/ Evaluate(p) \/ Finish(p)
               \/ Approve(p) \/ Send(p) \/ MarkExecuted(p) \/ Refused(p) \/ BackToPending(p)
               \/ Throw(p) \/ Crash(p)
        PROVE  Bumping'
    <2>1. \/ Leave(p) \/ Done(p)
          \/ \E pc \in Pcs : Goto(p, pc) /\ (pc \in Late \/ work[p].pc \notin Late)
      BY <1>8 DEF Insert, QueueTriage, Honour, Block, Evaluate, Finish, Approve, Send, MarkExecuted, Refused,
                  BackToPending, Throw, Crash, At, Pcs, Late, Carrying
    <2> QED  BY <1>1, <1>2, <2>1
  <1>9. ASSUME work' = work PROVE Bumping'
    BY <1>9 DEF Bumping
  <1>10. ASSUME NEW p \in Containers, Run(p) PROVE Bumping'
    BY <1>4, <1>5, <1>6, <1>8, <1>10 DEF Run
  <1>11. CASE \/ \E m \in Messages : Arrive(m) \/ Reclaim(m) \/ Compose(m)
              \/ \E c \in Cards : Skip(c) \/ ApproveByHand(c)
              \/ WriteReply \/ Deliver \/ UNCHANGED vars
    BY <1>9, <1>11 DEF Arrive, Reclaim, Compose, Skip, ApproveByHand, WriteReply, Deliver, vars
  <1> QED  BY <1>4, <1>8, <1>10, <1>11 DEF Next

LEMMA OneInit == Init => Bumping /\ OneInv
  BY DEF Init, Bumping, OneInv, QueuedOnce, OneRun, OneCard, Triaging, At, Idle, Alike, SameQuestion, Answers, Free

\* The steps of a run between its start and its end, and all that do not look at
\* jobs: one container goes on with what it was about, or leaves it.
LEMMA GoingOn ==
  ASSUME Inv, NEW p \in Containers, job' = job, excused' = excused, Kept,
         \A m \in Messages : label'[m] = "absent" <=> label[m] = "absent",
         \A q \in Containers \ {p} : work'[q] = work[q],
         \/ work'[p].pc \in {"idle", "insert"}
         \/ /\ work[p].pc \notin {"idle", "insert", "enqueue"}
            /\ work'[p].pc \notin {"enqueue", "new"}
            /\ work'[p].msg = work[p].msg /\ work'[p].bump = work[p].bump
  PROVE  OneInv'
  <1>1. \A q \in Containers, m \in Messages : Triaging(q, m)' => Triaging(q, m) /\ work'[q].bump = work[q].bump
    BY DEF Triaging
  <1>2. \A q \in Containers : At(q, "enqueue")' => At(q, "enqueue") /\ work'[q] = work[q]
    BY DEF At
  <1>3. \A q \in Containers : At(q, "new")' => At(q, "new") /\ work'[q] = work[q]
    BY DEF At
  <1>4. QueuedOnce'
    BY <1>1, <1>2 DEF Inv, OneInv, QueuedOnce
  <1>5. "overlap" \notin excused' => OneRun'
    BY <1>1 DEF Inv, OneInv, OneRun, Over
  <1>6. excused' = {} => OneCard'
    <2>1. \A q \in Containers, c \in Cards : At(q, "new")' /\ Alike(q, c)' => Alike(q, c)
      BY <1>3 DEF Alike, Answers, Free, Kept
    <2>2. \A c, d \in Cards : SameQuestion(c, d)' => SameQuestion(c, d)
      BY DEF SameQuestion, Answers, Free, Kept
    <2> QED  BY <1>3, <2>1, <2>2 DEF Inv, OneInv, OneCard
  <1> QED  BY <1>4, <1>5, <1>6 DEF OneInv

LEMMA Held == Inv => \A p \in Containers : work[p].pc \in Carrying => work[p].card \in Cards /\ ~Free(work[p].card)
  BY DEF Inv, TypeInv, Hands

LEMMA RunGoesOn ==
  ASSUME Inv, NEW p \in Containers,
         \/ \E m \in Messages : Poll(p, m)
         \/ ReadLabel(p) \/ Classify(p) \/ Honour(p) \/ Block(p) \/ Evaluate(p)
         \/ Approve(p) \/ Send(p) \/ MarkExecuted(p) \/ Refused(p) \/ BackToPending(p)
  PROVE  OneInv'
  <1>0. TypeOK /\ work[p] \in WorkRec
    BY DEF Inv, TypeInv, TypeOK
  <1>1. ASSUME NEW pc \in Pcs, Goto(p, pc), pc \notin {"idle", "insert", "enqueue", "new"},
               work[p].pc \notin {"idle", "insert", "enqueue"}, job' = job, excused' = excused,
               Kept, label' = label
        PROVE  OneInv'
    BY <1>0, <1>1, GotoSteps, GoingOn
  <1>13. ASSUME Done(p), work[p].pc \notin {"idle", "insert", "enqueue"}, job' = job, excused' = excused,
                Kept, label' = label
         PROVE  OneInv'
    BY <1>0, <1>13, DoneSteps, GoingOn
  <1>2. ASSUME NEW m \in Messages, Poll(p, m) PROVE OneInv'
    <2> DEFINE r == [Idle EXCEPT !.pc = "insert", !.msg = m]
    <2>1. r \in WorkRec /\ r.pc = "insert"
      BY IdleTyped DEF WorkRec, Idle
    <2>2. work'[p] = r /\ \A q \in Containers \ {p} : work'[q] = work[q]
      BY <1>0, <1>2, <2>1, WorkSteps DEF Poll
    <2> QED  BY <1>0, <1>2, <2>1, <2>2, SameKeeps, GoingOn DEF Poll, past
  <1>3. CASE ReadLabel(p)
    <2>1. CASE Goto(p, "classify")
      BY <1>0, <1>1, <1>3, <2>1, SameKeeps DEF ReadLabel, At, Pcs, past
    <2>2. CASE work' = [work EXCEPT ![p].pc = "act", ![p].label = label[work[p].msg]]
      <3> DEFINE r == [work[p] EXCEPT !.pc = "act", !.label = label[work[p].msg]]
      <3>1. r \in WorkRec /\ r.pc = "act" /\ r.msg = work[p].msg /\ r.bump = work[p].bump
        BY <1>0 DEF WorkRec, TypeOK
      <3>2. work' = [work EXCEPT ![p] = r]
        BY <1>0, <2>2 DEF TypeOK
      <3>3. work'[p] = r /\ \A q \in Containers \ {p} : work'[q] = work[q]
        BY <1>0, <3>1, <3>2, WorkSteps
      <3> QED  BY <1>0, <1>3, <3>1, <3>3, SameKeeps, GoingOn DEF ReadLabel, At, past
    <2> QED  BY <1>3, <2>1, <2>2 DEF ReadLabel
  <1>4. CASE Classify(p)
    <2>1. PICK l \in {"maybe_stop", "answerable", "other", "unclassified"} :
            /\ label' = [label EXCEPT ![work[p].msg] = l]
            /\ work' = [work EXCEPT ![p].pc = "act", ![p].label = l]
      BY <1>4 DEF Classify
    <2> DEFINE r == [work[p] EXCEPT !.pc = "act", !.label = l]
    <2>2. r \in WorkRec /\ r.pc = "act" /\ r.msg = work[p].msg /\ r.bump = work[p].bump
      BY <1>0 DEF WorkRec, Labels
    <2>3. work' = [work EXCEPT ![p] = r]
      BY <1>0, <2>1 DEF TypeOK
    <2>4. work'[p] = r /\ \A q \in Containers \ {p} : work'[q] = work[q]
      BY <1>0, <2>2, <2>3, WorkSteps
    <2>5. Triaging(p, work[p].msg) /\ work[p].msg \in Messages
      BY <1>0, <1>4 DEF Classify, At, Triaging, WorkRec, Inv, Bumping, Late, Carrying
    <2>6. label[work[p].msg] # "absent"
      BY <2>5 DEF Inv, OneInv, QueuedOnce
    <2>7. \A m \in Messages : label'[m] = "absent" <=> label[m] = "absent"
      BY <1>0, <2>1, <2>6 DEF TypeOK
    <2> QED  BY <1>0, <1>4, <2>2, <2>4, <2>7, SameKeeps, GoingOn, ZenonT(40) DEF Classify, At, past
  <1>5. CASE Honour(p)
    BY <1>0, <1>1, <1>5, ClosingKeeps DEF Honour, Suppressing, At, Pcs, past
  <1>6. CASE Block(p)
    BY <1>0, <1>6, <1>13, SameKeeps DEF Block, At, past
  <1>7. CASE Evaluate(p)
    BY <1>0, <1>1, <1>7, <1>13, SameKeeps DEF Evaluate, At, Pcs, past
  <1>8. CASE Approve(p)
    <2>1. Kept
      BY <1>0, <1>8, Held, SetStatusKeeps DEF Approve, At, Carrying, Statuses
    <2> QED  BY <1>1, <1>8, <2>1 DEF Approve, At, Pcs, past
  <1>9. CASE Send(p)
    <2>1. PICK pc \in {"sent", "failed", "refused"} : Goto(p, pc)
      BY <1>9 DEF Send
    <2> QED  BY <1>0, <1>1, <1>9, <2>1, SameKeeps DEF Send, At, Pcs, past
  <1>10. CASE MarkExecuted(p)
    <2>1. Kept
      BY <1>0, <1>10, Held, SetStatusKeeps DEF MarkExecuted, At, Carrying, Statuses
    <2> QED  BY <1>10, <1>13, <2>1 DEF MarkExecuted, At, past
  <1>11. CASE Refused(p)
    BY <1>0, <1>1, <1>11, ClosingKeeps DEF Refused, Suppressing, At, Pcs, past
  <1>12. CASE BackToPending(p)
    <2>1. Kept
      BY <1>0, <1>12, Held, SetStatusKeeps DEF BackToPending, At, Carrying, Statuses
    <2> QED  BY <1>12, <1>13, <2>1 DEF BackToPending, At, past
  <1> QED  BY <1>2, <1>3, <1>4, <1>5, <1>6, <1>7, <1>8, <1>9, <1>10, <1>11, <1>12

\* The poll's own job: none, then queued, then one run's.
LEMMA QueueOnce ==
  ASSUME Inv, NEW p \in Containers,
         Insert(p) \/ QueueTriage(p) \/ \E m \in Messages : Claim(p, m)
  PROVE  OneInv'
  <1>0. TypeOK /\ work[p] \in WorkRec /\ work[p].msg \in Messages
    BY DEF Inv, TypeInv, TypeOK, WorkRec
  <1> DEFINE n == work[p].msg
  <1>1. CASE Insert(p) /\ Leave(p) /\ UNCHANGED label
    BY <1>0, <1>1, LeaveSteps, SameKeeps, GoingOn DEF Insert, past
  <1>2. CASE Insert(p) /\ n \notin Recorded /\ Goto(p, "enqueue")
    <2>1. /\ work'[p].pc = "enqueue" /\ work'[p].msg = n
          /\ \A q \in Containers \ {p} : work'[q] = work[q]
      BY <1>0, <1>2, GotoSteps DEF Pcs
    <2>2. label[n] = "absent"
      BY <1>0, <1>2 DEF Recorded
    <2>3. job[n] = "none" /\ \A q \in Containers : ~Triaging(q, n) /\ ~(At(q, "enqueue") /\ work[q].msg = n)
      BY <1>0, <2>2 DEF Inv, OneInv, QueuedOnce
    <2>4. \A m \in Messages : m # n => label'[m] = label[m]
      BY <1>0, <1>2 DEF Insert, TypeOK
    <2>5. label'[n] # "absent" /\ job' = job /\ cards' = cards /\ excused' = excused
      BY <1>0, <1>2 DEF Insert, TypeOK, past
    <2>6. \A q \in Containers, m \in Messages : Triaging(q, m)' => Triaging(q, m) /\ work'[q] = work[q]
      BY <2>1 DEF Triaging
    <2>7. \A q \in Containers : At(q, "enqueue")' => q = p \/ (At(q, "enqueue") /\ work'[q] = work[q])
      BY <2>1 DEF At
    <2>8. \A q \in Containers : At(q, "new")' => At(q, "new") /\ work'[q] = work[q]
      BY <2>1 DEF At
    <2>9. QueuedOnce'
      BY <2>1, <2>3, <2>4, <2>5, <2>6, <2>7 DEF Inv, OneInv, QueuedOnce
    <2>10. "overlap" \notin excused' => OneRun'
      BY <2>5, <2>6 DEF Inv, OneInv, OneRun, Over
    <2>11. excused' = {} => OneCard'
      BY <2>5, <2>8 DEF Inv, OneInv, OneCard, Alike, SameQuestion, Answers, Free
    <2> QED  BY <2>9, <2>10, <2>11 DEF OneInv
  <1>3. CASE QueueTriage(p)
    <2>1. /\ work'[p].pc = "idle" /\ \A q \in Containers \ {p} : work'[q] = work[q]
      BY <1>0, <1>3, LeaveSteps DEF QueueTriage
    <2>2. At(p, "enqueue") /\ label[n] # "absent"
          /\ \A q \in Containers : ~Triaging(q, n) /\ (At(q, "enqueue") /\ work[q].msg = n => q = p)
      BY <1>0, <1>3 DEF QueueTriage, Inv, OneInv, QueuedOnce
    <2>3. \A m \in Messages : m # n => job'[m] = job[m]
      BY <1>0, <1>3 DEF QueueTriage, TypeOK
    <2>4. label' = label /\ cards' = cards /\ excused' = excused
      BY <1>3 DEF QueueTriage, past
    <2>5. \A q \in Containers, m \in Messages : Triaging(q, m)' => Triaging(q, m) /\ work'[q] = work[q]
      BY <2>1 DEF Triaging
    <2>6. \A q \in Containers : At(q, "enqueue")' => q # p /\ At(q, "enqueue") /\ work'[q] = work[q]
      BY <2>1 DEF At
    <2>7. \A q \in Containers : At(q, "new")' => At(q, "new") /\ work'[q] = work[q]
      BY <2>1 DEF At
    <2>8. QueuedOnce'
      BY <2>2, <2>3, <2>4, <2>5, <2>6 DEF Inv, OneInv, QueuedOnce
    <2>9. "overlap" \notin excused' => OneRun'
      BY <2>2, <2>3, <2>4, <2>5 DEF Inv, OneInv, OneRun, Over
    <2>10. excused' = {} => OneCard'
      BY <2>4, <2>7 DEF Inv, OneInv, OneCard, Alike, SameQuestion, Answers, Free
    <2> QED  BY <2>8, <2>9, <2>10 DEF OneInv
  <1>4. ASSUME NEW m \in Messages, Claim(p, m) PROVE OneInv'
    <2> DEFINE r == [Idle EXCEPT !.pc = "label", !.msg = m]
    <2>1. r \in WorkRec /\ r.pc = "label" /\ r.msg = m /\ ~r.bump
      BY IdleTyped DEF WorkRec, Idle
    <2>2. work'[p] = r /\ \A q \in Containers \ {p} : work'[q] = work[q]
      BY <1>0, <1>4, <2>1, WorkSteps DEF Claim
    <2>3. job[m] = "pending" /\ job'[m] = "running" /\ \A k \in Messages \ {m} : job'[k] = job[k]
      BY <1>0, <1>4 DEF Claim, Claimable, TypeOK
    <2>4. label' = label /\ cards' = cards /\ excused' = excused
      BY <1>4 DEF Claim, past
    <2>5. label[m] # "absent" /\ \A q \in Containers : ~(At(q, "enqueue") /\ work[q].msg = m)
      BY <2>3 DEF Inv, OneInv, QueuedOnce
    <2>6. "overlap" \notin excused => \A q \in Containers : ~Triaging(q, m)
      BY <2>3 DEF Inv, OneInv, OneRun, Over
    <2>7. \A q \in Containers, k \in Messages :
            Triaging(q, k)' => (q = p /\ k = m) \/ (q # p /\ Triaging(q, k) /\ work'[q] = work[q])
      BY <2>1, <2>2 DEF Triaging
    <2>8. \A q \in Containers : At(q, "enqueue")' => At(q, "enqueue") /\ work'[q] = work[q]
      BY <2>1, <2>2 DEF At
    <2>9. \A q \in Containers : At(q, "new")' => At(q, "new") /\ work'[q] = work[q]
      BY <2>1, <2>2 DEF At
    <2>10. QueuedOnce'
      BY <2>3, <2>4, <2>5, <2>7, <2>8 DEF Inv, OneInv, QueuedOnce
    <2>11. "overlap" \notin excused' => OneRun'
      <3> SUFFICES ASSUME "overlap" \notin excused, NEW k \in Messages, NEW q \in Containers,
                          Triaging(q, k)'
                   PROVE  /\ job'[k] = "running"
                          /\ \A o \in Containers : Triaging(o, k)' => o = q
        BY <2>4 DEF OneRun
      <3>1. OneRun
        BY DEF Inv, OneInv
      <3>2. CASE q = p /\ k = m
        BY <2>1, <2>2, <2>3, <2>6, <2>7, <3>2
      <3>3. CASE q # p /\ Triaging(q, k) /\ work'[q] = work[q]
        <4>1. k # m
          BY <2>6, <3>3
        <4> QED  BY <2>3, <2>7, <3>1, <3>3, <4>1 DEF OneRun, Over
      <3> QED  BY <2>7, <3>2, <3>3
    <2>12. excused' = {} => OneCard'
      BY <2>4, <2>9 DEF Inv, OneInv, OneCard, Alike, SameQuestion, Answers, Free
    <2> QED  BY <2>10, <2>11, <2>12 DEF OneInv
  <1> QED  BY <1>1, <1>2, <1>3, <1>4 DEF Insert

\* A run that looks for a card finds every one there is, since no other is about
\* the message.
LEMMA CardOnce ==
  ASSUME Inv, NEW p \in Containers, FindCard(p) \/ NewCard(p)
  PROVE  OneInv'
  <1>0. TypeOK /\ work[p] \in WorkRec /\ work[p].msg \in Messages
    BY DEF Inv, TypeInv, TypeOK, WorkRec
  <1>1. CASE FindCard(p) /\ Done(p)
    BY <1>0, <1>1, DoneSteps, SameKeeps, GoingOn DEF FindCard, At, past
  <1>2. CASE FindCard(p) /\ ReplyCardFor(work[p].msg) = {} /\ Goto(p, "new")
    <2>1. /\ work'[p].pc = "new" /\ work'[p].msg = work[p].msg /\ work'[p].bump = work[p].bump
          /\ \A q \in Containers \ {p} : work'[q] = work[q]
      BY <1>0, <1>2, GotoSteps DEF Pcs
    <2>2. label' = label /\ job' = job /\ excused' = excused /\ cards' = cards
      BY <1>2 DEF FindCard, past
    <2>3. Triaging(p, work[p].msg) /\ At(p, "act")
      BY <1>2 DEF FindCard, At, Triaging, Inv, Bumping, Late, Carrying
    <2>4. \A q \in Containers, m \in Messages : Triaging(q, m)' => Triaging(q, m) /\ work'[q].bump = work[q].bump
      BY <2>1, <2>3 DEF Triaging, At
    <2>5. \A q \in Containers : At(q, "enqueue")' => At(q, "enqueue") /\ work'[q] = work[q]
      BY <2>1 DEF At
    <2>6. \A q \in Containers : At(q, "new")' => q = p \/ (At(q, "new") /\ work'[q] = work[q])
      BY <2>1 DEF At
    <2>7. QueuedOnce'
      BY <2>2, <2>4, <2>5 DEF Inv, OneInv, QueuedOnce
    <2>8. "overlap" \notin excused' => OneRun'
      BY <2>2, <2>4 DEF Inv, OneInv, OneRun, Over
    <2>9. ~work[p].bump
      BY <2>3 DEF At, Inv, Bumping, Late, Carrying
    <2>10. \A c \in Cards : ~Alike(p, c)'
      BY <1>2, <2>1, <2>2, <2>9 DEF Alike, Answers, ReplyCardFor, About, Free
    <2>11. excused' = {} => OneCard'
      BY <2>1, <2>2, <2>6, <2>10 DEF Inv, OneInv, OneCard, Alike, SameQuestion, Answers, Free
    <2> QED  BY <2>7, <2>8, <2>11 DEF OneInv
  <1>3. CASE FindCard(p) /\ \E c \in Cards : Drafting(p, c)
    BY <1>0, <1>3, DraftingSteps, SameKeeps, GoingOn DEF FindCard, At, past
  <1>4. CASE NewCard(p)
    <2> DEFINE n == [msg |-> work[p].msg, kind |-> KindOf(p), status |-> "pending"]
    <2>1. PICK c \in Cards : /\ Free(c) /\ cards' = [cards EXCEPT ![c] = n]
                             /\ Done(p) \/ Drafting(p, c)
      BY <1>4 DEF NewCard
    <2>2. /\ work'[p].msg = work[p].msg /\ work'[p].bump = work[p].bump
          /\ work'[p].pc \in {"finish", "draft"}
      BY <1>0, <2>1, DoneSteps, DraftingSteps
    <2>4. \A q \in Containers \ {p} : work'[q] = work[q]
      BY <1>0, <2>1, DoneSteps, DraftingSteps
    <2>5. n \in Card
      BY <1>0 DEF Card, KindOf, WorkRec
    <2>6. ~Free(c)' /\ cards'[c] = n /\ \A d \in Cards \ {c} : cards'[d] = cards[d]
      BY <1>0, <2>1, <2>5, NewKeeps DEF TypeOK
    <2>7. label' = label /\ job' = job /\ excused' = excused
      BY <1>4 DEF NewCard, past
    <2>8. At(p, "new") /\ (~work[p].bump => Triaging(p, work[p].msg))
      BY <1>4 DEF NewCard, At, Triaging
    <2>9. \A q \in Containers, m \in Messages : Triaging(q, m)' => Triaging(q, m) /\ work'[q].bump = work[q].bump
      BY <2>2, <2>4, <2>8 DEF Triaging, At
    <2>10. \A q \in Containers : At(q, "enqueue")' => At(q, "enqueue") /\ work'[q] = work[q]
      BY <2>2, <2>4 DEF At
    <2>11. \A q \in Containers : At(q, "new")' => q # p /\ At(q, "new") /\ work'[q] = work[q]
      BY <2>2, <2>4 DEF At
    <2>12. QueuedOnce'
      BY <2>7, <2>9, <2>10 DEF Inv, OneInv, QueuedOnce
    <2>13. "overlap" \notin excused' => OneRun'
      BY <2>7, <2>9 DEF Inv, OneInv, OneRun, Over
    <2>14. excused' = {} => OneCard'
      <3> SUFFICES ASSUME excused = {} PROVE OneCard'
        BY <2>7
      <3>1. OneRun /\ OneCard
        BY DEF Inv, OneInv
      <3>2. n.kind = "bump" <=> work[p].bump
        <4>1. KindOf(p) = "bump" <=> work[p].bump
          BY DEF KindOf
        <4> QED  BY <4>1
      <3>3. CASE work[p].bump
        <4>1. ~Answers(c, n.msg)' /\ \A d \in Cards, m \in Messages : Answers(d, m)' => Answers(d, m)
          BY <2>6, <3>2, <3>3 DEF Answers, Free
        <4>2. \A d \in Cards : Answers(d, cards[d].msg)' => d # c /\ cards'[d] = cards[d]
          BY <2>6, <3>2, <3>3 DEF Answers, Free
        <4>3. \A d, e \in Cards : SameQuestion(d, e)' => d = e
          BY <2>6, <3>1, <3>2, <3>3 DEF OneCard, SameQuestion, Answers, Free
        <4>4. \A q \in Containers, d \in Cards : At(q, "new")' => ~Alike(q, d)'
          BY <2>6, <2>11, <3>1, <3>2, <3>3 DEF OneCard, Alike, Answers, Free
        <4> QED  BY <4>3, <4>4 DEF OneCard
      <3>4. CASE ~work[p].bump
        <4>1. \A q \in Containers : At(q, "new")' /\ ~work[q].bump => work[q].msg # work[p].msg
          BY <1>0, <2>8, <2>11, <3>1, <3>4 DEF OneRun, Triaging, At
        <4>2. \A q \in Containers, d \in Cards : At(q, "new")' => ~Alike(q, d)'
          BY <2>6, <2>11, <3>1, <4>1 DEF OneCard, Alike, Answers, Free
        <4>3. \A d \in Cards : ~Answers(d, n.msg)
          BY <2>8, <3>1, <3>4 DEF OneCard, Alike
        <4>4. \A d, e \in Cards : SameQuestion(d, e)' => d = e
          BY <2>6, <3>1, <4>3 DEF OneCard, SameQuestion, Answers, Free
        <4> QED  BY <4>2, <4>4 DEF OneCard
      <3> QED  BY <3>3, <3>4
    <2> QED  BY <2>12, <2>13, <2>14 DEF OneInv
  <1> QED  BY <1>1, <1>2, <1>3, <1>4 DEF FindCard, ReplyCardFor, About

\* A job that ends, or is handed back by a run that gives it up.
LEMMA JobLeft ==
  ASSUME Inv, NEW p \in Containers, NEW status \in {"pending", "done", "dead"},
         Settle(p, status), Leave(p), ~At(p, "idle"), ~At(p, "insert"), ~At(p, "enqueue"),
         UNCHANGED <<label, cards, excused>>
  PROVE  OneInv'
  <1>0. TypeOK /\ work[p] \in WorkRec /\ work[p].msg \in Messages
    BY DEF Inv, TypeInv, TypeOK, WorkRec
  <1> DEFINE n == work[p].msg
  <1>1. /\ work'[p].pc = "idle" /\ \A q \in Containers \ {p} : work'[q] = work[q]
    BY <1>0, LeaveSteps
  <1>b. CASE work[p].bump
    <2>1. job' = job
      BY <1>b DEF Settle
    <2> QED  BY <1>0, <1>1, <2>1, SameKeeps, GoingOn
  <1> SUFFICES ASSUME ~work[p].bump PROVE OneInv'
    BY <1>b
  <1>2. Triaging(p, n)
    BY DEF Triaging, At
  <1>3. label[n] # "absent" /\ \A q \in Containers : ~(At(q, "enqueue") /\ work[q].msg = n)
    BY <1>0, <1>2 DEF Inv, OneInv, QueuedOnce
  <1>4. \A m \in Messages \ {n} : job'[m] = job[m]
    BY <1>0 DEF Settle, TypeOK
  <1>5. \A q \in Containers, m \in Messages : Triaging(q, m)' => q # p /\ Triaging(q, m) /\ work'[q] = work[q]
    BY <1>1 DEF Triaging
  <1>6. \A q \in Containers : At(q, "enqueue")' => At(q, "enqueue") /\ work'[q] = work[q]
    BY <1>1 DEF At
  <1>7. \A q \in Containers : At(q, "new")' => At(q, "new") /\ work'[q] = work[q]
    BY <1>1 DEF At
  <1>8. QueuedOnce'
    BY <1>3, <1>4, <1>5, <1>6 DEF Inv, OneInv, QueuedOnce
  <1>9. "overlap" \notin excused' => OneRun'
    <2> SUFFICES ASSUME "overlap" \notin excused, NEW m \in Messages, NEW q \in Containers,
                        Triaging(q, m)'
                 PROVE  /\ job'[m] = "running"
                        /\ \A o \in Containers : Triaging(o, m)' => o = q
      BY DEF OneRun
    <2>1. OneRun
      BY DEF Inv, OneInv
    <2>2. m # n
      BY <1>2, <1>5, <2>1 DEF OneRun
    <2> QED  BY <1>4, <1>5, <2>1, <2>2 DEF OneRun, Over
  <1>10. excused' = {} => OneCard'
    BY <1>7 DEF Inv, OneInv, OneCard, Alike, SameQuestion, Answers, Free
  <1> QED  BY <1>8, <1>9, <1>10 DEF OneInv

LEMMA FaultsOnce ==
  ASSUME Inv, NEW p \in Containers, Finish(p) \/ Throw(p) \/ Crash(p)
  PROVE  OneInv'
  <1>0. TypeOK
    BY DEF Inv, TypeInv
  <1>1. CASE Finish(p)
    BY <1>1, JobLeft DEF Finish, At, past
  <1>2. CASE Throw(p) /\ At(p, "sent") /\ Goto(p, "failed") /\ UNCHANGED <<job, orphans>>
    BY <1>0, <1>2, GotoSteps, SameKeeps, GoingOn DEF Throw, At, Pcs
  <1>3. CASE Throw(p) /\ job' = job /\ Leave(p)
    BY <1>0, <1>3, LeaveSteps, SameKeeps, GoingOn DEF Throw
  <1>4. CASE /\ Throw(p) /\ Leave(p) /\ ~At(p, "idle") /\ ~At(p, "insert") /\ ~At(p, "enqueue")
             /\ Settle(p, "pending") \/ Settle(p, "dead")
    BY <1>4, JobLeft DEF Throw
  <1>5. CASE Crash(p)
    BY <1>0, <1>5, LeaveSteps, SameKeeps, GoingOn DEF Crash
  <1>6. Throw(p) => \/ At(p, "sent") /\ Goto(p, "failed") /\ UNCHANGED <<job, orphans>>
                    \/ Leave(p) /\ job' = job
                    \/ /\ Leave(p) /\ ~At(p, "idle") /\ ~At(p, "insert") /\ ~At(p, "enqueue")
                       /\ Settle(p, "pending") \/ Settle(p, "dead")
    BY DEF Throw
  <1> QED  BY <1>1, <1>2, <1>3, <1>4, <1>5, <1>6

\* A bump is no run of a message, nor its card an answer.
LEMMA BumpOnce ==
  ASSUME Inv, NEW p \in Containers, NEW m \in Messages, Bump(p, m)
  PROVE  OneInv'
  <1>0. TypeOK
    BY DEF Inv, TypeInv
  <1> DEFINE r == [Idle EXCEPT !.pc = "new", !.msg = m, !.bump = TRUE]
  <1>1. r \in WorkRec /\ r.pc = "new" /\ r.msg = m /\ r.bump
    BY IdleTyped DEF WorkRec, Idle, Labels
  <1>2. work'[p] = r /\ \A q \in Containers \ {p} : work'[q] = work[q]
    BY <1>0, <1>1, WorkSteps DEF Bump
  <1>4. label' = label /\ job' = job /\ cards' = cards /\ excused' = excused
    BY DEF Bump, past
  <1>5. \A q \in Containers, k \in Messages : Triaging(q, k)' => Triaging(q, k)
    BY <1>1, <1>2 DEF Triaging
  <1>6. \A q \in Containers : At(q, "enqueue")' => At(q, "enqueue") /\ work'[q] = work[q]
    BY <1>1, <1>2 DEF At
  <1>7. \A q \in Containers, c \in Cards : At(q, "new")' /\ Alike(q, c)' => At(q, "new") /\ Alike(q, c)
    BY <1>1, <1>2, <1>4 DEF At, Alike, Answers, Free
  <1>8. QueuedOnce'
    BY <1>4, <1>5, <1>6 DEF Inv, OneInv, QueuedOnce
  <1>9. "overlap" \notin excused' => OneRun'
    BY <1>4, <1>5 DEF Inv, OneInv, OneRun
  <1>10. excused' = {} => OneCard'
    BY <1>4, <1>7 DEF Inv, OneInv, OneCard, SameQuestion, Answers, Free
  <1> QED  BY <1>8, <1>9, <1>10 DEF OneInv

LEMMA PeopleOnce ==
  ASSUME Inv,
         \/ \E m \in Messages : Arrive(m) \/ Reclaim(m) \/ Compose(m)
         \/ \E c \in Cards : Skip(c) \/ ApproveByHand(c)
         \/ WriteReply \/ Deliver
  PROVE  OneInv'
  <1>0. TypeOK
    BY DEF Inv, TypeInv
  <1>1. ASSUME Kept, UNCHANGED <<label, job, work, excused>> PROVE OneInv'
    BY <1>1 DEF Inv, OneInv, QueuedOnce, OneRun, OneCard, Triaging, At, Over, Alike, SameQuestion, Answers, Free, Kept
  <1>2. ASSUME NEW m \in Messages, Arrive(m) \/ Compose(m) PROVE OneInv'
    BY <1>0, <1>1, <1>2, SameKeeps DEF Arrive, Compose, past
  <1>3. ASSUME NEW c \in Cards, Skip(c) PROVE OneInv'
    <2>1. Kept
      BY <1>0, <1>3, SetStatusKeeps DEF Skip, Statuses
    <2> QED  BY <1>1, <1>3, <2>1 DEF Skip, past
  <1>4. ASSUME NEW c \in Cards, ApproveByHand(c) PROVE OneInv'
    <2>1. Kept
      BY <1>0, <1>4, ApprovedKept DEF ApproveByHand
    <2> QED  BY <1>1, <1>4, <2>1 DEF ApproveByHand, past
  <1>5. ASSUME NEW m \in Messages, Reclaim(m) PROVE OneInv'
    <2>1. job[m] = "running" /\ job'[m] = "pending" /\ \A k \in Messages \ {m} : job'[k] = job[k]
      BY <1>0, <1>5 DEF Reclaim, TypeOK
    <2>2. UNCHANGED <<label, cards, work>>
      BY <1>5 DEF Reclaim
    <2>3. /\ "overlap" \notin excused' =>
                 "overlap" \notin excused /\ \A q \in Containers : ~Triaging(q, m)
          /\ excused' = {} => excused = {}
      BY <1>5 DEF Reclaim
    <2>4. QueuedOnce'
      BY <2>1, <2>2 DEF Inv, OneInv, QueuedOnce, Triaging, At
    <2>5. "overlap" \notin excused' => OneRun'
      BY <2>1, <2>2, <2>3 DEF Inv, OneInv, OneRun, Triaging, Over
    <2>6. excused' = {} => OneCard'
      BY <2>2, <2>3 DEF Inv, OneInv, OneCard, Alike, SameQuestion, Answers, Free, At
    <2> QED  BY <2>4, <2>5, <2>6 DEF OneInv
  <1>6. CASE WriteReply
    <2>1. UNCHANGED <<label, job, work>>
      BY <1>6 DEF WriteReply
    <2>2. CASE desk.card # NoCard
      <3>1. Kept /\ excused' = excused
        BY <1>0, <1>6, <2>2, ApprovedKept DEF WriteReply, Inv, TypeInv, Hands
      <3> QED  BY <1>1, <2>1, <3>1
    <2>3. CASE desk.card = NoCard
      <3> DEFINE new == [msg |-> desk.msg, kind |-> "answer", status |-> "skipped"]
      <3>1. PICK c \in Cards : Free(c) /\ Approves(c, new)
        BY <1>6, <2>3 DEF WriteReply
      <3>2. new \in Card
        BY <1>0 DEF Card, TypeOK, DeskRec
      <3>4. /\ ~Free(c)' /\ cards'[c].msg = desk.msg /\ cards'[c].kind = "answer"
            /\ \A d \in Cards \ {c} : cards'[d] = cards[d]
        BY <1>0, <3>1, <3>2, ApprovingKeeps
      <3>5. excused' = {} => /\ excused = {} /\ ReplyCardFor(desk.msg) = {}
                             /\ \A p \in Containers : ~(At(p, "new") /\ work[p].msg = desk.msg)
        BY <1>6, <2>3 DEF WriteReply
      <3>9. "overlap" \notin excused' => "overlap" \notin excused
        BY <1>6 DEF WriteReply
      <3>6. QueuedOnce'
        BY <2>1 DEF Inv, OneInv, QueuedOnce, Triaging, At
      <3>7. "overlap" \notin excused' => OneRun'
        BY <2>1, <3>9 DEF Inv, OneInv, OneRun, Triaging, Over
      <3>8. excused' = {} => OneCard'
        <4> SUFFICES ASSUME excused' = {} PROVE OneCard'
          OBVIOUS
        <4>1. OneCard
          BY <3>5 DEF Inv, OneInv
        <4>2. \A p \in Containers, d \in Cards : At(p, "new")' => ~Alike(p, d)'
          BY <2>1, <3>4, <3>5, <4>1 DEF OneCard, Alike, Answers, At, Free
        <4>3. \A d \in Cards : ~Answers(d, desk.msg)
          BY <3>5 DEF ReplyCardFor, About, Answers, Free
        <4>4. \A d, e \in Cards : SameQuestion(d, e)' => d = e
          BY <3>4, <4>1, <4>3 DEF OneCard, SameQuestion, Answers, Free
        <4> QED  BY <4>2, <4>4 DEF OneCard
      <3> QED  BY <3>6, <3>7, <3>8 DEF OneInv
    <2> QED  BY <2>2, <2>3
  <1>7. CASE Deliver
    <2>1. \/ SetStatus(desk.card, "executed") \/ cards' = cards \/ cards' = Closed
      BY <1>7 DEF Deliver, Suppressing
    <2>2. desk.card \in Cards /\ ~Free(desk.card)
      BY <1>7 DEF Deliver, Inv, TypeInv, Hands
    <2>3. Kept
      BY <1>0, <2>1, <2>2, SetStatusKeeps, SameKeeps, ClosingKeeps DEF Statuses
    <2> QED  BY <1>1, <1>7, <2>3 DEF Deliver, past
  <1> QED  BY <1>2, <1>3, <1>4, <1>5, <1>6, <1>7

LEMMA OneStep == Inv /\ [Next]_vars => OneInv'
  <1> SUFFICES ASSUME Inv, [Next]_vars PROVE OneInv'
    OBVIOUS
  <1>1. ASSUME NEW p \in Containers, Run(p) PROVE OneInv'
    BY <1>1, RunGoesOn, QueueOnce, CardOnce, FaultsOnce DEF Run
  <1>2. CASE UNCHANGED vars
    BY <1>2 DEF vars, Inv, OneInv, QueuedOnce, OneRun, OneCard, Triaging, At, Over, Alike, SameQuestion, Answers, Free
  <1> QED  BY <1>1, <1>2, FaultsOnce, BumpOnce, PeopleOnce DEF Next

LEMMA Invariant == Spec => []Inv
  <1>1. Init => Inv
    BY TypeInit, OneInit DEF Inv
  <1>2. Inv /\ [Next]_vars => Inv'
    BY TypeStep, BumpingStep, OneStep DEF Inv
  <1> QED  BY <1>1, <1>2, PTL DEF Spec

\* However jobs are retried and containers die, the machine does not answer a
\* message that has been answered on another card, unless a run of the message
\* outlived its lease or a human opened a card of their own beside one.
THEOREM AnsweredAtMostOnce == Spec => AnsweredOnce
  <1>1. Inv => [\A p \in Containers :
                  At(p, "send") /\ work'[p] # work[p] /\ work[p].card \in mailed' \ mailed /\ excused = {} =>
                    ~\E d \in mailed \ {work[p].card} : SameQuestion(work[p].card, d)]_vars
    BY Held DEF Inv, TypeInv, TypeOK, OneInv, OneCard, At, Carrying
  <1> QED  BY <1>1, Invariant, PTL DEF Spec, AnsweredOnce

-----------------------------------------------------------------------------
(* A stop, from its words to the person's keys. *)

\* A run of a stop reads its label, honours it and ends: it never reaches a card.
Heard(p) ==
    work[p].msg \in Stops /\ work[p].pc \notin {"idle", "insert", "enqueue"} =>
      /\ work[p].pc \in {"label", "act", "block", "finish"}
      /\ work[p].pc = "act" => work[p].label = "stop"
      /\ work[p].pc \in {"block", "finish"} => suppressed
StopInv ==
    /\ \A m \in Stops : /\ label[m] \in {"absent", "stop"}
                        /\ job[m] = "done" => suppressed
    /\ \A p \in Containers : Heard(p)

\* A step of one container, the labels and keys of stops as they were.
LEMMA StopGoesOn ==
  ASSUME StopInv, NEW p \in Containers, \A q \in Containers \ {p} : work'[q] = work[q],
         suppressed => suppressed',
         \A m \in Stops : /\ label'[m] \in {"absent", "stop"}
                          /\ job'[m] = "done" => job[m] = "done" \/ suppressed',
         Heard(p)'
  PROVE  StopInv'
  BY DEF StopInv, Heard

\* What a container holds of a stop before its step.
LEMMA HeardNow ==
  ASSUME Inv, StopInv, NEW p \in Containers
  PROVE  /\ TypeOK /\ work[p] \in WorkRec /\ work[p].msg \in Messages /\ Heard(p)
         /\ Triaging(p, work[p].msg) => label[work[p].msg] # "absent"
         /\ \A m \in Stops : m \in Messages /\ label[m] \in {"absent", "stop"}
  BY IntakeAssumption DEF Inv, TypeInv, TypeOK, WorkRec, StopInv, OneInv, QueuedOnce

\* A container that goes on with the message it was about.
LEMMA StopGoto ==
  ASSUME Inv, StopInv, NEW p \in Containers, NEW pc \in Pcs, Goto(p, pc),
         work[p].msg \in Stops =>
           \/ pc \in {"idle", "insert", "enqueue", "label"}
           \/ pc = "act" /\ work[p].label = "stop"
           \/ pc = "block" /\ suppressed',
         suppressed => suppressed', label' = label, job' = job
  PROVE  StopInv'
  <1>1. /\ work'[p].pc = pc /\ work'[p].msg = work[p].msg /\ work'[p].label = work[p].label
        /\ \A q \in Containers \ {p} : work'[q] = work[q]
    BY HeardNow, GotoSteps
  <1>2. Heard(p)'
    BY <1>1 DEF Heard
  <1> QED  BY <1>1, <1>2, StopGoesOn, HeardNow

\* A container that lets go of its message, or comes to the end of its run.
LEMMA StopDone ==
  ASSUME Inv, StopInv, NEW p \in Containers,
         \/ Leave(p)
         \/ Done(p) /\ (work[p].msg \in Stops => suppressed'),
         suppressed => suppressed', label' = label,
         \A m \in Stops : job'[m] = "done" => job[m] = "done" \/ suppressed'
  PROVE  StopInv'
  <1>1. CASE Leave(p)
    <2>1. work'[p].pc = "idle" /\ \A q \in Containers \ {p} : work'[q] = work[q]
      BY <1>1, HeardNow, LeaveSteps
    <2>2. Heard(p)'
      BY <2>1 DEF Heard
    <2> QED  BY <2>1, <2>2, StopGoesOn, HeardNow
  <1>2. CASE Done(p) /\ (work[p].msg \in Stops => suppressed')
    <2>1. /\ work'[p].pc = "finish" /\ work'[p].msg = work[p].msg
          /\ \A q \in Containers \ {p} : work'[q] = work[q]
      BY <1>2, HeardNow, DoneSteps
    <2>2. Heard(p)'
      BY <1>2, <2>1 DEF Heard
    <2> QED  BY <2>1, <2>2, StopGoesOn, HeardNow
  <1> QED  BY <1>1, <1>2

\* A container that takes up a message, or a card about one that is no stop.
LEMMA StopTakesUp ==
  ASSUME Inv, StopInv, NEW p \in Containers, NEW r \in WorkRec,
         \A q \in Containers \ {p} : work'[q] = work[q], work'[p] = r,
         r.msg \in Stops => \/ r.pc \in {"idle", "insert", "enqueue", "label"}
                            \/ r.pc = "act" /\ r.label = "stop",
         suppressed => suppressed',
         \A m \in Stops : label'[m] = label[m],
         \A m \in Stops : job'[m] = "done" => job[m] = "done"
  PROVE  StopInv'
  <1>1. Heard(p)'
    BY DEF Heard
  <1> QED  BY <1>1, StopGoesOn, HeardNow

LEMMA StopPolled ==
  ASSUME Inv, StopInv, NEW p \in Containers,
         \/ \E m \in Messages : Poll(p, m) \/ Claim(p, m) \/ Bump(p, m)
         \/ Insert(p) \/ QueueTriage(p)
  PROVE  StopInv'
  <1>0. TypeOK /\ work[p] \in WorkRec /\ work[p].msg \in Messages
    BY HeardNow
  <1>1. ASSUME NEW m \in Messages, Poll(p, m) \/ Claim(p, m) \/ Bump(p, m) PROVE StopInv'
    <2> DEFINE r1 == [Idle EXCEPT !.pc = "insert", !.msg = m]
               r2 == [Idle EXCEPT !.pc = "label", !.msg = m]
               r3 == [Idle EXCEPT !.pc = "new", !.msg = m, !.bump = TRUE]
    <2>1. /\ r1 \in WorkRec /\ r2 \in WorkRec /\ r3 \in WorkRec
          /\ r1.pc = "insert" /\ r2.pc = "label" /\ r3.msg = m
      BY IdleTyped DEF WorkRec, Idle, Labels
    <2>2. /\ label' = label /\ suppressed' = suppressed
          /\ \A k \in Stops : job'[k] = "done" => job[k] = "done"
      BY <1>0, <1>1, HeardNow DEF Poll, Claim, Claimable, Bump, optOut, TypeOK
    <2>3. CASE Poll(p, m)
      BY <1>0, <2>1, <2>2, <2>3, WorkSteps, StopTakesUp, ZenonT(40) DEF Poll
    <2>4. CASE Claim(p, m)
      BY <1>0, <2>1, <2>2, <2>4, WorkSteps, StopTakesUp, ZenonT(40) DEF Claim
    <2>5. CASE Bump(p, m)
      <3>1. m \notin Stops
        BY <2>5, HeardNow DEF Bump
      <3>2. work'[p] = r3 /\ \A q \in Containers \ {p} : work'[q] = work[q]
        BY <1>0, <2>1, <2>5, WorkSteps DEF Bump
      <3>3. r3.msg \notin Stops
        BY <2>1, <3>1
      <3> HIDE DEF r1, r2, r3
      <3> QED  BY <2>1, <2>2, <3>2, <3>3, StopTakesUp
    <2> QED  BY <1>1, <2>3, <2>4, <2>5
  <1>2. CASE Insert(p) /\ Leave(p) /\ UNCHANGED label
    BY <1>2, StopDone DEF Insert, optOut
  <1>3. CASE Insert(p) /\ Goto(p, "enqueue")
    <2>1. /\ work'[p].pc = "enqueue" /\ \A q \in Containers \ {p} : work'[q] = work[q]
      BY <1>0, <1>3, GotoSteps DEF Pcs
    <2>2. \A m \in Stops : label'[m] \in {"absent", "stop"}
      BY <1>0, <1>3, HeardNow DEF Insert, TypeOK
    <2>3. suppressed' = suppressed /\ job' = job
      BY <1>3 DEF Insert, optOut
    <2>4. Heard(p)'
      BY <2>1 DEF Heard
    <2> QED  BY <2>1, <2>2, <2>3, <2>4, StopGoesOn
  <1>4. CASE QueueTriage(p)
    <2>1. \A m \in Stops : job'[m] = "done" => job[m] = "done"
      BY <1>0, <1>4, HeardNow DEF QueueTriage, TypeOK
    <2> QED  BY <1>4, <2>1, StopDone DEF QueueTriage, optOut
  <1> QED  BY <1>1, <1>2, <1>3, <1>4 DEF Insert

LEMMA StopTriaged ==
  ASSUME Inv, StopInv, NEW p \in Containers,
         \/ ReadLabel(p) \/ Classify(p) \/ Honour(p) \/ Block(p) \/ FindCard(p) \/ NewCard(p)
  PROVE  StopInv'
  <1>0. TypeOK /\ work[p] \in WorkRec /\ work[p].msg \in Messages /\ Heard(p)
    BY HeardNow
  <1>1. CASE ReadLabel(p)
    <2>1. Triaging(p, work[p].msg)
      BY <1>1 DEF ReadLabel, At, Triaging, Inv, Bumping, Late, Carrying
    <2>2. work[p].msg \in Stops => label[work[p].msg] = "stop"
      BY <2>1, HeardNow
    <2>3. label' = label /\ job' = job /\ suppressed' = suppressed
      BY <1>1 DEF ReadLabel, optOut
    <2>4. CASE work' = [work EXCEPT ![p].pc = "act", ![p].label = label[work[p].msg]]
      <3> DEFINE r == [work[p] EXCEPT !.pc = "act", !.label = label[work[p].msg]]
      <3>1. r \in WorkRec /\ r.pc = "act" /\ r.msg = work[p].msg /\ r.label = label[work[p].msg]
        BY <1>0 DEF WorkRec, TypeOK
      <3>2. work' = [work EXCEPT ![p] = r]
        BY <1>0, <2>4 DEF TypeOK
      <3>3. work'[p] = r /\ \A q \in Containers \ {p} : work'[q] = work[q]
        BY <1>0, <3>1, <3>2, WorkSteps
      <3>4. r.msg \in Stops => r.pc = "act" /\ r.label = "stop"
        BY <2>2, <3>1
      <3> HIDE DEF r
      <3> QED  BY <2>3, <3>1, <3>3, <3>4, StopTakesUp
    <2>5. CASE ~Stands(label[work[p].msg]) /\ Goto(p, "classify")
      <3>1. work[p].msg \notin Stops
        BY <2>2, <2>5 DEF Stands, Stored
      <3> QED  BY <2>3, <2>5, <3>1, StopGoto DEF Pcs
    <2> QED  BY <1>1, <2>4, <2>5 DEF ReadLabel
  <1>2. CASE Classify(p)
    <2>1. work[p].msg \notin Stops
      BY <1>0, <1>2 DEF Classify, At, Heard
    <2>2. PICK l \in {"maybe_stop", "answerable", "other", "unclassified"} :
            /\ label' = [label EXCEPT ![work[p].msg] = l]
            /\ work' = [work EXCEPT ![p].pc = "act", ![p].label = l]
      BY <1>2 DEF Classify
    <2> DEFINE r == [work[p] EXCEPT !.pc = "act", !.label = l]
    <2>3. r \in WorkRec /\ r.msg = work[p].msg
      BY <1>0 DEF WorkRec, Labels
    <2>4. work' = [work EXCEPT ![p] = r]
      BY <1>0, <2>2 DEF TypeOK
    <2>5. \A m \in Stops : label'[m] = label[m]
      BY <1>0, <2>1, <2>2, HeardNow DEF TypeOK
    <2>6. job' = job /\ suppressed' = suppressed
      BY <1>2 DEF Classify, optOut
    <2> QED  BY <1>0, <2>1, <2>3, <2>4, <2>5, <2>6, WorkSteps, StopTakesUp
  <1>3. CASE Honour(p)
    BY <1>3, StopGoto DEF Honour, Suppressing, Pcs
  <1>4. CASE Block(p)
    BY <1>0, <1>4, StopDone DEF Block, At, Heard
  <1>5. CASE FindCard(p)
    <2>1. work[p].msg \notin Stops
      BY <1>0, <1>5 DEF FindCard, At, Heard
    <2>2. label' = label /\ job' = job /\ suppressed' = suppressed
      BY <1>5 DEF FindCard, optOut
    <2>3. CASE Done(p)
      BY <2>1, <2>2, <2>3, StopDone
    <2>4. CASE Goto(p, "new")
      BY <2>1, <2>2, <2>4, StopGoto DEF Pcs
    <2>5. CASE \E c \in Cards : Drafting(p, c)
      <3>1. work'[p] \in WorkRec /\ work'[p].msg = work[p].msg
            /\ \A q \in Containers \ {p} : work'[q] = work[q]
        BY <1>0, <2>5, DraftingSteps
      <3> QED  BY <2>1, <2>2, <3>1, StopTakesUp
    <2> QED  BY <1>5, <2>3, <2>4, <2>5 DEF FindCard, ReplyCardFor, About
  <1>6. CASE NewCard(p)
    <2>1. work[p].msg \notin Stops
      BY <1>0, <1>6 DEF NewCard, At, Heard
    <2>2. label' = label /\ job' = job /\ suppressed' = suppressed
      BY <1>6 DEF NewCard, optOut
    <2>3. work'[p] \in WorkRec /\ work'[p].msg = work[p].msg
          /\ \A q \in Containers \ {p} : work'[q] = work[q]
      BY <1>0, <1>6, DoneSteps, DraftingSteps DEF NewCard
    <2> QED  BY <2>1, <2>2, <2>3, StopTakesUp
  <1> QED  BY <1>1, <1>2, <1>3, <1>4, <1>5, <1>6

LEMMA StopSent ==
  ASSUME Inv, StopInv, NEW p \in Containers,
         \/ Evaluate(p) \/ Approve(p) \/ Send(p) \/ MarkExecuted(p) \/ Refused(p) \/ BackToPending(p)
  PROVE  StopInv'
  <1>1. work[p].msg \notin Stops
    BY HeardNow DEF Evaluate, Approve, Send, MarkExecuted, Refused, BackToPending, At, Heard
  <1>2. label' = label /\ job' = job /\ (suppressed => suppressed')
    BY DEF Evaluate, Approve, Send, MarkExecuted, Refused, BackToPending, optOut, Suppressing
  <1>3. Done(p) \/ \E pc \in Pcs : Goto(p, pc)
    BY DEF Evaluate, Approve, Send, MarkExecuted, Refused, BackToPending, Pcs
  <1> QED  BY <1>1, <1>2, <1>3, StopDone, StopGoto

LEMMA StopEnds ==
  ASSUME Inv, StopInv, NEW p \in Containers, Finish(p) \/ Throw(p) \/ Crash(p)
  PROVE  StopInv'
  <1>0. TypeOK /\ work[p] \in WorkRec /\ work[p].msg \in Messages /\ Heard(p)
    BY HeardNow
  <1>1. label' = label /\ suppressed' = suppressed
    BY DEF Finish, Throw, Crash, optOut
  <1>2. CASE Finish(p)
    <2>1. \A m \in Stops : job'[m] = "done" => job[m] = "done" \/ suppressed
      BY <1>0, <1>2, HeardNow DEF Finish, Settle, At, Heard, TypeOK
    <2> QED  BY <1>1, <1>2, <2>1, StopDone DEF Finish
  <1>3. CASE Throw(p) /\ At(p, "sent") /\ Goto(p, "failed") /\ UNCHANGED <<job, orphans>>
    <2>1. work[p].msg \notin Stops
      BY <1>0, <1>3 DEF At, Heard
    <2> QED  BY <1>1, <1>3, <2>1, StopGoto DEF Pcs
  <1>4. CASE (Throw(p) \/ Crash(p)) /\ Leave(p)
    <2>1. \A m \in Stops : job'[m] = "done" => job[m] = "done"
      <3>1. job' = job \/ Settle(p, "pending") \/ Settle(p, "dead")
        BY <1>4 DEF Throw, Crash
      <3> QED  BY <1>0, <3>1, HeardNow DEF Settle, TypeOK
    <2> QED  BY <1>1, <1>4, <2>1, StopDone
  <1> QED  BY <1>2, <1>3, <1>4 DEF Throw, Crash

LEMMA StopStep == Inv /\ StopInv /\ [Next]_vars => StopInv'
  <1> SUFFICES ASSUME Inv, StopInv, [Next]_vars PROVE StopInv'
    OBVIOUS
  <1>1. ASSUME NEW p \in Containers, Run(p) \/ Throw(p) \/ Crash(p) PROVE StopInv'
    BY <1>1, StopPolled, StopTriaged, StopSent, StopEnds DEF Run
  <1>2. ASSUME NEW p \in Containers, NEW m \in Messages, Bump(p, m) PROVE StopInv'
    BY <1>2, StopPolled
  <1>3. CASE \/ \E m \in Messages : Arrive(m) \/ Reclaim(m) \/ Compose(m)
             \/ \E c \in Cards : Skip(c) \/ ApproveByHand(c)
             \/ WriteReply \/ Deliver \/ UNCHANGED vars
    <2>1. work' = work /\ label' = label /\ (suppressed => suppressed')
      BY <1>3 DEF Suppressing, Arrive, Reclaim, Compose, Skip, ApproveByHand, WriteReply, Deliver, vars, optOut
    <2>2. \A m \in Stops : job'[m] = "done" => job[m] = "done"
      BY <1>3, IntakeAssumption
         DEF Arrive, Reclaim, Compose, Skip, ApproveByHand, WriteReply, Deliver, vars, Inv, TypeInv, TypeOK
    <2> QED  BY <2>1, <2>2 DEF StopInv, Heard
  <1> QED  BY <1>1, <1>2, <1>3 DEF Next

\* Whatever fails or overlaps, the machine never answers or bumps a message that a
\* rule reads as a stop, and its job is done only with the person suppressed.
THEOREM StopsAreHeard == Spec => []StopIsHeard
  <1>1. Init => StopInv
    BY IntakeAssumption DEF Init, StopInv, Heard, Idle
  <1>2. Inv /\ StopInv /\ [Next]_vars => StopInv'
    BY StopStep
  <1>3. Inv /\ StopInv => StopIsHeard
    BY DEF StopInv, Heard, StopIsHeard
  <1> QED  BY <1>1, <1>2, <1>3, Invariant, PTL DEF Spec

-----------------------------------------------------------------------------
(* The row of the job queue behind a message. *)

LEMMA OverlapStays ==
  ASSUME [Next]_vars, "overlap" \notin excused' PROVE "overlap" \notin excused
  <1>1. excused' = excused \/ \E e \in {"overlap", "beside"} : excused' = excused \cup {e}
    BY ZenonT(40) DEF Next, Run, Poll, Claim, Insert, QueueTriage, ReadLabel, Classify, Honour, Block, FindCard,
           NewCard, Evaluate, Approve, Send, MarkExecuted, Refused, BackToPending, Finish, Throw, Crash,
           Bump, Arrive, Reclaim, Compose, Skip, ApproveByHand, WriteReply, Deliver, past, vars
  <1> QED  BY <1>1

\* While nothing overlaps, a run is the only holder of a row, which is running.
LEMMA SoleHolder ==
  ASSUME Inv, "overlap" \notin excused, NEW m \in Messages, NEW p \in HolderOf(m)
  PROVE  HolderOf(m) = {p} /\ job[m] = "running"
  BY DEF HolderOf, Inv, OneInv, OneRun

\* A row nobody touches and whose holders stay is a stutter.
LEMMA PromiseStutters ==
  ASSUME NEW m \in Messages, HolderOf(m)' = HolderOf(m), job'[m] = job[m],
         "overlap" \notin excused, "overlap" \notin excused'
  PROVE  UNCHANGED Promise(m)!vars
  BY DEF Promise!vars

\* One container moves: it holds the row of a message as before, or no longer does.
LEMMA HoldersMove ==
  ASSUME NEW p \in Containers, \A q \in Containers \ {p} : work'[q] = work[q], NEW m \in Messages
  PROVE  /\ (p \in HolderOf(m)' <=> p \in HolderOf(m)) => HolderOf(m)' = HolderOf(m)
         /\ p \notin HolderOf(m)' => HolderOf(m)' = HolderOf(m) \ {p}
         /\ p \in HolderOf(m)' => HolderOf(m)' = HolderOf(m) \cup {p}
  BY DEF HolderOf, Triaging

\* A run goes on with its message, or a poll with another.
LEMMA PromiseGoesOn ==
  ASSUME "overlap" \notin excused, "overlap" \notin excused', job' = job, NEW p \in Containers,
         \A q \in Containers \ {p} : work'[q] = work[q],
         \/ work[p].pc \in {"idle", "insert"} /\ work'[p].pc \in {"insert", "enqueue", "idle"}
         \/ /\ work[p].pc \notin {"idle", "insert", "enqueue"}
            /\ work'[p].pc \notin {"idle", "insert", "enqueue"}
            /\ work'[p].msg = work[p].msg /\ work'[p].bump = work[p].bump,
         NEW m \in Messages
  PROVE  UNCHANGED Promise(m)!vars
  <1>1. p \in HolderOf(m)' <=> p \in HolderOf(m)
    BY DEF HolderOf, Triaging
  <1> QED  BY <1>1, HoldersMove, PromiseStutters

\* A run ends: with an outcome, handed back, or without a word.
LEMMA PromiseLeft ==
  ASSUME Inv, "overlap" \notin excused, "overlap" \notin excused', NEW p \in Containers, Leave(p),
         \/ job' = job
         \/ /\ ~At(p, "idle") /\ ~At(p, "insert") /\ ~At(p, "enqueue")
            /\ \E status \in {"pending", "done", "dead"} : Settle(p, status),
         NEW m \in Messages
  PROVE  [Promise(m)!Next]_(Promise(m)!vars)
  <1>0. TypeOK /\ work[p] \in WorkRec
    BY DEF Inv, TypeInv, TypeOK
  <1>1. work'[p].pc = "idle" /\ \A q \in Containers \ {p} : work'[q] = work[q]
    BY <1>0, LeaveSteps
  <1>2. HolderOf(m)' = HolderOf(m) \ {p}
    BY <1>1, HoldersMove DEF HolderOf, Triaging
  <1>3. CASE p \notin HolderOf(m)
    <2>1. job'[m] = job[m]
      BY <1>0, <1>3 DEF Settle, HolderOf, Triaging, At, TypeOK
    <2> QED  BY <1>2, <1>3, <2>1, PromiseStutters
  <1>4. CASE p \in HolderOf(m)
    <2>1. HolderOf(m) = {p} /\ HolderOf(m)' = {} /\ job[m] = "running"
      BY <1>2, <1>4, SoleHolder
    <2>2. job'[m] = job[m] \/ job'[m] \in {"done", "dead"} \cup {"pending"}
      BY <1>0 DEF Settle, TypeOK
    <2>3. Promise(m)!GiveUp \/ Promise(m)!Settle(p)
      BY <2>1, <2>2 DEF Promise!GiveUp, Promise!Settle
    <2> QED  BY <2>3 DEF Promise!Next
  <1> QED  BY <1>3, <1>4

\* The row is inserted, and claimed.
LEMMA PromiseClaimed ==
  ASSUME Inv, "overlap" \notin excused, "overlap" \notin excused', NEW p \in Containers,
         QueueTriage(p) \/ \E n \in Messages : Claim(p, n), NEW m \in Messages
  PROVE  [Promise(m)!Next]_(Promise(m)!vars)
  <1>0. TypeOK /\ work[p] \in WorkRec /\ work[p].msg \in Messages
    BY DEF Inv, TypeInv, TypeOK, WorkRec
  <1>1. CASE QueueTriage(p)
    <2>1. work'[p].pc = "idle" /\ \A q \in Containers \ {p} : work'[q] = work[q]
      BY <1>0, <1>1, LeaveSteps DEF QueueTriage
    <2>2. HolderOf(m)' = HolderOf(m)
      BY <1>1, <2>1, HoldersMove DEF QueueTriage, At, HolderOf, Triaging
    <2>3. CASE m = work[p].msg
      <3>1. job[m] = "none" /\ job'[m] = "pending"
        BY <1>0, <1>1, <2>3 DEF QueueTriage, Inv, OneInv, QueuedOnce, TypeOK
      <3>2. Promise(m)!Queue
        BY <2>2, <3>1 DEF Promise!Queue
      <3> QED  BY <3>2 DEF Promise!Next
    <2>4. CASE m # work[p].msg
      <3>1. job'[m] = job[m]
        BY <1>0, <1>1, <2>4 DEF QueueTriage, TypeOK
      <3> QED  BY <2>2, <3>1, PromiseStutters
    <2> QED  BY <2>3, <2>4
  <1>2. ASSUME NEW n \in Messages, Claim(p, n) PROVE [Promise(m)!Next]_(Promise(m)!vars)
    <2> DEFINE r == [Idle EXCEPT !.pc = "label", !.msg = n]
    <2>1. r \in WorkRec /\ r.pc = "label" /\ r.msg = n /\ ~r.bump
      BY IdleTyped DEF WorkRec, Idle
    <2>2. work'[p] = r /\ \A q \in Containers \ {p} : work'[q] = work[q]
      BY <1>0, <1>2, <2>1, WorkSteps DEF Claim
    <2>3. p \notin HolderOf(m) /\ (p \in HolderOf(m)' <=> m = n)
      BY <1>2, <2>1, <2>2 DEF Claim, At, HolderOf, Triaging
    <2>4. CASE m = n
      <3>1. job[m] = "pending" /\ job'[m] = "running"
        BY <1>0, <1>2, <2>4 DEF Claim, Claimable, TypeOK
      <3>2. HolderOf(m) = {}
        BY <3>1, SoleHolder
      <3>3. HolderOf(m)' = {p}
        BY <2>2, <2>3, <2>4, <3>2, HoldersMove
      <3>4. Promise(m)!Claim(p)
        BY <3>1, <3>2, <3>3 DEF Promise!Claim
      <3> QED  BY <3>4 DEF Promise!Next
    <2>5. CASE m # n
      <3>1. job'[m] = job[m]
        BY <1>0, <1>2, <2>5 DEF Claim, TypeOK
      <3> QED  BY <2>2, <2>3, <2>5, <3>1, HoldersMove, PromiseStutters
    <2> QED  BY <2>4, <2>5
  <1> QED  BY <1>1, <1>2

\* The steps of a run between its claim and its outcome.
LEMMA PromiseRuns ==
  ASSUME Inv, "overlap" \notin excused, "overlap" \notin excused', NEW p \in Containers,
         \/ \E n \in Messages : Poll(p, n)
         \/ Insert(p) /\ Goto(p, "enqueue")
         \/ ReadLabel(p) \/ Classify(p) \/ Honour(p) \/ Block(p) \/ FindCard(p) \/ NewCard(p)
         \/ Evaluate(p) \/ Approve(p) \/ Send(p) \/ MarkExecuted(p) \/ Refused(p) \/ BackToPending(p)
         \/ Throw(p) /\ At(p, "sent") /\ Goto(p, "failed") /\ job' = job,
         NEW m \in Messages
  PROVE  UNCHANGED Promise(m)!vars
  <1>0. TypeOK /\ work[p] \in WorkRec
    BY DEF Inv, TypeInv, TypeOK
  <1>1. ASSUME NEW pc \in Pcs, Goto(p, pc), pc \notin {"idle", "insert", "enqueue"},
               ~At(p, "idle"), ~At(p, "insert"), ~At(p, "enqueue"), job' = job
        PROVE  UNCHANGED Promise(m)!vars
    BY <1>0, <1>1, GotoSteps, PromiseGoesOn DEF At
  <1>2. ASSUME Done(p) \/ \E c \in Cards : Drafting(p, c),
               ~At(p, "idle"), ~At(p, "insert"), ~At(p, "enqueue"), job' = job
        PROVE  UNCHANGED Promise(m)!vars
    BY <1>0, <1>2, DoneSteps, DraftingSteps, PromiseGoesOn DEF At
  <1>3. ASSUME NEW n \in Messages, Poll(p, n) PROVE UNCHANGED Promise(m)!vars
    <2> DEFINE r == [Idle EXCEPT !.pc = "insert", !.msg = n]
    <2>1. r \in WorkRec /\ r.pc = "insert"
      BY IdleTyped DEF WorkRec, Idle
    <2>2. work'[p] = r /\ \A q \in Containers \ {p} : work'[q] = work[q]
      BY <1>0, <1>3, <2>1, WorkSteps DEF Poll
    <2> QED  BY <1>3, <2>1, <2>2, PromiseGoesOn DEF Poll, At
  <1>4. CASE Insert(p) /\ Goto(p, "enqueue")
    BY <1>0, <1>4, GotoSteps, PromiseGoesOn DEF Insert, At, Pcs
  <1>5. CASE ReadLabel(p) \/ Classify(p)
    <2>1. Goto(p, "classify") \/ \E l \in Labels : work' = [work EXCEPT ![p].pc = "act", ![p].label = l]
      BY <1>0, <1>5 DEF ReadLabel, Classify, Labels, TypeOK, WorkRec
    <2>2. ASSUME NEW l \in Labels, work' = [work EXCEPT ![p].pc = "act", ![p].label = l]
          PROVE  UNCHANGED Promise(m)!vars
      <3> DEFINE r == [work[p] EXCEPT !.pc = "act", !.label = l]
      <3>1. r \in WorkRec /\ r.pc = "act" /\ r.msg = work[p].msg /\ r.bump = work[p].bump
        BY <1>0 DEF WorkRec
      <3>2. work' = [work EXCEPT ![p] = r]
        BY <1>0, <2>2 DEF TypeOK
      <3>3. work'[p] = r /\ \A q \in Containers \ {p} : work'[q] = work[q]
        BY <1>0, <3>1, <3>2, WorkSteps
      <3>4. job' = job /\ work[p].pc \notin {"idle", "insert", "enqueue"}
        BY <1>5 DEF ReadLabel, Classify, At
      <3>5. /\ work'[p].pc \notin {"idle", "insert", "enqueue"}
            /\ work'[p].msg = work[p].msg /\ work'[p].bump = work[p].bump
        BY <3>1, <3>3
      <3> QED  BY <3>3, <3>4, <3>5, PromiseGoesOn
    <2> QED  BY <1>1, <1>5, <2>1, <2>2 DEF ReadLabel, Classify, At, Pcs
  <1>6. CASE FindCard(p) \/ NewCard(p)
    <2>1. Done(p) \/ Goto(p, "new") \/ \E c \in Cards : Drafting(p, c)
      BY <1>6 DEF FindCard, NewCard, ReplyCardFor, About
    <2> QED  BY <1>1, <1>2, <1>6, <2>1 DEF FindCard, NewCard, At, Pcs
  <1>7. CASE \/ Honour(p) \/ Block(p) \/ Evaluate(p) \/ Approve(p) \/ Send(p) \/ MarkExecuted(p)
             \/ Refused(p) \/ BackToPending(p)
             \/ Throw(p) /\ At(p, "sent") /\ Goto(p, "failed") /\ job' = job
    <2>1. \/ Done(p)
          \/ \E pc \in Pcs : Goto(p, pc) /\ pc \notin {"idle", "insert", "enqueue"}
      BY <1>7 DEF Honour, Block, Evaluate, Approve, Send, MarkExecuted, Refused, BackToPending, Pcs
    <2>2. job' = job /\ ~At(p, "idle") /\ ~At(p, "insert") /\ ~At(p, "enqueue")
      BY <1>7 DEF Honour, Block, Evaluate, Approve, Send, MarkExecuted, Refused, BackToPending, At
    <2> QED  BY <1>1, <1>2, <2>1, <2>2
  <1> QED  BY <1>3, <1>4, <1>5, <1>6, <1>7

\* A job is put back while nobody works on it; a bump starts beside the rows.
LEMMA PromiseReclaimed ==
  ASSUME Inv, "overlap" \notin excused, "overlap" \notin excused', NEW m \in Messages,
         \/ \E n \in Messages : Reclaim(n) \/ Arrive(n) \/ Compose(n)
         \/ \E p \in Containers, n \in Messages : Bump(p, n)
         \/ \E c \in Cards : Skip(c) \/ ApproveByHand(c)
         \/ WriteReply \/ Deliver \/ UNCHANGED vars
  PROVE  [Promise(m)!Next]_(Promise(m)!vars)
  <1>0. TypeOK
    BY DEF Inv, TypeInv
  <1>1. ASSUME NEW n \in Messages, Reclaim(n) PROVE [Promise(m)!Next]_(Promise(m)!vars)
    <2>1. HolderOf(m)' = HolderOf(m) /\ \A p \in Containers : ~Triaging(p, n)
      BY <1>1 DEF Reclaim, HolderOf, Triaging
    <2>2. CASE m = n
      <3>1. HolderOf(m) = {} /\ job[m] = "running" /\ job'[m] = "pending"
        BY <1>0, <1>1, <2>1, <2>2 DEF Reclaim, HolderOf, TypeOK
      <3>2. Promise(m)!Reclaim
        BY <2>1, <3>1 DEF Promise!Reclaim
      <3> QED  BY <3>2 DEF Promise!Next
    <2>3. CASE m # n
      <3>1. job'[m] = job[m]
        BY <1>0, <1>1, <2>3 DEF Reclaim, TypeOK
      <3> QED  BY <2>1, <3>1, PromiseStutters
    <2> QED  BY <2>2, <2>3
  <1>2. ASSUME NEW p \in Containers, NEW n \in Messages, Bump(p, n)
        PROVE  UNCHANGED Promise(m)!vars
    <2> DEFINE r == [Idle EXCEPT !.pc = "new", !.msg = n, !.bump = TRUE]
    <2>1. r \in WorkRec /\ r.bump
      BY IdleTyped DEF WorkRec, Idle, Labels
    <2>2. work'[p] = r /\ \A q \in Containers \ {p} : work'[q] = work[q]
      BY <1>0, <1>2, <2>1, WorkSteps DEF Bump
    <2>3. p \notin HolderOf(m) /\ p \notin HolderOf(m)'
      BY <1>2, <2>1, <2>2 DEF Bump, At, HolderOf, Triaging
    <2> QED  BY <1>2, <2>2, <2>3, HoldersMove, PromiseStutters DEF Bump
  <1>3. CASE \/ \E n \in Messages : Arrive(n) \/ Compose(n)
             \/ \E c \in Cards : Skip(c) \/ ApproveByHand(c)
             \/ WriteReply \/ Deliver \/ UNCHANGED vars
    <2>1. work' = work /\ job' = job
      BY <1>3 DEF Arrive, Compose, Skip, ApproveByHand, WriteReply, Deliver, vars
    <2>2. HolderOf(m)' = HolderOf(m)
      BY <2>1 DEF HolderOf, Triaging
    <2> QED  BY <2>1, <2>2, PromiseStutters
  <1> QED  BY <1>1, <1>2, <1>3

\* Every step of the intake is a step of every row's promise.
LEMMA PromiseStep ==
  Inv /\ [Next]_vars => \A m \in Messages : [Promise(m)!Next]_(Promise(m)!vars)
  <1> SUFFICES ASSUME Inv, [Next]_vars, NEW m \in Messages
               PROVE  [Promise(m)!Next]_(Promise(m)!vars)
    OBVIOUS
  <1>0. CASE "overlap" \in excused'
    BY <1>0 DEF Promise!Next, Promise!Overrun
  <1> SUFFICES ASSUME "overlap" \notin excused' PROVE [Promise(m)!Next]_(Promise(m)!vars)
    BY <1>0
  <1>a. "overlap" \notin excused
    BY OverlapStays
  <1>1. ASSUME NEW p \in Containers, Run(p) \/ Throw(p) \/ Crash(p)
        PROVE  [Promise(m)!Next]_(Promise(m)!vars)
    <2>1. CASE Insert(p) /\ Leave(p)
      BY <1>a, <2>1, PromiseLeft DEF Insert
    <2>2. CASE Finish(p) \/ Crash(p)
      BY <1>a, <2>2, PromiseLeft DEF Finish, Crash, At
    <2>3. CASE Throw(p)
      <3>1. CASE At(p, "sent") /\ Goto(p, "failed") /\ job' = job
        BY <1>a, <2>3, <3>1, PromiseRuns
      <3>2. CASE Leave(p) /\ job' = job
        BY <1>a, <3>2, PromiseLeft
      <3>3. CASE /\ Leave(p) /\ ~At(p, "idle") /\ ~At(p, "insert") /\ ~At(p, "enqueue")
                 /\ Settle(p, "pending") \/ Settle(p, "dead")
        BY <1>a, <3>3, PromiseLeft
      <3> QED  BY <2>3, <3>1, <3>2, <3>3 DEF Throw
    <2> QED  BY <1>1, <1>a, <2>1, <2>2, <2>3, PromiseRuns, PromiseClaimed DEF Run, Insert
  <1> QED  BY <1>1, <1>a, PromiseReclaimed DEF Next

\* The intake implements OneJob for every message: until a run outlives its lease,
\* the triage job of a message is queued once, run by one container at a time, and
\* settled only by the run that holds it.
THEOREM IntakeKeepsPromise == Spec => JobsKeepPromise
  <1>1. Init => \A m \in Messages : Promise(m)!Init
    BY DEF Init, Promise!Init, HolderOf, Triaging, Idle
  <1>2. Inv /\ [Next]_vars => [\A m \in Messages : [Promise(m)!Next]_(Promise(m)!vars)]_vars
    BY PromiseStep
  <1> QED  BY <1>1, <1>2, Invariant, PTL DEF Spec, JobsKeepPromise

=============================================================================
