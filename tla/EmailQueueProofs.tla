-------------------------- MODULE EmailQueueProofs --------------------------
(***************************************************************************)
(* "One key, one send" for any number of concurrent calls and attempts,    *)
(* and that deliver() implements OneSend.                                  *)
(***************************************************************************)
EXTENDS EmailQueue, FiniteSetTheorems, TLAPS

\* What the rows, the wire and the provider say of one attempt agree.
RowsAgree ==
    \A k \in Attempts :
        /\ audit[k] = "none" => wire[k] = "idle"
        /\ taken[k] => wire[k] = "done"
        /\ audit[k] \in {"accepted", "bounced"} => taken[k]
        /\ audit[k] = "inflight" /\ wire[k] = "done" => taken[k]

\* A call has seen every attempt before its own refused.
CallsInOrder ==
    \A c \in Callers, k \in Attempts :
        caller[c].pc # "idle" /\ k < caller[c].attempt => Refused(audit[k])

\* A call that began after an attempt was accepted is still probing or done,
\* and the attempt it will find is still there.
KnewWell ==
    \A c \in Callers : caller[c].knew =>
        /\ \E k \in Attempts : audit[k] \in {"accepted", "bounced"}
        /\ caller[c].pc \in {"idle", "probing"}
        /\ caller[c].answer \in {"none", "receipt", "suppressed", "unavailable"}

Safe == TypeOK /\ RowsAgree /\ AttemptsInOrder /\ CallsInOrder

-----------------------------------------------------------------------------

\* The rows a step of a call may write: it enqueues its attempt, or nothing.
CallWrites(c) ==
    /\ taken' = taken
    /\ \/ audit' = audit /\ wire' = wire
       \/ /\ caller[c].pc = "queueing"
          /\ audit[caller[c].attempt] = "none"
          /\ audit' = [audit EXCEPT ![caller[c].attempt] = "inflight"]
          /\ wire' = [wire EXCEPT ![caller[c].attempt] = "waiting"]

\* Where a step of a call may leave it.
CallMoves(c) ==
    /\ caller' \in [Callers -> CallerRec]
    /\ \A d \in Callers \ {c} : caller'[d] = caller[d]
    /\ \/ caller'[c].pc = "idle"
       \/ caller'[c].pc = "probing" /\ caller'[c].attempt = 1
       \/ caller[c].pc # "idle" /\ caller'[c].attempt = caller[c].attempt
       \/ /\ caller[c].pc # "idle"
          /\ caller'[c].attempt = caller[c].attempt + 1
          /\ Refused(audit[caller[c].attempt])

LEMMA Verdicts == ASSUME NEW s PROVE Verdict(s) \in Answers \cup {"none"}
  BY DEF Verdict, Answers

LEMMA Refusals == ASSUME NEW s PROVE RefusalOf(s) \in Answers
  BY DEF RefusalOf, Answers

LEMMA AnswerMoves ==
  ASSUME TypeOK, NEW c \in Callers, NEW a \in Answers, Answer(c, a)
  PROVE  CallMoves(c)
  BY ZenonT(40) DEF TypeOK, Answer, CallMoves, CallerRec

LEMMA GotoMoves ==
  ASSUME TypeOK, NEW c \in Callers, ~At(c, "idle"),
         NEW pc \in {"idle", "probing", "queueing", "waiting"}, Goto(c, pc)
  PROVE  CallMoves(c)
  BY DEF TypeOK, Goto, At, CallMoves, CallerRec

\* A step of a call writes at most the row it enqueues and stays in order.
LEMMA CallStep ==
  ASSUME TypeOK, NEW c \in Callers, Call(c)
  PROVE  CallWrites(c) /\ CallMoves(c) /\ paused' = paused /\ suppressed' = suppressed
  <1> USE DEF provider, gates
  <1>1. CASE Deliver(c)
    BY <1>1, AttemptsAssumption
    DEF Deliver, TypeOK, CallWrites, CallMoves, CallerRec, Attempts, Answers
  <1>2. CASE ProbeEnds(c)
    <2>1. CASE Goto(c, "queueing")
      BY <1>2, <2>1, GotoMoves DEF ProbeEnds, CallWrites, At
    <2>2. CASE Verdict(audit[caller[c].attempt]) # "none"
               /\ Answer(c, Verdict(audit[caller[c].attempt]))
      BY <1>2, <2>2, AnswerMoves, Verdicts DEF ProbeEnds, CallWrites, At
    <2> QED BY <1>2, <2>1, <2>2 DEF ProbeEnds
  <1>3. CASE ProbeNext(c)
    <2>1. CASE Answer(c, "exhausted")
      BY <1>3, <2>1, AnswerMoves DEF ProbeNext, CallWrites, Answers
    <2>2. CASE /\ ~LastAttempt(caller[c].attempt)
               /\ caller' = [caller EXCEPT ![c].attempt = caller[c].attempt + 1]
      <3> DEFINE k == caller[c].attempt
      <3>1. k \in Attempts /\ k + 1 \in Attempts
        BY <2>2, AttemptsAssumption DEF TypeOK, CallerRec, Attempts, LastAttempt
      <3>2. caller' = [caller EXCEPT ![c].attempt = k + 1]
        BY <2>2
      <3> HIDE DEF k
      <3>3. caller' \in [Callers -> CallerRec]
        BY <3>1, <3>2 DEF TypeOK, CallerRec
      <3>4. /\ caller'[c].attempt = k + 1
            /\ \A d \in Callers \ {c} : caller'[d] = caller[d]
        BY <3>2 DEF TypeOK, CallerRec
      <3> QED BY <1>3, <3>3, <3>4 DEF ProbeNext, CallWrites, CallMoves, At, k
    <2> QED BY <1>3, <2>1, <2>2 DEF ProbeNext
  <1>4. CASE Gate(c)
    BY <1>4, AnswerMoves DEF Gate, CallWrites, Answers
  <1>5. CASE Submit(c)
    BY <1>5, GotoMoves DEF Submit, CallWrites, At, Enqueued
  <1>6. CASE Unavailable(c)
    BY <1>6, AnswerMoves DEF Unavailable, CallWrites, At, Enqueued, Answers
  <1>7. CASE Poll(c)
    BY <1>7, AnswerMoves, Refusals DEF Poll, CallWrites, Answers
  <1>8. CASE Deadline(c)
    BY <1>8, AnswerMoves DEF Deadline, CallWrites, Answers
  <1>9. CASE Crash(c)
    BY <1>9, GotoMoves DEF Crash, CallWrites
  <1> QED BY <1>1, <1>2, <1>3, <1>4, <1>5, <1>6, <1>7, <1>8, <1>9 DEF Call

\* The strengthening of the safety properties is inductive.
LEMMA SafeStep == Safe /\ [Next]_vars => Safe'
  <1> SUFFICES ASSUME Safe, [Next]_vars PROVE Safe'
    OBVIOUS
  <1> USE DEF Safe
  <1>1. ASSUME NEW c \in Callers, Call(c) PROVE Safe'
    <2>1. CallWrites(c) /\ CallMoves(c) /\ paused' = paused /\ suppressed' = suppressed
      BY <1>1, CallStep
    <2> DEFINE k == caller[c].attempt
    <2>2. k \in Attempts
      BY DEF TypeOK, CallerRec
    <2>3. TypeOK'
      BY <2>1, <2>2 DEF TypeOK, CallWrites, CallMoves, Statuses
    <2>4. RowsAgree'
      BY <2>1, <2>2 DEF TypeOK, RowsAgree, CallWrites
    <2>5. AttemptsInOrder'
      BY <2>1, <2>2, ZenonT(40) DEF TypeOK, RowsAgree, AttemptsInOrder, CallsInOrder, CallWrites, Refused,
                        Attempts
    <2>6. \A l \in Attempts : Refused(audit[l]) => Refused(audit'[l])
      BY <2>1, <2>2 DEF TypeOK, CallWrites, Refused
    <2>7. CallsInOrder'
      <3> SUFFICES ASSUME NEW d \in Callers, NEW l \in Attempts,
                          caller'[d].pc # "idle", l < caller'[d].attempt
                   PROVE  Refused(audit'[l])
        BY DEF CallsInOrder, Refused
      <3>1. CASE d # c
        BY <3>1, <2>1, <2>6 DEF CallsInOrder, CallMoves
      <3>2. CASE d = c
        BY <3>2, <2>1, <2>2, <2>6 DEF CallsInOrder, CallMoves, TypeOK, CallerRec, Attempts
      <3> QED BY <3>1, <3>2
    <2> QED BY <2>3, <2>4, <2>5, <2>7
  <1>2. ASSUME NEW k \in Attempts, Worker(k) PROVE Safe'
    <2> USE DEF provider, gates
    <2>0. caller' = caller
      BY <1>2 DEF Worker, WorkerTakes, ProviderTakes, RecordAccepted, LoseTrack, Bounce, Refuse
    <2>1. TypeOK'
      BY <1>2 DEF Worker, WorkerTakes, ProviderTakes, RecordAccepted, LoseTrack, Bounce, Refuse,
                  TypeOK, Statuses
    <2>2. RowsAgree'
      BY <1>2 DEF Worker, WorkerTakes, ProviderTakes, RecordAccepted, LoseTrack, Bounce, Refuse,
                  TypeOK, RowsAgree
    <2>3. AttemptsInOrder'
      BY <1>2, ZenonT(40) DEF Worker, WorkerTakes, ProviderTakes, RecordAccepted, LoseTrack, Bounce, Refuse,
                  TypeOK, RowsAgree, AttemptsInOrder, Refused, Attempts
    <2>4. \A l \in Attempts : Refused(audit[l]) => Refused(audit'[l])
      BY <1>2 DEF Worker, WorkerTakes, ProviderTakes, RecordAccepted, LoseTrack, Bounce, Refuse,
                  TypeOK, Refused
    <2>5. CallsInOrder'
      BY <2>0, <2>4 DEF CallsInOrder, Refused
    <2> QED BY <2>1, <2>2, <2>3, <2>5
  <1>3. CASE Resume \/ Suppress \/ UNCHANGED vars
    BY <1>3 DEF Resume, Suppress, vars, provider, TypeOK, RowsAgree, AttemptsInOrder,
                CallsInOrder, Refused
  <1> QED BY <1>1, <1>2, <1>3 DEF Next

LEMMA SafeInit == Init => Safe
  <1> SUFFICES ASSUME Init PROVE Safe
    OBVIOUS
  <1>1. 1 \in Attempts
    BY AttemptsAssumption DEF Attempts
  <1>2. TypeOK
    BY <1>1 DEF Init, TypeOK, Statuses, CallerRec
  <1>3. RowsAgree /\ AttemptsInOrder /\ CallsInOrder
    BY DEF Init, RowsAgree, AttemptsInOrder, CallsInOrder, Refused
  <1> QED BY <1>2, <1>3 DEF Safe

LEMMA QueueSafe == Spec => []Safe
  BY SafeInit, SafeStep, PTL DEF Spec

\* Every reachable state of the mail queue is well typed.
THEOREM MailTypeCorrect == Spec => []TypeOK
  BY QueueSafe, PTL DEF Safe

\* A later attempt exists only after the earlier ones were definitely refused.
THEOREM AttemptsOrdered == Spec => []AttemptsInOrder
  BY QueueSafe, PTL DEF Safe

\* The provider takes at most one attempt of a key.
THEOREM SentAtMostOnce == Spec => []OneKeyOneSend
  <1>1. Safe => OneKeyOneSend
    BY DEF Safe, TypeOK, RowsAgree, AttemptsInOrder, OneKeyOneSend, Attempts, Refused
  <1> QED BY <1>1, QueueSafe, PTL

-----------------------------------------------------------------------------
(* Answers *)

\* What a step of a call may say: nothing new, or something the rows back up.
CallSays(c) ==
    /\ \A d \in Callers \ {c} : caller'[d] = caller[d]
    /\ \/ caller'[c].answer \in {caller[c].answer, "none"}
       \/ /\ caller'[c].answer \in Answers
          /\ caller'[c].answer = "receipt" => \E k \in Attempts : audit[k] = "accepted"
          /\ caller'[c].answer = "exhausted" => Refused(audit[MaxAttempts])

LEMMA AnswerSays ==
  ASSUME TypeOK, NEW c \in Callers, NEW a \in Answers, Answer(c, a),
         a = "receipt" => \E k \in Attempts : audit[k] = "accepted",
         a = "exhausted" => Refused(audit[MaxAttempts])
  PROVE  CallSays(c)
  BY DEF TypeOK, Answer, CallSays, CallerRec

LEMMA GotoSays ==
  ASSUME TypeOK, NEW c \in Callers, NEW pc, Goto(c, pc)
  PROVE  CallSays(c)
  BY DEF TypeOK, Goto, CallSays, CallerRec

\* An answer of a call is true of the rows it read.
LEMMA CallAnswer ==
  ASSUME TypeOK, NEW c \in Callers, Call(c)
  PROVE  CallSays(c)
  <1>1. CASE Deliver(c)
    BY <1>1 DEF Deliver, TypeOK, CallSays, CallerRec
  <1>2. CASE ProbeEnds(c)
    <2>1. CASE Goto(c, "queueing")
      BY <2>1, GotoSays
    <2>2. CASE Verdict(audit[caller[c].attempt]) # "none"
               /\ Answer(c, Verdict(audit[caller[c].attempt]))
      <3>1. caller[c].attempt \in Attempts
        BY DEF TypeOK, CallerRec
      <3>2. Verdict(audit[caller[c].attempt]) \in Answers \ {"exhausted"}
        BY <2>2 DEF Verdict, Answers
      <3>3. Verdict(audit[caller[c].attempt]) = "receipt"
              => audit[caller[c].attempt] = "accepted"
        BY DEF Verdict
      <3> QED BY <2>2, <3>1, <3>2, <3>3, AnswerSays
    <2> QED BY <1>2, <2>1, <2>2 DEF ProbeEnds
  <1>3. CASE ProbeNext(c)
    <2>1. CASE LastAttempt(caller[c].attempt) /\ Answer(c, "exhausted")
      BY <1>3, <2>1, AnswerSays DEF ProbeNext, LastAttempt, Answers
    <2>2. CASE caller' = [caller EXCEPT ![c].attempt = caller[c].attempt + 1]
      BY <2>2 DEF CallSays, TypeOK, CallerRec
    <2> QED BY <1>3, <2>1, <2>2 DEF ProbeNext
  <1>4. CASE Gate(c)
    BY <1>4, AnswerSays DEF Gate, Answers
  <1>5. CASE Submit(c)
    BY <1>5, GotoSays DEF Submit
  <1>6. CASE Unavailable(c)
    BY <1>6, AnswerSays DEF Unavailable, Answers
  <1>7. CASE Poll(c)
    <2> DEFINE status == audit[caller[c].attempt]
    <2>1. caller[c].attempt \in Attempts
      BY DEF TypeOK, CallerRec
    <2>2. RefusalOf(status) \in Answers \ {"receipt", "exhausted"}
      BY DEF RefusalOf, Answers
    <2>3. CASE status = "accepted"
      BY <1>7, <2>1, <2>3, AnswerSays DEF Poll, Answers
    <2>4. CASE status # "accepted"
      BY <1>7, <2>2, <2>4, AnswerSays DEF Poll
    <2> QED BY <2>3, <2>4
  <1>8. CASE Deadline(c)
    BY <1>8, AnswerSays DEF Deadline, Answers
  <1>9. CASE Crash(c)
    BY <1>9, GotoSays DEF Crash
  <1> QED BY <1>1, <1>2, <1>3, <1>4, <1>5, <1>6, <1>7, <1>8, <1>9 DEF Call

\* deliver() reports a message as sent only when the provider has it.
THEOREM ReceiptsHonest == Spec => []ReceiptsAreTrue
  <1>1. Init => ReceiptsAreTrue
    BY DEF Init, ReceiptsAreTrue
  <1>2. Safe /\ ReceiptsAreTrue /\ [Next]_vars => ReceiptsAreTrue'
    <2> SUFFICES ASSUME Safe, ReceiptsAreTrue, [Next]_vars PROVE ReceiptsAreTrue'
      OBVIOUS
    <2>1. ASSUME NEW c \in Callers, Call(c) PROVE ReceiptsAreTrue'
      <3>1. taken' = taken /\ CallSays(c)
        BY <2>1, CallStep, CallAnswer DEF CallWrites, Safe
      <3>2. (\E k \in Attempts : audit[k] = "accepted") => \E k \in Attempts : taken[k]
        BY DEF Safe, RowsAgree
      <3> QED BY <3>1, <3>2 DEF ReceiptsAreTrue, CallSays
    <2>2. ASSUME NEW k \in Attempts, Worker(k) PROVE ReceiptsAreTrue'
      BY <2>2 DEF Worker, WorkerTakes, ProviderTakes, RecordAccepted, LoseTrack, Bounce, Refuse,
                  provider, gates, ReceiptsAreTrue, Safe, TypeOK
    <2>3. CASE Resume \/ Suppress \/ UNCHANGED vars
      BY <2>3 DEF Resume, Suppress, vars, provider, ReceiptsAreTrue
    <2> QED BY <2>1, <2>2, <2>3 DEF Next
  <1> QED BY <1>1, <1>2, QueueSafe, PTL DEF Spec

\* While an attempt is on record as out, a call in order finds it: the attempt
\* it probes is refused only if it is an earlier one.
LEMMA Finds ==
  ASSUME Safe, NEW c \in Callers, caller[c].pc # "idle",
         NEW k \in Attempts, audit[k] \in {"accepted", "bounced"}
  PROVE  /\ caller[c].attempt <= k
         /\ ~Refused(audit[caller[c].attempt]) => caller[c].attempt = k
  <1>1. caller[c].attempt \in Attempts /\ k \in Nat /\ caller[c].attempt \in Nat
    BY DEF Safe, TypeOK, CallerRec, Attempts
  <1>2. ~Refused(audit[k]) /\ audit[k] # "none"
    BY DEF Refused
  <1>3. ~(k < caller[c].attempt)
    BY <1>2 DEF Safe, CallsInOrder
  <1>4. caller[c].attempt < k => Refused(audit[caller[c].attempt])
    BY <1>1, <1>2 DEF Safe, AttemptsInOrder
  <1> QED BY <1>1, <1>3, <1>4

\* "A replay returns the earlier receipt."
THEOREM ReplaysReturnReceipt == Spec => []ReplayReturnsReceipt
  <1>1. Init => KnewWell
    BY DEF Init, KnewWell
  <1>2. Safe /\ KnewWell /\ [Next]_vars => KnewWell'
    <2> SUFFICES ASSUME Safe, KnewWell, [Next]_vars PROVE KnewWell'
      OBVIOUS
    <2>1. ASSUME NEW c \in Callers, Call(c) PROVE KnewWell'
      <3> SUFFICES ASSUME NEW d \in Callers, caller'[d].knew
                   PROVE /\ \E k \in Attempts : audit'[k] \in {"accepted", "bounced"}
                         /\ caller'[d].pc \in {"idle", "probing"}
                         /\ caller'[d].answer \in {"none", "receipt", "suppressed", "unavailable"}
        BY DEF KnewWell
      <3>1. CallWrites(c) /\ CallMoves(c)
        BY <2>1, CallStep DEF Safe
      <3>2. \A k \in Attempts : audit[k] \in {"accepted", "bounced"} => audit'[k] = audit[k]
        BY <3>1 DEF CallWrites, Safe, TypeOK, CallerRec
      <3>3. CASE d # c
        BY <3>1, <3>2, <3>3 DEF KnewWell, CallMoves
      <3>4. CASE d = c /\ Deliver(c)
        BY <3>2, <3>4 DEF Deliver, Safe, TypeOK, CallerRec
      <3>5. CASE d = c /\ ~Deliver(c)
        <4>1. caller[c].knew
          BY <2>1, <3>5 DEF Call, ProbeEnds, ProbeNext, Gate, Submit, Unavailable, Poll, Deadline,
                       Crash, Answer, Goto, Safe, TypeOK, CallerRec
        <4>2. PICK k \in Attempts : audit[k] \in {"accepted", "bounced"}
          BY <4>1 DEF KnewWell
        <4>3. caller[c].pc # "idle" =>
                /\ caller[c].attempt <= k
                /\ ~Refused(audit[caller[c].attempt]) => caller[c].attempt = k
          BY <4>2, Finds
        <4>4. caller[c].pc \in {"idle", "probing"}
              /\ caller[c].answer \in {"none", "receipt", "suppressed", "unavailable"}
          BY <4>1 DEF KnewWell
        <4>5. ProbeEnds(c) \/ ProbeNext(c) \/ Unavailable(c) \/ Crash(c)
          BY <2>1, <3>5, <4>4 DEF Call, Gate, Submit, Poll, Deadline, At
        <4>6. CASE ProbeEnds(c)
          <5>1. caller[c].attempt = k
            BY <4>3, <4>6 DEF ProbeEnds, At
          <5>2. Verdict(audit[k]) \in {"receipt", "suppressed"}
            BY <4>2 DEF Verdict
          <5>3. Answer(c, Verdict(audit[k]))
            BY <4>6, <5>1, <5>2 DEF ProbeEnds
          <5>4. caller'[c].pc = "idle" /\ caller'[c].answer \in {"receipt", "suppressed"}
            BY <5>2, <5>3 DEF Answer, Safe, TypeOK, CallerRec
          <5> QED BY <5>4, <3>5, <3>2, <4>2
        <4>7. CASE ProbeNext(c)
          <5>1. caller[c].attempt # MaxAttempts
            <6>1. caller[c].attempt # k
              BY <4>2, <4>7 DEF ProbeNext, Refused
            <6> QED BY <6>1, <4>3, <4>7, AttemptsAssumption
                    DEF ProbeNext, At, Attempts, Safe, TypeOK, CallerRec
          <5>2. caller' = [caller EXCEPT ![c].attempt = caller[c].attempt + 1]
            BY <4>7, <5>1 DEF ProbeNext, LastAttempt
          <5>3. caller'[c].pc = caller[c].pc /\ caller'[c].answer = caller[c].answer
            BY <5>2 DEF Safe, TypeOK, CallerRec
          <5> QED BY <5>3, <4>4, <3>5, <3>2, <4>2
        <4>8. CASE Unavailable(c)
          <5>1. caller'[c].pc = "idle" /\ caller'[c].answer = "unavailable"
            BY <4>8 DEF Unavailable, Answer, Safe, TypeOK, CallerRec
          <5> QED BY <5>1, <3>5, <3>2, <4>2
        <4>9. CASE Crash(c)
          <5>1. caller'[c].pc = "idle" /\ caller'[c].answer = caller[c].answer
            BY <4>9 DEF Crash, Goto, Safe, TypeOK, CallerRec
          <5> QED BY <5>1, <4>4, <3>5, <3>2, <4>2
        <4> QED BY <4>5, <4>6, <4>7, <4>8, <4>9
      <3> QED BY <3>3, <3>4, <3>5
    <2>2. ASSUME NEW k \in Attempts, Worker(k) PROVE KnewWell'
      <3>1. caller' = caller
        BY <2>2 DEF Worker, WorkerTakes, ProviderTakes, RecordAccepted, LoseTrack, Bounce, Refuse
      <3>2. \A l \in Attempts : audit[l] \in {"accepted", "bounced"}
                                 => audit'[l] \in {"accepted", "bounced"}
        BY <2>2 DEF Worker, WorkerTakes, ProviderTakes, RecordAccepted, LoseTrack, Bounce, Refuse,
                    Safe, TypeOK
      <3> QED BY <3>1, <3>2 DEF KnewWell
    <2>3. CASE Resume \/ Suppress \/ UNCHANGED vars
      BY <2>3 DEF Resume, Suppress, vars, KnewWell
    <2> QED BY <2>1, <2>2, <2>3 DEF Next
  <1>3. KnewWell => ReplayReturnsReceipt
    BY DEF KnewWell, ReplayReturnsReceipt
  <1> QED BY <1>1, <1>2, <1>3, QueueSafe, PTL DEF Spec

-----------------------------------------------------------------------------
(* Refinement *)

LEMMA CopiesNone ==
  ASSUME \A k \in Attempts : ~taken[k] PROVE Copies = 0
  <1>1. {k \in Attempts : taken[k]} = {}
    OBVIOUS
  <1> QED BY <1>1, FS_EmptySet DEF Copies

LEMMA CopiesOne ==
  ASSUME NEW k \in Attempts, \A l \in Attempts : taken[l] <=> l = k PROVE Copies = 1
  <1>1. {l \in Attempts : taken[l]} = {k}
    OBVIOUS
  <1> QED BY <1>1, FS_Singleton DEF Copies

LEMMA CopiesOneNext ==
  ASSUME NEW k \in Attempts, \A l \in Attempts : taken'[l] <=> l = k PROVE Copies' = 1
  <1>1. {l \in Attempts : taken'[l]} = {k}
    OBVIOUS
  <1> QED BY <1>1, FS_Singleton DEF Copies

\* While the worker has an attempt on the wire, the provider has none.
LEMMA Untaken ==
  ASSUME Safe, NEW k \in Attempts, wire[k] = "sending"
  PROVE  \A l \in Attempts : ~taken[l]
  <1> SUFFICES ASSUME NEW l \in Attempts, taken[l] PROVE FALSE
    OBVIOUS
  <1>1. l = k \/ l < k \/ k < l
    BY DEF Attempts
  <1>2. wire[l] = "done" /\ audit[l] # "none" /\ audit[k] # "none"
    BY DEF Safe, RowsAgree
  <1>3. CASE l = k
    BY <1>2, <1>3
  <1>4. CASE l < k
    BY <1>2, <1>4 DEF Safe, AttemptsInOrder
  <1>5. CASE k < l
    BY <1>2, <1>5 DEF Safe, AttemptsInOrder
  <1> QED BY <1>1, <1>3, <1>4, <1>5

\* deliver() implements OneSend: every step of the queue, its worker and the
\* provider is a step of the promise or changes nothing the promise speaks of.
THEOREM QueueKeepsPromise == Spec => Promise!Spec
  <1>1. Init => Promise!Init
    <2> SUFFICES ASSUME Init PROVE Promise!Init
      OBVIOUS
    <2>1. Copies = 0
      BY CopiesNone DEF Init
    <2>2. ~Refused(audit[MaxAttempts])
      BY AttemptsAssumption DEF Init, Refused, Attempts
    <2> QED BY <2>1, <2>2 DEF Init, Promise!Init
  <1>2. Safe /\ OneKeyOneSend /\ [Next]_vars => [Promise!Next]_(Promise!vars)
    <2> SUFFICES ASSUME Safe, OneKeyOneSend, [Next]_vars
                 PROVE  [Promise!Next]_(Promise!vars)
      OBVIOUS
    <2> DEFINE answers == [c \in Callers |-> caller[c].answer]
    <2>0. MaxAttempts \in Attempts
      BY AttemptsAssumption DEF Attempts
    <2>1. ASSUME NEW c \in Callers, Call(c) PROVE [Promise!Next]_(Promise!vars)
      <3>1. CallWrites(c) /\ CallMoves(c) /\ CallSays(c)
        BY <2>1, CallStep, CallAnswer DEF Safe
      <3>2. Copies' = Copies
        BY <3>1 DEF CallWrites, Copies
      <3>3. Refused(audit[MaxAttempts])' = Refused(audit[MaxAttempts])
        BY <3>1, <2>0 DEF CallWrites, Refused, Safe, TypeOK, CallerRec
      <3>4. answers' = [answers EXCEPT ![c] = caller'[c].answer]
        BY <3>1 DEF CallSays
      <3>5. CASE caller'[c].answer = caller[c].answer
        <4>1. answers' = answers
          BY <3>4, <3>5
        <4> QED BY <3>2, <3>3, <4>1 DEF Promise!vars
      <3>6. CASE caller'[c].answer = "none"
        BY <3>2, <3>3, <3>4, <3>6 DEF Promise!Next, Promise!Ask
      <3>7. CASE /\ caller'[c].answer \in Answers
                 /\ caller'[c].answer = "receipt" => \E k \in Attempts : audit[k] = "accepted"
                 /\ caller'[c].answer = "exhausted" => Refused(audit[MaxAttempts])
        <4>1. ASSUME NEW k \in Attempts, audit[k] = "accepted" PROVE Copies = 1
          <5>1. taken[k] /\ \A l \in Attempts : taken[l] <=> l = k
            BY <4>1 DEF Safe, RowsAgree, OneKeyOneSend
          <5> QED BY <5>1, CopiesOne
        <4>2. ASSUME Refused(audit[MaxAttempts]) PROVE Copies = 0
          <5>1. \A k \in Attempts : k = MaxAttempts \/ k < MaxAttempts
            BY AttemptsAssumption DEF Attempts
          <5>2. \A k \in Attempts : ~taken[k]
            BY <2>0, <4>2, <5>1 DEF Safe, AttemptsInOrder, Refused
          <5> QED BY <5>2, CopiesNone
        <4>3. PICK a \in Answers : a = caller'[c].answer
          BY <3>7
        <4>4. a = "receipt" => Copies = 1
          BY <3>7, <4>1, <4>3
        <4>5. a = "exhausted" => Refused(audit[MaxAttempts]) /\ Copies = 0
          BY <3>7, <4>2, <4>3
        <4>6. Promise!Tell(c, a)
          BY <3>2, <3>3, <3>4, <4>3, <4>4, <4>5 DEF Promise!Tell
        <4> QED BY <4>6 DEF Promise!Next
      <3> QED BY <3>1, <3>5, <3>6, <3>7 DEF CallSays
    <2>2. ASSUME NEW k \in Attempts, Worker(k) PROVE [Promise!Next]_(Promise!vars)
      <3>0. answers' = answers
        BY <2>2 DEF Worker, WorkerTakes, ProviderTakes, RecordAccepted, LoseTrack, Bounce, Refuse
      <3>1. CASE ProviderTakes(k)
        <4>1. \A l \in Attempts : ~taken[l]
          BY <3>1, Untaken DEF ProviderTakes
        <4>2. \A l \in Attempts : taken'[l] <=> l = k
          BY <3>1, <4>1 DEF ProviderTakes, Safe, TypeOK
        <4>3. Copies = 0
          BY <4>1, CopiesNone
        <4>4. Copies' = 1
          BY <4>2, CopiesOneNext
        <4>5. ~Refused(audit[MaxAttempts])
          <5>1. k = MaxAttempts \/ k < MaxAttempts
            BY AttemptsAssumption DEF Attempts
          <5> QED BY <2>0, <3>1, <5>1 DEF ProviderTakes, Safe, AttemptsInOrder, Refused
        <4>6. audit' = audit
          BY <3>1 DEF ProviderTakes
        <4> QED BY <3>0, <4>3, <4>4, <4>5, <4>6 DEF Promise!Next, Promise!Send, Refused
      <3>2. CASE \E status \in {"failed", "suppressed"} : Refuse(k, status)
        <4>1. Copies' = Copies
          BY <3>2 DEF Refuse, Copies
        <4>2. CASE k = MaxAttempts
          <5>1. \A l \in Attempts : l = MaxAttempts \/ l < MaxAttempts
            BY AttemptsAssumption DEF Attempts
          <5>2. \A l \in Attempts : ~taken[l]
            BY <2>0, <3>2, <4>2, <5>1 DEF Refuse, Safe, RowsAgree, AttemptsInOrder, Refused
          <5>3. Copies = 0
            BY <5>2, CopiesNone
          <5>4. Refused(audit'[MaxAttempts])
            BY <3>2, <4>2 DEF Refuse, Refused, Safe, TypeOK
          <5> QED BY <3>0, <4>1, <5>3, <5>4 DEF Promise!Next, Promise!Spend, Refused
        <4>3. CASE k # MaxAttempts
          <5>1. audit'[MaxAttempts] = audit[MaxAttempts]
            BY <2>0, <3>2, <4>3 DEF Refuse, Safe, TypeOK
          <5> QED BY <3>0, <4>1, <5>1 DEF Promise!vars, Refused
        <4> QED BY <4>2, <4>3
      <3>3. CASE WorkerTakes(k) \/ RecordAccepted(k) \/ LoseTrack(k) \/ Bounce(k)
        <4>1. Copies' = Copies
          BY <3>3 DEF WorkerTakes, RecordAccepted, LoseTrack, Bounce, provider, Copies
        <4>2. Refused(audit'[MaxAttempts]) = Refused(audit[MaxAttempts])
          BY <2>0, <3>3 DEF WorkerTakes, RecordAccepted, LoseTrack, Bounce, Refused, Safe, TypeOK
        <4> QED BY <3>0, <4>1, <4>2 DEF Promise!vars, Refused
      <3> QED BY <2>2, <3>1, <3>2, <3>3 DEF Worker
    <2>3. CASE Resume \/ Suppress \/ UNCHANGED vars
      BY <2>3 DEF Resume, Suppress, vars, provider, Copies, Refused, Promise!vars
    <2> QED BY <2>1, <2>2, <2>3 DEF Next
  <1> QED BY <1>1, <1>2, QueueSafe, SentAtMostOnce, PTL DEF Spec, Promise!Spec
=============================================================================
