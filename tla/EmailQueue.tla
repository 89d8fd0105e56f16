----------------------------- MODULE EmailQueue -----------------------------
(***************************************************************************)
(* OutreachEmailQueue.deliver (packages/email/src/queue.ts) for one stable *)
(* key in one mailbox.  Every attempt has an audit row of its own, under   *)
(* the key or key:attempt-N; the rows of different keys and mailboxes have *)
(* nothing in common.  The queue's worker, which talks to the provider, is *)
(* a package outside the repository: its steps here are what the statuses  *)
(* deliver() distinguishes say it may do.                                  *)
(***************************************************************************)
EXTENDS Naturals, FiniteSets

CONSTANTS
    Callers,       \* concurrent calls with this key: API, autopilot, held job
    MaxAttempts    \* MAX_ATTEMPTS

ASSUME AttemptsAssumption == MaxAttempts \in Nat \ {0}

VARIABLES
    audit,         \* status of the audit row of each attempt
    wire,          \* what the worker is doing with each attempt
    taken,         \* truth: the provider has this attempt's message
    caller,        \* where each call of deliver() is
    paused,        \* the provider stopped this mailbox
    suppressed     \* the recipient is on the queue's suppression list

vars == <<audit, wire, taken, caller, paused, suppressed>>

-----------------------------------------------------------------------------

Attempts == 1..MaxAttempts

\* "accepted" stands for ACCEPTED, "inflight" for IN_FLIGHT and "bounced" for
\* RECIPIENT_FINAL; "failed" and "suppressed" are the other final states.
Statuses == {"none", "inflight", "accepted", "unknown", "bounced", "failed", "suppressed"}
Final    == Statuses \ {"none", "inflight"}

\* The provider certainly does not have it: the only states that let deliver()
\* make another attempt.
Refused_OrUnknown(status) == status \in {"failed", "suppressed", "unknown"}
Refused_OrInFlight(status) == status \in {"failed", "suppressed", "inflight"}
Refused(status) == status \in {"failed", "suppressed"}

Answers == {"receipt", "uncertain", "suppressed", "exhausted", "paused", "refused",
            "quota", "pending", "unavailable"}

\* `knew`: an attempt was recorded as accepted before this call began.
CallerRec == [pc : {"idle", "probing", "queueing", "waiting"}, attempt : Attempts,
              answer : Answers \cup {"none"}, knew : BOOLEAN]

Copies == Cardinality({k \in Attempts : taken[k]})

Init ==
    /\ audit = [k \in Attempts |-> "none"]
    /\ wire = [k \in Attempts |-> "idle"]
    /\ taken = [k \in Attempts |-> FALSE]
    /\ caller = [c \in Callers |-> [pc |-> "idle", attempt |-> 1, answer |-> "none",
                                    knew |-> FALSE]]
    /\ paused = FALSE
    /\ suppressed = FALSE

provider == <<wire, taken>>
gates    == <<paused, suppressed>>

At(c, pc) == caller[c].pc = pc
Goto(c, pc) == caller' = [caller EXCEPT ![c].pc = pc]
Answer(c, a) == caller' = [caller EXCEPT ![c].pc = "idle", ![c].answer = a]

\* A call begins; the key's rows may already tell how an earlier call ended.
Deliver(c) ==
    /\ At(c, "idle")
    /\ caller' = [caller EXCEPT ![c] =
                   [pc |-> "probing", attempt |-> 1, answer |-> "none",
                    knew |-> \E k \in Attempts : audit[k] = "accepted"]]
    /\ UNCHANGED <<audit, provider, gates>>

\* What the row of the attempt at hand answers at once.
Verdict_Eager(status) ==
    CASE status \in {"accepted", "inflight"} -> "receipt"
      [] status = "unknown" -> "uncertain"
      [] status = "bounced" -> "suppressed"
      [] OTHER -> "none"
Verdict_Forgets(status) ==
    CASE status = "unknown" -> "uncertain"
      [] status = "bounced" -> "suppressed"
      [] OTHER -> "none"
Verdict(status) ==
    CASE status = "accepted" -> "receipt"
      [] status = "unknown"  -> "uncertain"
      [] status = "bounced"  -> "suppressed"
      [] OTHER               -> "none"

LastAttempt_Off(k) == k > MaxAttempts
LastAttempt(k) == k = MaxAttempts

\* The loop over attempts: one read of the audit store each time round.
ProbeEnds(c) ==
    LET status == audit[caller[c].attempt] IN
    /\ At(c, "probing")
    /\ ~Refused(status)
    /\ IF Verdict(status) = "none" THEN Goto(c, "queueing") ELSE Answer(c, Verdict(status))
    /\ UNCHANGED <<audit, provider, gates>>

ProbeNext(c) ==
    LET k == caller[c].attempt IN
    /\ At(c, "probing")
    /\ Refused(audit[k])
    /\ IF LastAttempt(k) THEN Answer(c, "exhausted")
                         ELSE caller' = [caller EXCEPT ![c].attempt = k + 1]
    /\ UNCHANGED <<audit, provider, gates>>

\* queueEmail creates the row and the job once per id; a second submission of
\* the same id joins the first.
Enqueued(k) ==
    IF audit[k] = "none"
    THEN /\ audit' = [audit EXCEPT ![k] = "inflight"]
         /\ wire' = [wire EXCEPT ![k] = "waiting"]
    ELSE UNCHANGED <<audit, wire>>

\* The gates of queueEmail, in front of the queue.
Gate(c) ==
    /\ At(c, "queueing")
    /\ \/ paused /\ Answer(c, "paused")
       \/ suppressed /\ Answer(c, "suppressed")
       \/ Answer(c, "quota")
    /\ UNCHANGED <<audit, provider, gates>>

Submit(c) ==
    /\ At(c, "queueing")
    /\ ~paused
    /\ ~suppressed
    /\ Enqueued(caller[c].attempt)
    /\ Goto(c, "waiting")
    /\ UNCHANGED <<taken, gates>>

\* The audit store or Redis cannot be reached; the submission may have landed.
Unavailable(c) ==
    /\ At(c, "probing") \/ At(c, "queueing")
    /\ \/ UNCHANGED <<audit, wire>>
       \/ At(c, "queueing") /\ Enqueued(caller[c].attempt)
    /\ Answer(c, "unavailable")
    /\ UNCHANGED <<taken, gates>>

\* #refusal: a stopped mailbox is reported first, then an uncertain outcome.
RefusalOf(status) ==
    CASE paused                            -> "paused"
      [] ~paused /\ status = "unknown"    -> "uncertain"
      [] ~paused /\ status = "suppressed" -> "suppressed"
      [] OTHER                             -> "refused"

\* #waitFor: the row has become final.
Poll(c) ==
    LET status == audit[caller[c].attempt] IN
    /\ At(c, "waiting")
    /\ status \in Final
    /\ Answer(c, IF status = "accepted" THEN "receipt" ELSE RefusalOf(status))
    /\ UNCHANGED <<audit, provider, gates>>

\* #waitFor: two minutes are over.  A failed read counts as a row that is not
\* final, so this is said beside a final row too.
Deadline(c) ==
    /\ At(c, "waiting")
    /\ Answer(c, "pending")
    /\ UNCHANGED <<audit, provider, gates>>

\* The calling process dies: nobody gets an answer.
Crash(c) ==
    /\ ~At(c, "idle")
    /\ Goto(c, "idle")
    /\ UNCHANGED <<audit, provider, gates>>

-----------------------------------------------------------------------------
(* The worker and the provider. *)

WorkerTakes(k) ==
    /\ wire[k] = "waiting"
    /\ wire' = [wire EXCEPT ![k] = "sending"]
    /\ UNCHANGED <<audit, taken, caller, gates>>

\* The provider takes the message; when the worker had already given up on the
\* connection, the row says UNKNOWN and stays so.
ProviderTakes(k) ==
    /\ wire[k] = "sending"
    /\ taken' = [taken EXCEPT ![k] = TRUE]
    /\ wire' = [wire EXCEPT ![k] = "done"]
    /\ UNCHANGED <<audit, caller, gates>>

RecordAccepted(k) ==
    /\ wire[k] = "done"
    /\ audit[k] = "inflight"
    /\ audit' = [audit EXCEPT ![k] = "accepted"]
    /\ UNCHANGED <<provider, caller, gates>>

\* The provider, or a gate the worker asks again, refuses the message; some
\* refusals stop the mailbox.
Refuse(k, status) ==
    /\ wire[k] \in {"waiting", "sending"}
    /\ audit[k] = "inflight"
    /\ audit' = [audit EXCEPT ![k] = status]
    /\ wire' = [wire EXCEPT ![k] = "done"]
    /\ paused' \in {paused, TRUE}
    /\ UNCHANGED <<taken, caller, suppressed>>

\* The worker dies, or times out, between the send and its record.
LoseTrack(k) ==
    /\ wire[k] \in {"sending", "done"}
    /\ audit[k] = "inflight"
    /\ audit' = [audit EXCEPT ![k] = "unknown"]
    /\ UNCHANGED <<provider, caller, gates>>

\* A bounce or complaint comes back for a message that went out.
Bounce(k) ==
    /\ audit[k] = "accepted"
    /\ audit' = [audit EXCEPT ![k] = "bounced"]
    /\ suppressed' = TRUE
    /\ UNCHANGED <<provider, caller, paused>>

\* resumeEmailQueue, and an unsubscribe.
Resume   == paused /\ paused' = FALSE /\ UNCHANGED <<audit, provider, caller, suppressed>>
Suppress == ~suppressed /\ suppressed' = TRUE /\ UNCHANGED <<audit, provider, caller, paused>>

Worker(k) ==
    \/ WorkerTakes(k) \/ ProviderTakes(k) \/ RecordAccepted(k) \/ LoseTrack(k) \/ Bounce(k)
    \/ \E status \in {"failed", "suppressed"} : Refuse(k, status)

Call(c) ==
    \/ Deliver(c) \/ ProbeEnds(c) \/ ProbeNext(c) \/ Gate(c) \/ Submit(c)
    \/ Unavailable(c) \/ Poll(c) \/ Deadline(c) \/ Crash(c)

Next ==
    \/ \E c \in Callers : Call(c)
    \/ \E k \in Attempts : Worker(k)
    \/ Resume
    \/ Suppress

Spec == Init /\ [][Next]_vars

-----------------------------------------------------------------------------
(***************************************************************************)
(* Properties                                                              *)
(***************************************************************************)

\* Rows, worker and callers are of their types.
TypeOK ==
    /\ audit \in [Attempts -> Statuses]
    /\ wire \in [Attempts -> {"idle", "waiting", "sending", "done"}]
    /\ taken \in [Attempts -> BOOLEAN]
    /\ caller \in [Callers -> CallerRec]
    /\ paused \in BOOLEAN
    /\ suppressed \in BOOLEAN

\* "One key, one send": whatever the interleaving of calls, crashes, timeouts
\* and lost acknowledgements, the provider takes at most one of the attempts.
OneKeyOneSend == \A k, l \in Attempts : taken[k] /\ taken[l] => k = l

\* MAX_ATTEMPTS' comment: a later attempt exists only when the earlier ones
\* were definitely refused, and a refused attempt is not at the provider.
AttemptsInOrder ==
    /\ \A k \in Attempts : Refused(audit[k]) => ~taken[k] /\ wire[k] = "done"
    /\ \A k, l \in Attempts : k < l /\ audit[l] # "none" => Refused(audit[k])

\* deliver() reports a message as sent only when the provider has it.
ReceiptsAreTrue ==
    \A c \in Callers : caller[c].answer = "receipt" => \E k \in Attempts : taken[k]

\* "a replay returns the earlier receipt": a call that begins after an attempt
\* was recorded as accepted ends in the receipt, or in the news that it bounced
\* since, unless the audit store is down; it never says pending or exhausted.
ReplayReturnsReceipt ==
    \A c \in Callers :
        caller[c].knew => caller[c].answer \in {"none", "receipt", "suppressed", "unavailable"}

\* deliver() implements the promise of OneSend.
Promise == INSTANCE OneSend WITH
    copies <- Copies,
    spent  <- Refused(audit[MaxAttempts]),
    answer <- [c \in Callers |-> caller[c].answer]
KeepsPromise == Promise!Spec
=============================================================================
