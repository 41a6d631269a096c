--------------------------- MODULE OutgoingPayment ---------------------------
(***************************************************************************)
(* The outgoing Lightning payment: the lnInvoicePaymentSend request        *)
(* (src/app/send_payment.rs), the TrackPayments subscription and its       *)
(* consumer (src/lnd/subscription.rs, src/app/handle_payment_update.rs),   *)
(* the orphan-hold sweep (src/app/sweep_orphan_holds.rs) and the two       *)
(* writers of terminal outbox rows they share (src/app/commit_payment.rs), *)
(* against the external LND node and the external Symphony ledger.         *)
(*                                                                         *)
(* An action runs from one await whose result another task can influence   *)
(* to the next.  A database transaction is one step.  Time is abstracted   *)
(* to one question: can a row pass the sweep's idle threshold while its    *)
(* request is still at work on it?                                         *)
(*                                                                         *)
(* A definition X_Something that stands before X is X with one plausible   *)
(* defect; the properties below are checked to notice it.                  *)
(***************************************************************************)
EXTENDS Payment

CONSTANTS
    Hash,        \* payment hashes
    Sender,      \* concurrent lnInvoicePaymentSend requests
    ChanCap,     \* capacity of the update channel (64 in cli.rs)
    Faults,      \* which failures the environment may inject
    SlowRequests \* may a request outlast ORPHAN_HOLD_IDLE_THRESHOLD?

FaultKind == {"crash",       \* the process dies and is restarted
              "db",          \* a statement or a commit errors, perhaps after taking effect
              "disconnect",  \* the TrackPayments stream breaks
              "symphony",    \* AuthorizeSpend errors, perhaps after posting the hold
              "lookup",      \* TrackPaymentV2 errors or exceeds LND_LOOKUP_TIMEOUT
              "malformed",   \* a Track message cannot be parsed, or any lacks its preimage
              "send_error"}  \* after LND accepted the payment SendPaymentV2 errors, or its
                             \* first message cannot be parsed or has another hash

ASSUME ConstantsAssumption ==
    /\ "none" \notin Hash
    /\ ChanCap \in Nat \ {0}
    /\ Faults \subseteq FaultKind
    /\ SlowRequests \in BOOLEAN

VARIABLES
    log,      \* payment_events: the persisted event log of each hash
    outbox,   \* outbox_events of each hash, in sequence order
    hold,     \* Symphony: the payments AuthorizeSpend posted a hold for
    lnd,      \* LND: status of the payment
    sub,      \* the TrackPayments stream: open or closed
    track,    \* messages LND has put on the stream, per hash
    chan,     \* mpsc channel between subscription and consumer
    snd,      \* lnInvoicePaymentSend requests
    wk        \* the subscription consumer and the orphan-hold sweep

vars == <<log, outbox, hold, lnd, sub, track, chan, snd, wk>>

LndStatus == {"InFlight", "Succeeded", "Failed"}
LndFinal == {"Succeeded", "Failed"}
Worker == {"consumer", "sweep"}

State(h) == try_from_events(log[h])

Idle == [pc |-> "idle", hash |-> "none", status |-> "none", ent |-> <<>>]

Init ==
    /\ log = [h \in Hash |-> <<>>]
    /\ outbox = [h \in Hash |-> <<>>]
    /\ hold = {}
    /\ lnd = [h \in Hash |-> "NotFound"]
    /\ sub = "closed"
    /\ track = [h \in Hash |-> <<>>]
    /\ chan = <<>>
    /\ snd = [s \in Sender |->
                [pc |-> "idle", hash |-> "none", ent |-> <<>>, reply |-> "none"]]
    /\ wk = [w \in Worker |-> Idle]

------------------------------------------------------------------------------
(* Persistence *)

update_in_op_Unversioned(h, base, events) ==
    log' = [log EXCEPT ![h] = @ \o SubSeq(events, Len(base) + 1, Len(events))]

\* update_in_op: the new events are inserted under PRIMARY KEY (id, sequence),
\* so the write succeeds only if no event was added since `base` was loaded.
update_in_op(h, base, events) ==
    /\ Len(log[h]) = Len(base)
    /\ log' = [log EXCEPT ![h] = events]

\* The transaction of commit_completed and commit_failed: the command must have
\* executed in memory, then the events and the outbox row commit together.
CommitTx(h, base, cmd, out) ==
    /\ cmd.result = "Executed"
    /\ update_in_op(h, base, cmd.events)
    /\ outbox' = [outbox EXCEPT ![h] = Append(@, out)]

\* The command returned AlreadyApplied or InvalidStateTransition, or the write
\* met ConcurrentModification: nothing is stored.
CommitRefused(h, base, cmd) ==
    /\ cmd.result # "Executed" \/ Len(log[h]) # Len(base)
    /\ UNCHANGED <<log, outbox>>

\* A database error; when the answer to COMMIT is lost the write did happen.
CommitFault(h, base, cmd, out) ==
    /\ "db" \in Faults
    /\ UNCHANGED <<log, outbox>> \/ CommitTx(h, base, cmd, out)

------------------------------------------------------------------------------
(* The request: App::send_payment *)

Reply(s, h, r) ==
    snd' = [snd EXCEPT ![s] = [pc |-> "idle", hash |-> h, ent |-> <<>>, reply |-> r]]

Goto(s, pc) ==
    snd' = [snd EXCEPT ![s] = [pc |-> pc, hash |-> snd[s].hash,
                               ent |-> snd[s].ent, reply |-> snd[s].reply]]

\* Emit a status on the TrackPayments stream, if it is open.
Emit(h, st) ==
    track' = IF sub = "open" THEN [track EXCEPT ![h] = Append(@, st)] ELSE track

persist_intent_PaidIsSuccess(s, h) ==
    /\ snd[s].pc = "idle"
    /\ IF log[h] = <<>>
       THEN /\ log' = [log EXCEPT ![h] = into_events]
            /\ outbox' = [outbox EXCEPT ![h] = Append(@, "OutgoingPaymentInitiated")]
            /\ snd' = [snd EXCEPT ![s] =
                  [pc |-> "authorize", hash |-> h, ent |-> into_events, reply |-> "none"]]
       ELSE Reply(s, h, "SUCCESS") /\ UNCHANGED <<log, outbox>>
    /\ UNCHANGED <<hold, lnd, sub, track, chan, wk>>

persist_intent_Silent(s, h) ==
    /\ snd[s].pc = "idle" /\ log[h] = <<>>
    /\ log' = [log EXCEPT ![h] = into_events]
    /\ snd' = [snd EXCEPT ![s] =
         [pc |-> "authorize", hash |-> h, ent |-> into_events, reply |-> "none"]]
    /\ UNCHANGED <<outbox, hold, lnd, sub, track, chan, wk>>

\* One transaction: the Payment row with its Initiated event, and the
\* OutgoingPaymentInitiated outbox row.  UNIQUE(payment_hash) => AlreadyPaid.
persist_intent(s, h) ==
    /\ snd[s].pc = "idle"
    /\ \/ /\ log[h] = <<>>
          /\ log' = [log EXCEPT ![h] = into_events]
          /\ outbox' = [outbox EXCEPT ![h] = Append(@, "OutgoingPaymentInitiated")]
          /\ \/ snd' = [snd EXCEPT ![s] =
                  [pc |-> "authorize", hash |-> h, ent |-> into_events, reply |-> "none"]]
             \/ "db" \in Faults /\ Reply(s, h, "FAILURE")
       \/ /\ log[h] # <<>>
          /\ Reply(s, h, "ALREADY_PAID")
          /\ UNCHANGED <<log, outbox>>
       \/ /\ "db" \in Faults
          /\ Reply(s, h, "FAILURE")
          /\ UNCHANGED <<log, outbox>>
    /\ UNCHANGED <<hold, lnd, sub, track, chan, wk>>

authorize_spend_FailOpen(s) ==
    LET h == snd[s].hash IN
    /\ snd[s].pc = "authorize"
    /\ \/ hold' = hold \cup {h}
       \/ "symphony" \in Faults /\ UNCHANGED hold
    /\ Goto(s, "send")
    /\ UNCHANGED <<log, outbox, lnd, sub, track, chan, wk>>

\* AuthorizeSpend: approved, declined, or an error that fails closed.
authorize_spend(s) ==
    LET h == snd[s].hash IN
    /\ snd[s].pc = "authorize"
    /\ \/ hold' = hold \cup {h} /\ Goto(s, "send")
       \/ UNCHANGED hold /\ Goto(s, "fail_inline")
       \/ /\ "symphony" \in Faults
          /\ hold' = hold \cup {h}
          /\ Goto(s, "fail_inline")
    /\ UNCHANGED <<log, outbox, lnd, sub, track, chan, wk>>

\* SendPaymentV2 reaches LND, which refuses the payment or takes it in flight.
lnd_send_payment(s) ==
    LET h == snd[s].hash IN
    /\ snd[s].pc = "send"
    /\ \/ /\ lnd' = [lnd EXCEPT ![h] = "InFlight"]
          /\ Emit(h, "InFlight")
          /\ Goto(s, "await")
       \/ /\ UNCHANGED <<lnd, track>>
          /\ Goto(s, "fail_inline")
    /\ UNCHANGED <<log, outbox, hold, sub, chan, wk>>

dispatch_response_Optimistic(s) ==
    /\ snd[s].pc = "await"
    /\ Goto(s, "settle_inline")
    /\ UNCHANGED <<log, outbox, hold, lnd, sub, track, chan, wk>>

\* The first message of the SendPaymentV2 stream, emitted at any time since LND
\* accepted, decides; so does its absence.  Whatever is not a message of this
\* payment is taken for a failure of it; only a Succeeded message without a
\* preimage returns an error and leaves the row as it is.
dispatch_response(s) ==
    LET h == snd[s].hash IN
    /\ snd[s].pc = "await"
    /\ \/ Goto(s, "transition_to_pending")
       \/ lnd[h] = "Succeeded" /\ Goto(s, "settle_inline")
       \/ (lnd[h] = "Failed" \/ "send_error" \in Faults) /\ Goto(s, "fail_inline")
       \/ "malformed" \in Faults /\ lnd[h] = "Succeeded" /\ Reply(s, h, "FAILURE")
    /\ UNCHANGED <<log, outbox, hold, lnd, sub, track, chan, wk>>

\* PaymentSendResult of the state a Payment is returned in (mutation.rs).
SendResult(state) ==
    IF state \in {"Initiated", "Pending"} THEN "PENDING"
    ELSE IF state = "Completed" THEN "SUCCESS" ELSE "FAILURE"

\* A state-only update; ConcurrentModification is answered by a reload.
transition_to_pending(s) ==
    LET h == snd[s].hash
        base == snd[s].ent
        cmd == mark_pending(base)
    IN  /\ snd[s].pc = "transition_to_pending"
        /\ \/ /\ cmd.result = "Executed"
              /\ update_in_op(h, base, cmd.events)
              /\ Reply(s, h, "PENDING") \/ ("db" \in Faults /\ Reply(s, h, "FAILURE"))
           \/ /\ Len(log[h]) # Len(base)
              /\ Reply(s, h, SendResult(State(h)))
              /\ UNCHANGED log
           \/ /\ "db" \in Faults
              /\ Reply(s, h, "FAILURE")
              /\ UNCHANGED log
        /\ UNCHANGED <<outbox, hold, lnd, sub, track, chan, wk>>

\* mark_pending in memory, then the shared writer stores both events at once.
\* Any error, ConcurrentModification included, is replied as FAILURE.
inline_commit(s, cmd, out, ok) ==
    LET h == snd[s].hash
        base == snd[s].ent
    IN  /\ \/ CommitTx(h, base, cmd, out) /\ Reply(s, h, ok)
           \/ CommitRefused(h, base, cmd) /\ Reply(s, h, "FAILURE")
           \/ CommitFault(h, base, cmd, out) /\ Reply(s, h, "FAILURE")
        /\ UNCHANGED <<hold, lnd, sub, track, chan, wk>>

settle_inline(s) ==
    /\ snd[s].pc = "settle_inline"
    /\ inline_commit(s, settle(mark_pending(snd[s].ent).events),
                     "OutgoingPaymentCompleted", "SUCCESS")

fail_inline(s) ==
    /\ snd[s].pc = "fail_inline"
    /\ inline_commit(s, fail(mark_pending(snd[s].ent).events),
                     "OutgoingPaymentFailed", "FAILURE")

------------------------------------------------------------------------------
(* The TrackPayments subscription *)

Connect_NoReplay ==
    /\ sub = "closed"
    /\ sub' = "open"
    /\ UNCHANGED <<log, outbox, hold, lnd, track, chan, snd, wk>>

\* On (re)connect LND replays the payments it knows.
Connect ==
    /\ sub = "closed"
    /\ sub' = "open"
    /\ track' = [h \in Hash |-> IF lnd[h] = "NotFound" THEN <<>> ELSE <<lnd[h]>>]
    /\ UNCHANGED <<log, outbox, hold, lnd, chan, snd, wk>>

Disconnect ==
    /\ "disconnect" \in Faults
    /\ sub = "open"
    /\ sub' = "closed"
    /\ track' = [h \in Hash |-> <<>>]
    /\ UNCHANGED <<log, outbox, hold, lnd, chan, snd, wk>>

drive_stream_Unbounded(h) ==
    /\ track[h] # <<>>
    /\ track' = [track EXCEPT ![h] = Tail(@)]
    /\ chan' = Append(chan, [hash |-> h, status |-> Head(track[h])])
    /\ UNCHANGED <<log, outbox, hold, lnd, sub, snd, wk>>

\* drive_stream: forward one message, waiting for room in the channel; a
\* message that cannot be parsed is skipped.
drive_stream(h) ==
    /\ track[h] # <<>>
    /\ track' = [track EXCEPT ![h] = Tail(@)]
    /\ \/ /\ Len(chan) < ChanCap
          /\ chan' = Append(chan, [hash |-> h, status |-> Head(track[h])])
       \/ "malformed" \in Faults /\ UNCHANGED chan
    /\ UNCHANGED <<log, outbox, hold, lnd, sub, snd, wk>>

\* handle_payment_update up to the commit: an unknown hash and InFlight are
\* ignored; a load error or a missing preimage is logged and the update is lost.
handle_payment_update ==
    /\ wk["consumer"].pc = "idle"
    /\ chan # <<>>
    /\ chan' = Tail(chan)
    /\ LET u == Head(chan) IN
       \/ /\ u.status \in LndFinal /\ log[u.hash] # <<>>
          /\ wk' = [wk EXCEPT !["consumer"] =
               [pc |-> "commit", hash |-> u.hash, status |-> u.status, ent |-> log[u.hash]]]
       \/ /\ u.status = "InFlight" \/ log[u.hash] = <<>>
          /\ UNCHANGED wk
       \/ /\ Faults \cap {"db", "malformed"} # {}
          /\ UNCHANGED wk
    /\ UNCHANGED <<log, outbox, hold, lnd, sub, track, snd>>

------------------------------------------------------------------------------
(* The orphan-hold sweep *)

\* A row older than the idle threshold.
PastIdle(h) ==
    SlowRequests \/ \A s \in Sender : snd[s].pc = "idle" \/ snd[s].hash # h

\* list_stranded_initiated, then the load of one listed row.
reconcile_orphan_hold(h) ==
    /\ wk["sweep"].pc = "idle"
    /\ State(h) = "Initiated" /\ PastIdle(h)
    /\ wk' = [wk EXCEPT !["sweep"] =
         [pc |-> "lookup", hash |-> h, status |-> "none", ent |-> log[h]]]
    /\ UNCHANGED <<log, outbox, hold, lnd, sub, track, chan, snd>>

LookedUp(st) ==
    wk' = [wk EXCEPT !["sweep"] =
        [pc |-> "commit", hash |-> wk["sweep"].hash, status |-> st, ent |-> wk["sweep"].ent]]

lookup_payment_BlindVoid ==
    /\ wk["sweep"].pc = "lookup"
    /\ LookedUp(IF lnd[wk["sweep"].hash] = "Succeeded" THEN "Succeeded" ELSE "Failed")
    /\ UNCHANGED <<log, outbox, hold, lnd, sub, track, chan, snd>>

lookup_payment_FailedOnly ==
    /\ wk["sweep"].pc = "lookup"
    /\ IF lnd[wk["sweep"].hash] = "Failed"
       THEN LookedUp("Failed")
       ELSE wk' = [wk EXCEPT !["sweep"] = Idle]
    /\ UNCHANGED <<log, outbox, hold, lnd, sub, track, chan, snd>>

\* lookup_payment: only a final status is acted on.
lookup_payment ==
    LET h == wk["sweep"].hash IN
    /\ wk["sweep"].pc = "lookup"
    /\ \/ /\ lnd[h] \in LndFinal
          /\ LookedUp(lnd[h])
       \/ /\ lnd[h] \notin LndFinal \/ Faults \cap {"lookup", "malformed"} # {}
          /\ wk' = [wk EXCEPT !["sweep"] = Idle]
    /\ UNCHANGED <<log, outbox, hold, lnd, sub, track, chan, snd>>

\* commit_completed / commit_failed as called by the consumer and the sweep.
\* An error is only logged.
commit_terminal(w) ==
    LET h == wk[w].hash
        base == wk[w].ent
        paid == wk[w].status = "Succeeded"
        cmd == IF paid THEN settle(base) ELSE fail(base)
        out == IF paid THEN "OutgoingPaymentCompleted" ELSE "OutgoingPaymentFailed"
    IN  /\ wk[w].pc = "commit"
        /\ \/ CommitTx(h, base, cmd, out)
           \/ CommitRefused(h, base, cmd)
           \/ CommitFault(h, base, cmd, out)
        /\ wk' = [wk EXCEPT ![w] = Idle]
        /\ UNCHANGED <<hold, lnd, sub, track, chan, snd>>

------------------------------------------------------------------------------
(* The environment *)

\* LND settles or fails a payment in flight.
LndResolve(h, st) ==
    /\ lnd[h] = "InFlight"
    /\ lnd' = [lnd EXCEPT ![h] = st]
    /\ Emit(h, st)
    /\ UNCHANGED <<log, outbox, hold, sub, chan, snd, wk>>

\* The process dies between two steps: every task, the channel and the stream
\* are gone; the database, LND and Symphony keep their state.
Crash ==
    /\ "crash" \in Faults
    /\ sub' = "closed"
    /\ track' = [h \in Hash |-> <<>>]
    /\ chan' = <<>>
    /\ snd' = [s \in Sender |->
                 [pc |-> "idle", hash |-> "none", ent |-> <<>>, reply |-> "none"]]
    /\ wk' = [w \in Worker |-> Idle]
    /\ UNCHANGED <<log, outbox, hold, lnd>>

RequestStep(s) ==
    \/ authorize_spend(s)
    \/ lnd_send_payment(s)
    \/ dispatch_response(s)
    \/ transition_to_pending(s)
    \/ settle_inline(s)
    \/ fail_inline(s)

Next ==
    \/ \E s \in Sender, h \in Hash : persist_intent(s, h)
    \/ \E s \in Sender : RequestStep(s)
    \/ Connect
    \/ Disconnect
    \/ \E h \in Hash : drive_stream(h)
    \/ handle_payment_update
    \/ \E h \in Hash : reconcile_orphan_hold(h)
    \/ lookup_payment
    \/ \E w \in Worker : commit_terminal(w)
    \/ \E h \in Hash, st \in LndFinal : LndResolve(h, st)
    \/ Crash

Spec == Init /\ [][Next]_vars
\* Scheduling: a spawned task runs on, an RPC or a query returns, the
\* subscription reconnects, and every sweep tick walks all stranded rows.
\* What is retried for ever does not fail for ever (SF).
\* Nothing obliges a client to pay, LND to resolve, or a fault to happen.
Fairness ==
    /\ \A s \in Sender : WF_vars(RequestStep(s))
    /\ WF_vars(Connect)
    /\ \A h \in Hash : SF_vars(drive_stream(h) /\ chan' # chan)
    /\ WF_vars(handle_payment_update)
    /\ SF_vars(handle_payment_update /\ wk' # wk)
    /\ \A h \in Hash : SF_vars(reconcile_orphan_hold(h))
    /\ WF_vars(lookup_payment)
    /\ SF_vars(lookup_payment /\ wk'["sweep"].pc = "commit")
    /\ \A w \in Worker : WF_vars(commit_terminal(w))
    /\ \A w \in Worker : SF_vars(commit_terminal(w) /\ log' # log)

FairSpec == Spec /\ Fairness

------------------------------------------------------------------------------
(* Properties *)

SenderPc == {"idle", "authorize", "send", "await", "transition_to_pending",
             "settle_inline", "fail_inline"}

OutboxEvent == {"OutgoingPaymentInitiated", "OutgoingPaymentCompleted",
                "OutgoingPaymentFailed"}

PaymentUpdate == [hash : Hash, status : LndStatus]

Request ==
    [pc : SenderPc, hash : Hash \cup {"none"}, ent : Seq(PaymentEvent),
     reply : {"none", "PENDING", "SUCCESS", "FAILURE", "ALREADY_PAID"}]

Task ==
    [pc : {"idle", "lookup", "commit"}, hash : Hash \cup {"none"},
     status : LndStatus \cup {"none"}, ent : Seq(PaymentEvent)]

\* Every variable keeps the type of the column, channel or task state it models.
TypeOK ==
    /\ log \in [Hash -> Seq(PaymentEvent)]
    /\ outbox \in [Hash -> Seq(OutboxEvent)]
    /\ hold \subseteq Hash
    /\ lnd \in [Hash -> LndStatus \cup {"NotFound"}]
    /\ sub \in {"open", "closed"}
    /\ track \in [Hash -> Seq(LndStatus)]
    /\ chan \in Seq(PaymentUpdate) /\ Len(chan) <= ChanCap
    /\ snd \in [Sender -> Request]
    /\ wk \in [Worker -> Task]

\* The two invariants of send_payment: LND knows a payment only if its hold was
\* posted and its intent row is durable, whatever crashed in between.
HoldBeforeLnd ==
    \A h \in Hash : lnd[h] # "NotFound" => h \in hold /\ log[h] # <<>>

OutboxOf(state) ==
    IF state = "Absent" THEN <<>>
    ELSE IF state = "Completed"
         THEN <<"OutgoingPaymentInitiated", "OutgoingPaymentCompleted">>
    ELSE IF state = "Failed"
         THEN <<"OutgoingPaymentInitiated", "OutgoingPaymentFailed">>
    ELSE <<"OutgoingPaymentInitiated">>

\* The outbox of a payment is determined by its row: Initiated exactly once, one
\* terminal event exactly when the row is terminal, and of the same kind, though
\* request, consumer and sweep race to write it.
OutboxMatchesRow == \A h \in Hash : outbox[h] = OutboxOf(State(h))

\* A row is Completed only if LND paid.
CompletedOnlyIfPaid == \A h \in Hash : State(h) = "Completed" => lnd[h] = "Succeeded"

\* A row is Failed, and so its hold released, only if LND does not and never
\* will pay.
FailedOnlyIfUnpaid == \A h \in Hash : State(h) = "Failed" => lnd[h] \in {"NotFound", "Failed"}

\* A request that answers SUCCESS leaves a Completed row; one that answers
\* PENDING leaves a payment that LND did accept.
ReplyTruthful ==
    \A s \in Sender :
        /\ snd[s].reply = "SUCCESS" => State(snd[s].hash) = "Completed"
        /\ snd[s].reply = "PENDING" => lnd[snd[s].hash] # "NotFound"

\* A request answers FAILURE only for a payment LND did not make.
FailureReplyTruthful ==
    \A s \in Sender : snd[s].reply = "FAILURE" => lnd[snd[s].hash] # "Succeeded"

\* A row the sweep found stranded has no HTLC in flight at LND.
StrandedHasNoLiveHtlc ==
    LET h == wk["sweep"].hash IN
    wk["sweep"].pc = "lookup" /\ State(h) = "Initiated" => lnd[h] # "InFlight"

\* Event logs only grow, and a terminal row is never written again: no late
\* update, replay or stale task moves a payment out of Completed or Failed.
TerminalIsFinal ==
    [][\A h \in Hash :
          /\ State(h) \in Terminal => UNCHANGED <<log[h], outbox[h]>>
          /\ SubSeq(log'[h], 1, Len(log[h])) = log[h]]_vars

\* The outbox and LND together implement the abstract payment ledger.
Ledger == INSTANCE PaymentLedger WITH stream <- outbox, paid <- lnd
ImplementsLedger == Ledger!Spec

\* A payment LND resolved does not stay `initiated` once the process stops
\* crashing: the orphan-hold sweep or the subscription moves it on.
StrandedResolves ==
    <>[][~Crash]_vars =>
        \A h \in Hash :
            (State(h) = "Initiated" /\ lnd[h] \in LndFinal) ~> State(h) # "Initiated"

\* If the subscription keeps being reopened in a process that stops crashing,
\* its replay brings every payment LND resolved to a terminal row.
ReplayResolves ==
    ([]<>(sub = "closed") /\ <>[][~Crash]_vars) =>
        \A h \in Hash : (log[h] # <<>> /\ lnd[h] \in LndFinal) ~> State(h) \in Terminal

\* The live subscription alone brings every payment LND resolved to a terminal
\* row.
SubscriptionResolves ==
    \A h \in Hash : (log[h] # <<>> /\ lnd[h] \in LndFinal) ~> State(h) \in Terminal
==============================================================================
