---------------------------- MODULE StatusStream ----------------------------
(***************************************************************************)
(* The GraphQL lnInvoicePaymentStatus subscription to one invoice          *)
(* (src/api/graphql/subscription.rs) over the broadcast fanout             *)
(* (src/outbox/fanout.rs): one ingest task with the only LISTEN            *)
(* connection, one broadcast receiver, one status stream.                  *)
(*                                                                         *)
(* A definition X_Something that stands before X is X with one plausible   *)
(* defect; the properties below are checked to notice it.                  *)
(***************************************************************************)
EXTENDS OutboxLog

CONSTANT BufCap   \* BROADCAST_CAPACITY

ASSUME BufAssumption == BufCap \in Nat \ {0}

VARIABLES
    ev,        \* what each outbox row tells of the invoice, "other" for nothing
    inv,       \* invoices.state
    expired,   \* has expiry_at passed?
    buf,       \* what the receiver has not yet taken of the broadcast
    lagged,    \* did the broadcast overwrite something of it?
    pc,        \* the stream
    cursor,    \* the highest sequence seen
    batch,     \* rows read and not yet handled, a set
    out,       \* statuses sent
    missed     \* history: did the stream lose a read, an event, or its subscriber?

invVars == <<ev, inv, expired>>
rxVars == <<buf, lagged>>
streamVars == <<pc, cursor, batch, out>>
vars == <<logVars, listenVars, invVars, rxVars, streamVars, missed>>

\* The events of an invoice: in which states they are written, and the state
\* they lead to.
From == [LightningHtlcHeld |-> {"Open"},
         LightningInvoiceSettled |-> {"Held"},
         LightningIntraledgerTransferCompleted |-> {"Open"},
         LightningInvoiceCanceled |-> {"Open", "Held"}]
To == [LightningHtlcHeld |-> "Held",
       LightningInvoiceSettled |-> "Settled",
       LightningIntraledgerTransferCompleted |-> "Settled",
       LightningInvoiceCanceled |-> "Canceled"]
Domain == DOMAIN To

is_terminal(status) == status \in {"PAID", "EXPIRED"}

\* The status of a stored state; an Open invoice is judged by the clock.
initial_status(state, past) ==
    IF state = "Settled" THEN "PAID"
    ELSE IF state = "Canceled" \/ (state = "Open" /\ past) THEN "EXPIRED"
    ELSE "PENDING"

status_from_event_HeldIsPaid(e) ==
    IF e = "LightningHtlcHeld" THEN "PAID" ELSE initial_status(To[e], FALSE)

status_from_event(e) == initial_status(To[e], FALSE)

Init ==
    /\ InitLog
    /\ conn = "connecting" /\ ntf = <<>>
    /\ ev = [s \in Sequence |-> "other"]
    /\ inv = "Open" /\ expired = FALSE
    /\ buf = <<>> /\ lagged = FALSE
    /\ pc = "none" /\ cursor = 0 /\ batch = {} /\ out = <<>>
    /\ missed = FALSE

------------------------------------------------------------------------------
(* Writers *)

\* A transaction inserts an event of this invoice (its writers are serialised by
\* the version of the row), or one that says nothing of its status.
Publish(e) ==
    /\ publish_in_tx
    /\ e \in Domain => inv \in From[e] /\ \A s \in open : ev[s] = "other"
    /\ ev' = [ev EXCEPT ![next] = e]
    /\ UNCHANGED <<inv, expired, rxVars, streamVars, missed>>

Attached == pc \notin {"none", "done"}

\* History: something of the attached stream is lost, if `gone`.
Missed(gone) == missed' = (missed \/ (Attached /\ gone))

\* The COMMIT of a row; an event is lost on the stream if nobody listens, or if
\* one with a greater number committed before it.
Commit(s) ==
    /\ CommitRow(s)
    /\ Missed(ev[s] \in Domain /\ (conn # "listening" \/ \E n \in rows : n > s))
    /\ inv' = IF ev[s] \in Domain THEN To[ev[s]] ELSE inv
    /\ UNCHANGED <<ev, expired, rxVars, streamVars>>

Expire ==
    /\ ~expired
    /\ expired' = TRUE
    /\ UNCHANGED <<logVars, listenVars, ev, inv, rxVars, streamVars, missed>>

------------------------------------------------------------------------------
(* The fanout *)

Broadcast_Unbounded(s) ==
    /\ buf' = IF Attached THEN Append(buf, s) ELSE buf
    /\ UNCHANGED lagged

\* A full broadcast buffer overwrites its oldest entry.
Broadcast(s) ==
    IF ~Attached THEN UNCHANGED rxVars
    ELSE IF Len(buf) < BufCap THEN buf' = Append(buf, s) /\ UNCHANGED lagged
    ELSE buf' = Append(Tail(buf), s) /\ lagged' = TRUE

\* ingest_loop reads the notified row once and broadcasts it; a failed read and
\* a lost LISTEN are only logged.
ingest_loop ==
    /\ ntf # <<>>
    /\ ntf' = Tail(ntf)
    /\ \/ /\ find_by_sequence(Head(ntf))
          /\ Broadcast(Head(ntf))
          /\ UNCHANGED missed
       \/ /\ ~find_by_sequence(Head(ntf)) \/ "row_error" \in Faults
          /\ Missed(find_by_sequence(Head(ntf)))
          /\ UNCHANGED rxVars
    /\ UNCHANGED <<logVars, conn, invVars, streamVars>>

------------------------------------------------------------------------------
(* The stream *)

Send_Repeats(status, then) ==
    /\ out' = Append(out, status)
    /\ pc' = IF is_terminal(status) THEN "done" ELSE then

\* StatusEmitter::next and the send: a status equal to the last is suppressed,
\* a terminal one ends the stream.
Send(status, then) ==
    IF out # <<>> /\ out[Len(out)] = status THEN pc' = then /\ UNCHANGED out
    ELSE /\ out' = Append(out, status)
         /\ pc' = IF is_terminal(status) THEN "done" ELSE then

emit_for_event(e, then) ==
    IF e \in Domain THEN Send(status_from_event(e), then)
    ELSE pc' = then /\ UNCHANGED out

\* run_status_stream attaches the receiver, then reads: the aggregate on a fresh
\* subscription, the rows after the acknowledged sequence on a resumed one.
run_status_stream(resume, mode) ==
    /\ pc = "none" /\ ListenRegistered
    /\ cursor' = resume
    /\ pc' = mode
    /\ buf' = <<>> /\ lagged' = FALSE
    /\ UNCHANGED <<logVars, listenVars, invVars, batch, out, missed>>

\* The aggregate is read on a fresh subscription, and after the backfill of a
\* resumed one, which reports only a terminal status.  A failed read is taken
\* for a missing invoice.
read_initial ==
    /\ pc \in {"initial", "recheck"}
    /\ \E status \in {initial_status(inv, expired)} \cup
                     (IF "read_error" \in Faults THEN {"EXPIRED"} ELSE {}) :
          /\ IF pc = "initial" \/ is_terminal(status) THEN Send(status, "live")
             ELSE pc' = "live" /\ UNCHANGED out
          /\ Missed(status # initial_status(inv, expired))
    /\ UNCHANGED <<logVars, listenVars, invVars, rxVars, cursor, batch>>

\* drain_backfill: the guard on its size ...
count_backfill ==
    /\ pc \in {"count_resume", "count_relag"}
    /\ \/ /\ count_after(cursor) <= MaxBackfill
          /\ pc' = IF pc = "count_resume" THEN "resume" ELSE "relag"
          /\ UNCHANGED missed
       \/ /\ count_after(cursor) > MaxBackfill \/ "read_error" \in Faults
          /\ pc' = "done"
          /\ Missed(TRUE)
    /\ UNCHANGED <<logVars, listenVars, invVars, rxVars, cursor, batch, out>>

\* ... its pages until an empty one ...
drain_backfill ==
    /\ pc \in {"resume", "relag"} /\ batch = {}
    /\ \/ /\ batch' \in fetch_after_batch(cursor)
          /\ pc' = IF batch' # {} THEN pc
                   ELSE IF pc = "resume" THEN "recheck" ELSE "live"
          /\ UNCHANGED missed
       \/ /\ "read_error" \in Faults
          /\ pc' = "done"
          /\ Missed(TRUE)
          /\ UNCHANGED batch
    /\ UNCHANGED <<logVars, listenVars, invVars, rxVars, cursor, out>>

\* ... and the rows of a page.
drain_row ==
    /\ pc \in {"resume", "relag"}
    /\ \E s \in Earliest(batch) :
          /\ cursor' = s
          /\ batch' = batch \ {s}
          /\ emit_for_event(ev[s], pc)
    /\ UNCHANGED <<logVars, listenVars, invVars, rxVars, missed>>

recv_IgnoresLag ==
    /\ pc = "live" /\ buf # <<>>
    /\ buf' = Tail(buf) /\ lagged' = FALSE
    /\ IF Head(buf) <= cursor THEN UNCHANGED <<pc, cursor, out>>
       ELSE cursor' = Head(buf) /\ emit_for_event(ev[Head(buf)], "live")
    /\ UNCHANGED <<logVars, listenVars, invVars, batch, missed>>

\* The live tail: after an overwrite the rows are read again from the cursor; an
\* event not above the cursor is skipped.
recv ==
    /\ pc = "live"
    /\ \/ /\ lagged
          /\ lagged' = FALSE
          /\ pc' = "count_relag"
          /\ UNCHANGED <<buf, cursor, out>>
       \/ /\ ~lagged /\ buf # <<>>
          /\ buf' = Tail(buf)
          /\ IF Head(buf) <= cursor THEN UNCHANGED <<pc, cursor, out>>
             ELSE cursor' = Head(buf) /\ emit_for_event(ev[Head(buf)], "live")
          /\ UNCHANGED lagged
    /\ UNCHANGED <<logVars, listenVars, invVars, batch, missed>>

\* The subscriber drops the stream, or the gateway shuts down.
Gone ==
    /\ "gone" \in Faults
    /\ Attached
    /\ pc' = "done" /\ batch' = {}
    /\ Missed(TRUE)
    /\ UNCHANGED <<logVars, listenVars, invVars, rxVars, cursor, out>>

------------------------------------------------------------------------------
(* The specification *)

Subscribe ==
    \/ run_status_stream(0, "initial")
    \/ \E acked \in rows \cup {0} : run_status_stream(acked, "count_resume")

Stream == read_initial \/ count_backfill \/ drain_backfill \/ drain_row \/ recv

Next ==
    \/ \E e \in Domain \cup {"other"} : Publish(e)
    \/ \E s \in Sequence : Commit(s)
    \/ \E s \in Sequence : Rollback(s) /\ UNCHANGED <<invVars, rxVars, streamVars, missed>>
    \/ Expire
    \/ (connection_loop \/ ListenBreaks \/ ListenNoticed)
         /\ UNCHANGED <<invVars, rxVars, streamVars, missed>>
    \/ ingest_loop \/ Subscribe \/ Stream \/ Gone

Spec == Init /\ [][Next]_vars

\* The tasks run on and the LISTEN is registered again; nothing obliges writers,
\* the clock, or a subscriber.
Fairness ==
    /\ WF_vars(ingest_loop)
    /\ WF_vars(Stream)
    /\ WF_vars((connection_loop \/ ListenNoticed) /\ UNCHANGED <<invVars, rxVars, streamVars, missed>>)

FairSpec == Spec /\ Fairness

------------------------------------------------------------------------------
(* Properties *)

\* Rows, invoice, receiver and stream keep their types, the buffer its capacity.
TypeOK ==
    /\ LogTypeOK
    /\ ev \in [Sequence -> Domain \cup {"other"}]
    /\ inv \in {"Open", "Held", "Settled", "Canceled"} /\ expired \in BOOLEAN
    /\ buf \in Seq(Sequence) /\ Len(buf) <= BufCap /\ lagged \in BOOLEAN
    /\ pc \in {"none", "initial", "count_resume", "resume", "recheck", "live",
               "count_relag", "relag", "done"}
    /\ cursor \in 0..MaxSeq
    /\ batch \subseteq Sequence /\ Cardinality(batch) <= BatchSize
    /\ out \in Seq({"PENDING", "PAID", "EXPIRED"})
    /\ missed \in BOOLEAN

\* A subscriber is told PAID only of a settled invoice, whatever reads fail and
\* whichever of initial read, backfill and broadcast reports it.
PaidMeansSettled == \A i \in DOMAIN out : out[i] = "PAID" => inv = "Settled"

\* What a subscriber was told is so: PAID only of a settled invoice, EXPIRED only
\* of one canceled or past its expiry.
StatusTruthful ==
    \A i \in DOMAIN out :
        /\ out[i] = "PAID" => inv = "Settled"
        /\ out[i] = "EXPIRED" => inv = "Canceled" \/ expired

\* A stream sends at most one PENDING and then at most one terminal status, with
\* which it ends, though initial read, backfill, broadcast and the backfill after
\* a lag all report the same transitions.
StatusProtocol ==
    /\ Len(out) <= 2
    /\ Len(out) = 2 => out[1] = "PENDING" /\ is_terminal(out[2])
    /\ out # <<>> /\ is_terminal(out[Len(out)]) => pc = "done"

\* The stream has told the end of the invoice, and ended.
Reported(state) ==
    pc = "done" /\ out # <<>> /\ out[Len(out)] = initial_status(state, FALSE)

\* A stream on an invoice that is settled or canceled reports just that and ends,
\* whether the event came before, during or after its reads, unless its subscriber
\* leaves or it is one of the losses the fanout does not repair: a failed or
\* refused read, an event committed while no LISTEN is registered, and one
\* committed after a greater number.
StreamCompletes ==
    \A state \in {"Settled", "Canceled"} :
        Attached /\ inv = state ~> Reported(state) \/ missed

\* The claim of ingest_loop's comment: what is committed while the LISTEN is down
\* is recovered, so that the stream still reports the end of its invoice.
MissedRecovered ==
    \A state \in {"Settled", "Canceled"} : Attached /\ inv = state ~> Reported(state)
==============================================================================
