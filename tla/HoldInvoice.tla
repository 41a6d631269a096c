----------------------------- MODULE HoldInvoice -----------------------------
(***************************************************************************)
(* The incoming HOLD invoice: lnInvoiceCreate (src/app/create_invoice.rs), *)
(* the per-hash SubscribeSingleInvoice listeners (src/lnd/invoice.rs and   *)
(* the dispatcher of src/app/handle_invoice_update.rs), their consumer,    *)
(* the reconciliation sweep (src/app/reconcile_held_invoice.rs), the       *)
(* recovery sweep of a fresh deployment, and the two writers of terminal   *)
(* outbox rows (src/app/commit_invoice.rs), against the external LND node. *)
(*                                                                         *)
(* An action runs from one await whose result another task can influence   *)
(* to the next.  A database transaction is one step.                       *)
(*                                                                         *)
(* A definition X_Something that stands before X is X with one plausible   *)
(* defect; the properties below are checked to notice it.                  *)
(***************************************************************************)
EXTENDS Invoice

CONSTANTS
    Hash,      \* payment hashes; each is drawn fresh by one lnInvoiceCreate
    ChanCap,   \* capacity of the invoice-update channel
    MaxAmt,    \* bound on the amount LND parks on an invoice
    Faults     \* which failures the environment may inject

FaultKind == {"crash",       \* the process dies and is restarted
              "db",          \* a statement or a commit errors, perhaps after taking effect
              "disconnect",  \* a SubscribeSingleInvoice stream breaks
              "malformed",   \* an LND message cannot be parsed
              "lookup",      \* LookupInvoice errors
              "unloaded",    \* the recovery sweep cannot load a row
              "rpc",         \* AddHoldInvoice or SettleInvoice errors, perhaps after taking effect
              "overpay"}     \* LND parks a further HTLC on an accepted invoice

ASSUME ConstantsAssumption ==
    /\ "none" \notin Hash
    /\ ChanCap \in Nat \ {0}
    /\ MaxAmt \in Nat \ {0}
    /\ Faults \subseteq FaultKind

VARIABLES
    log,       \* invoice_events: the persisted event log of each hash
    outbox,    \* outbox_events of each hash, in sequence order
    lnd,       \* LND: state of the invoice
    paid,      \* LND: amt_paid_msat of the invoice
    crt,       \* the lnInvoiceCreate request of each hash
    lst,       \* the per-hash listener: off, connecting or open
    strm,      \* messages LND has put on the stream of each hash
    chan,      \* mpsc channel between the listeners and the consumer
    wk,        \* the consumer and the reconciliation sweep
    recovery,  \* the single-shot recovery sweep job, durable: pending or finished
    lost       \* history: hashes left without a listener, or with an update dropped,
               \* since their last subscribe

vars == <<log, outbox, lnd, paid, crt, lst, strm, chan, wk, recovery, lost>>

Worker == {"consumer", "sweep"}
LndState == {"Open", "Accepted", "Settled", "Canceled"}
LndFinal == {"Settled", "Canceled"}

State(h) == try_from_events(log[h])

list_held == {h \in Hash : State(h) = "Held"}
list_open_invoices == {h \in Hash : State(h) \in {"Open", "Held"}}

Idle == [pc |-> "idle", hash |-> "none", ent |-> <<>>, amt |-> 0]

Init ==
    /\ log = [h \in Hash |-> <<>>]
    /\ outbox = [h \in Hash |-> <<>>]
    /\ lnd = [h \in Hash |-> "None"]
    /\ paid = [h \in Hash |-> 0]
    /\ crt = [h \in Hash |-> "none"]
    /\ lst = [h \in Hash |-> "off"]
    /\ strm = [h \in Hash |-> <<>>]
    /\ chan = <<>>
    /\ wk = [w \in Worker |-> Idle]
    /\ recovery = "pending"
    /\ lost = {}

------------------------------------------------------------------------------
(* Persistence *)

update_in_op_Unversioned(h, base, events) ==
    log' = [log EXCEPT ![h] = @ \o SubSeq(events, Len(base) + 1, Len(events))]

\* update_in_op: the new events are inserted under PRIMARY KEY (id, sequence),
\* so the write succeeds only if no event was added since `base` was loaded.
update_in_op(h, base, events) ==
    /\ Len(log[h]) = Len(base)
    /\ log' = [log EXCEPT ![h] = events]

\* One transaction: the events of an executed command and its outbox row.
CommitTx(h, base, cmd, out) ==
    /\ cmd.result = "Executed"
    /\ update_in_op(h, base, cmd.events)
    /\ outbox' = [outbox EXCEPT ![h] = Append(@, out)]

\* History: an update of h was received and given up, if `gone`.
Dropped(gone, h) == lost' = IF gone THEN lost \cup {h} ELSE lost

\* The transaction, its refusal (AlreadyApplied, InvalidStateTransition or
\* ConcurrentModification), or a database error before or after COMMIT; the
\* task goes on to `next` only if it knows that the write took place.
Commit(w, h, base, cmd, out, next) ==
    \/ /\ CommitTx(h, base, cmd, out)
       /\ wk' = [wk EXCEPT ![w] = next]
       /\ UNCHANGED lost
    \/ /\ cmd.result # "Executed" \/ Len(log[h]) # Len(base)
       /\ wk' = [wk EXCEPT ![w] = Idle]
       /\ UNCHANGED <<log, outbox, lost>>
    \/ /\ "db" \in Faults
       /\ UNCHANGED <<log, outbox>> \/ CommitTx(h, base, cmd, out)
       /\ wk' = [wk EXCEPT ![w] = Idle]
       /\ Dropped(w = "consumer", h)

OutboxRow(type, amt, held) == [type |-> type, amt |-> amt, held |-> held]

------------------------------------------------------------------------------
(* App::create_invoice *)

spawn_listener_for(hs) ==
    lst' = [h \in Hash |-> IF h \in hs /\ lst[h] = "off" THEN "connecting" ELSE lst[h]]

\* AddHoldInvoice; on an error the request ends, and LND may keep an invoice
\* nobody was given.
add_hold_invoice(h) ==
    /\ crt[h] = "none"
    /\ \/ /\ lnd' = [lnd EXCEPT ![h] = "Open"]
          /\ crt' = [crt EXCEPT ![h] = "create"]
       \/ /\ "rpc" \in Faults
          /\ lnd' = [lnd EXCEPT ![h] = "Open"] \/ UNCHANGED lnd
          /\ crt' = [crt EXCEPT ![h] = "failed"]
    /\ UNCHANGED <<log, outbox, paid, lst, strm, chan, wk, recovery, lost>>

create_Unrecorded(h) ==
    /\ crt[h] = "create"
    /\ crt' = [crt EXCEPT ![h] = "returned"]
    /\ spawn_listener_for({h})
    /\ log' = [log EXCEPT ![h] = into_events] \/ UNCHANGED log
    /\ UNCHANGED <<outbox, lnd, paid, strm, chan, wk, recovery, lost>>

\* try_new and the insert of the row, which may be refused (a taken external_id,
\* DryRun mode); with the row the listener is spawned and the invoice returned.
create(h) ==
    /\ crt[h] = "create"
    /\ \/ /\ log' = [log EXCEPT ![h] = into_events]
          /\ spawn_listener_for({h})
          /\ crt' = [crt EXCEPT ![h] = "returned"]
       \/ /\ UNCHANGED <<log, lst>>
          /\ crt' = [crt EXCEPT ![h] = "failed"]
       \/ /\ "db" \in Faults
          /\ log' = [log EXCEPT ![h] = into_events]
          /\ UNCHANGED lst
          /\ crt' = [crt EXCEPT ![h] = "failed"]
    /\ UNCHANGED <<outbox, lnd, paid, strm, chan, wk, recovery, lost>>

------------------------------------------------------------------------------
(* The listeners *)

Update(h, st, a) == [hash |-> h, state |-> st, amt |-> a]

\* LND puts a transition on the stream of the hash, if it is open.
Emit(h, st, a) ==
    strm' = IF lst[h] = "open" THEN [strm EXCEPT ![h] = Append(@, Update(h, st, a))] ELSE strm

Subscribe_Silent(h) ==
    /\ lst[h] = "connecting"
    /\ lst' = [lst EXCEPT ![h] = "open"]
    /\ lost' = lost \ {h}
    /\ UNCHANGED <<log, outbox, lnd, paid, crt, strm, chan, wk, recovery>>

\* SubscribeSingleInvoice emits the current state once on subscribe.
Subscribe(h) ==
    /\ lst[h] = "connecting"
    /\ lst' = [lst EXCEPT ![h] = "open"]
    /\ strm' = [strm EXCEPT ![h] = <<Update(h, lnd[h], paid[h])>>]
    /\ lost' = lost \ {h}
    /\ UNCHANGED <<log, outbox, lnd, paid, crt, chan, wk, recovery>>

\* The stream breaks, or LND closes it after the final state; the listener that
\* has not forwarded that state reconnects.
StreamEnds(h) ==
    /\ lst[h] = "open"
    /\ "disconnect" \in Faults \/ (strm[h] = <<>> /\ lnd[h] \in LndFinal)
    /\ lst' = [lst EXCEPT ![h] = "connecting"]
    /\ strm' = [strm EXCEPT ![h] = <<>>]
    /\ UNCHANGED <<log, outbox, lnd, paid, crt, chan, wk, recovery, lost>>

\* drive_stream: forward one message, waiting for room in the channel, and end
\* with a final state; a message that cannot be parsed is skipped.
drive_stream(h) ==
    /\ strm[h] # <<>>
    /\ \/ /\ Len(chan) < ChanCap
          /\ chan' = Append(chan, Head(strm[h]))
          /\ IF Head(strm[h]).state \in LndFinal
             THEN /\ lst' = [lst EXCEPT ![h] = "off"]
                  /\ strm' = [strm EXCEPT ![h] = <<>>]
             ELSE /\ strm' = [strm EXCEPT ![h] = Tail(@)]
                  /\ UNCHANGED lst
          /\ UNCHANGED lost
       \/ /\ "malformed" \in Faults
          /\ strm' = [strm EXCEPT ![h] = Tail(@)]
          /\ Dropped(TRUE, h)
          /\ UNCHANGED <<chan, lst>>
    /\ UNCHANGED <<log, outbox, lnd, paid, crt, wk, recovery>>

------------------------------------------------------------------------------
(* The consumer and the sweep *)

At(w, pc, h, ent, a) ==
    wk' = [wk EXCEPT ![w] = [pc |-> pc, hash |-> h, ent |-> ent, amt |-> a]]

\* handle_invoice_update up to the first commit: an unknown hash, Open and
\* Settled are ignored; a hold already in the log goes straight to the settle.
handle_invoice_update ==
    /\ wk["consumer"].pc = "idle"
    /\ chan # <<>>
    /\ chan' = Tail(chan)
    /\ LET u == Head(chan)
           ent == log[u.hash]
           held == mark_held(ent, u.amt).result
       IN  \/ /\ u.state = "Accepted" /\ held = "Executed"
              /\ At("consumer", "hold", u.hash, ent, u.amt) /\ UNCHANGED lost
           \/ /\ u.state = "Accepted" /\ held = "AlreadyApplied"
              /\ At("consumer", "load", u.hash, <<>>, 0) /\ UNCHANGED lost
           \/ /\ u.state = "Canceled" /\ ent # <<>>
              /\ At("consumer", "cancel", u.hash, ent, u.amt) /\ UNCHANGED lost
           \/ /\ \/ u.state \in {"Open", "Settled"} \/ ent = <<>>
                 \/ u.state = "Accepted" /\ held = "InvalidStateTransition"
              /\ UNCHANGED <<wk, lost>>
           \/ /\ "db" \in Faults
              /\ Dropped(TRUE, u.hash)
              /\ UNCHANGED wk
    /\ UNCHANGED <<log, outbox, lnd, paid, crt, lst, strm, recovery>>

transition_to_held_Silent(w) ==
    LET t == wk[w] IN
    /\ t.pc = "hold"
    /\ update_in_op(t.hash, t.ent, mark_held(t.ent, t.amt).events)
    /\ At(w, "load", t.hash, <<>>, 0)
    /\ UNCHANGED <<outbox, lnd, paid, crt, lst, strm, chan, recovery, lost>>

\* transition_to_held: HtlcHeld and LightningHtlcHeld in one transaction.
transition_to_held(w) ==
    LET t == wk[w] IN
    /\ t.pc = "hold"
    /\ Commit(w, t.hash, t.ent, mark_held(t.ent, t.amt),
              OutboxRow("LightningHtlcHeld", t.amt, 0),
              [pc |-> "load", hash |-> t.hash, ent |-> <<>>, amt |-> 0])
    /\ UNCHANGED <<lnd, paid, crt, lst, strm, chan, recovery>>

\* settle_hold_invoice and reconcile_held_invoice load the row; only a Held one
\* is taken further.
LoadHeld(w, h) ==
    \/ State(h) = "Held" /\ At(w, "lookup", h, log[h], 0)
    \/ /\ State(h) # "Held" \/ "db" \in Faults
       /\ wk' = [wk EXCEPT ![w] = Idle]

settle_hold_invoice ==
    /\ wk["consumer"].pc = "load"
    /\ LoadHeld("consumer", wk["consumer"].hash)
    /\ UNCHANGED <<log, outbox, lnd, paid, crt, lst, strm, chan, recovery, lost>>

\* One hash of list_held.
reconcile_held_invoice(h) ==
    /\ wk["sweep"].pc = "idle"
    /\ h \in list_held
    /\ LoadHeld("sweep", h)
    /\ UNCHANGED <<log, outbox, lnd, paid, crt, lst, strm, chan, recovery, lost>>

lookup_invoice_NoAmount(w) ==
    LET t == wk[w] IN
    /\ t.pc = "lookup"
    /\ IF lnd[t.hash] = "Accepted" THEN At(w, "rpc", t.hash, t.ent, 0)
       ELSE wk' = [wk EXCEPT ![w] = Idle]
    /\ UNCHANGED <<log, outbox, lnd, paid, crt, lst, strm, chan, recovery, lost>>

lookup_invoice_SettledOnly(w) ==
    LET t == wk[w] IN
    /\ t.pc = "lookup"
    /\ IF lnd[t.hash] = "Settled" THEN At(w, "settle", t.hash, t.ent, paid[t.hash])
       ELSE wk' = [wk EXCEPT ![w] = Idle]
    /\ UNCHANGED <<log, outbox, lnd, paid, crt, lst, strm, chan, recovery, lost>>

\* LookupInvoice, and the branch on what LND says.
lookup_invoice(w) ==
    LET t == wk[w]
        st == lnd[t.hash]
    IN  /\ t.pc = "lookup"
        /\ \/ st = "Accepted" /\ At(w, "rpc", t.hash, t.ent, paid[t.hash])
           \/ st = "Settled" /\ At(w, "settle", t.hash, t.ent, paid[t.hash])
           \/ st = "Canceled" /\ At(w, "cancel", t.hash, t.ent, paid[t.hash])
           \/ /\ st = "Open" \/ "lookup" \in Faults
              /\ wk' = [wk EXCEPT ![w] = Idle]
        /\ UNCHANGED <<log, outbox, lnd, paid, crt, lst, strm, chan, recovery, lost>>

settle_invoice_Unchecked(w) ==
    LET t == wk[w] IN
    /\ t.pc = "rpc"
    /\ lnd' = IF lnd[t.hash] = "Accepted" THEN [lnd EXCEPT ![t.hash] = "Settled"] ELSE lnd
    /\ At(w, "settle", t.hash, t.ent, t.amt)
    /\ UNCHANGED <<log, outbox, paid, crt, lst, strm, chan, recovery, lost>>

\* SettleInvoice releases the preimage.  LND settles an accepted invoice; one
\* already settled is an error or none; one canceled is an error.
settle_invoice(w) ==
    LET t == wk[w]
        h == t.hash
        done == [wk EXCEPT ![w] = [pc |-> "settle", hash |-> h, ent |-> t.ent, amt |-> t.amt]]
    IN  /\ t.pc = "rpc"
        /\ \/ /\ lnd[h] = "Accepted"
              /\ lnd' = [lnd EXCEPT ![h] = "Settled"]
              /\ Emit(h, "Settled", paid[h])
              /\ wk' = done \/ ("rpc" \in Faults /\ wk' = [wk EXCEPT ![w] = Idle])
           \/ /\ lnd[h] = "Settled"
              /\ wk' = done
              /\ UNCHANGED <<lnd, strm>>
           \/ /\ lnd[h] # "Accepted" \/ "rpc" \in Faults
              /\ wk' = [wk EXCEPT ![w] = Idle]
              /\ UNCHANGED <<lnd, strm>>
        /\ UNCHANGED <<log, outbox, paid, crt, lst, chan, recovery, lost>>

commit_settle(w) ==
    LET t == wk[w] IN
    /\ t.pc = "settle"
    /\ Commit(w, t.hash, t.ent, settle(t.ent),
              OutboxRow("LightningInvoiceSettled", t.amt, held_amount_msat(t.ent)), Idle)
    /\ UNCHANGED <<lnd, paid, crt, lst, strm, chan, recovery>>

commit_cancel_ForgetsHold(w) ==
    LET t == wk[w] IN
    /\ t.pc = "cancel"
    /\ Commit(w, t.hash, t.ent, cancel(t.ent),
              OutboxRow("LightningInvoiceCanceled", t.amt, 0), Idle)
    /\ UNCHANGED <<lnd, paid, crt, lst, strm, chan, recovery>>

commit_cancel(w) ==
    LET t == wk[w] IN
    /\ t.pc = "cancel"
    /\ Commit(w, t.hash, t.ent, cancel(t.ent),
              OutboxRow("LightningInvoiceCanceled", t.amt, held_amount_msat(t.ent)), Idle)
    /\ UNCHANGED <<lnd, paid, crt, lst, strm, chan, recovery>>

------------------------------------------------------------------------------
(* Boot, crash and LND *)

recovery_sweep_HeldOnly ==
    /\ recovery = "pending"
    /\ recovery' = "finished"
    /\ spawn_listener_for(list_held)
    /\ UNCHANGED <<log, outbox, lnd, paid, crt, strm, chan, wk, lost>>

\* run_invoice_subscription_recovery_sweep over list_open_invoices; a row that
\* fails to load is skipped.  The job completes and its row in jobs stays, so that
\* spawn_unique starts no second one: it runs once per database, not once a boot.
recovery_sweep ==
    /\ recovery = "pending"
    /\ recovery' = "finished"
    /\ \E hs \in SUBSET list_open_invoices :
          /\ hs = list_open_invoices \/ "unloaded" \in Faults
          /\ spawn_listener_for(hs)
          /\ lost' = lost \cup (list_open_invoices \ hs)
    /\ UNCHANGED <<log, outbox, lnd, paid, crt, strm, chan, wk>>

\* The process dies between two steps; the database and LND keep their state.  A
\* recovery job not finished runs in the next process; one that is finished does
\* not, and nothing watches the rows that are open now again.
Crash ==
    /\ "crash" \in Faults
    /\ crt' = [h \in Hash |-> IF crt[h] = "create" THEN "failed" ELSE crt[h]]
    /\ lst' = [h \in Hash |-> "off"]
    /\ strm' = [h \in Hash |-> <<>>]
    /\ chan' = <<>>
    /\ wk' = [w \in Worker |-> Idle]
    /\ lost' = IF recovery = "finished" THEN list_open_invoices ELSE {}
    /\ UNCHANGED <<log, outbox, lnd, paid, recovery>>

\* A payer that was given the invoice parks an HTLC.
LndAccept(h, a) ==
    /\ crt[h] = "returned"
    /\ lnd[h] = "Open"
    /\ lnd' = [lnd EXCEPT ![h] = "Accepted"]
    /\ paid' = [paid EXCEPT ![h] = a]
    /\ Emit(h, "Accepted", a)
    /\ UNCHANGED <<log, outbox, crt, lst, chan, wk, recovery, lost>>

\* A further HTLC on an accepted invoice.
LndOverpay(h) ==
    /\ "overpay" \in Faults
    /\ lnd[h] = "Accepted" /\ paid[h] < MaxAmt
    /\ paid' = [paid EXCEPT ![h] = @ + 1]
    /\ Emit(h, "Accepted", paid[h] + 1)
    /\ UNCHANGED <<log, outbox, lnd, crt, lst, chan, wk, recovery, lost>>

\* BOLT11 expiry of an open invoice, holdexpirydelta of an accepted one.
LndCancel(h) ==
    /\ lnd[h] \in {"Open", "Accepted"}
    /\ lnd' = [lnd EXCEPT ![h] = "Canceled"]
    /\ paid' = [paid EXCEPT ![h] = 0]
    /\ Emit(h, "Canceled", 0)
    /\ UNCHANGED <<log, outbox, crt, lst, chan, wk, recovery, lost>>

------------------------------------------------------------------------------
(* The specification *)

TaskStep(w) ==
    \/ transition_to_held(w)
    \/ lookup_invoice(w)
    \/ settle_invoice(w)
    \/ commit_settle(w)
    \/ commit_cancel(w)

GatewayStep ==
    \/ \E h \in Hash :
         \/ add_hold_invoice(h)
         \/ create(h)
         \/ Subscribe(h)
         \/ StreamEnds(h)
         \/ drive_stream(h)
         \/ reconcile_held_invoice(h)
         \/ \E a \in 1..MaxAmt : LndAccept(h, a)
         \/ LndOverpay(h)
         \/ LndCancel(h)
    \/ handle_invoice_update
    \/ settle_hold_invoice
    \/ \E w \in Worker : TaskStep(w)
    \/ recovery_sweep

Next == GatewayStep \/ Crash

Spec == Init /\ [][Next]_vars

\* Scheduling: tasks run on, listeners reconnect, the recovery job runs while it is
\* pending, and the reconciliation sweep visits every Held row.  What is retried
\* for ever does not fail for ever (SF).  Nothing obliges a client to create, a
\* payer to pay, LND to cancel, or a fault to happen.
Fairness ==
    /\ WF_vars(recovery_sweep)
    /\ \A h \in Hash :
         /\ WF_vars(Subscribe(h))
         /\ WF_vars(strm[h] = <<>> /\ lnd[h] \in LndFinal /\ StreamEnds(h))
         /\ SF_vars(drive_stream(h) /\ chan' # chan)
         /\ SF_vars(reconcile_held_invoice(h) /\ wk' # wk)
    /\ WF_vars(handle_invoice_update)
    /\ WF_vars(settle_hold_invoice)
    /\ \A w \in Worker :
         /\ WF_vars(TaskStep(w))
         /\ SF_vars(lookup_invoice(w) /\ wk'[w].pc # "idle")
         /\ SF_vars(settle_invoice(w) /\ wk'[w].pc # "idle")
         /\ SF_vars((commit_settle(w) \/ commit_cancel(w)) /\ log' # log)

FairSpec == Spec /\ Fairness

------------------------------------------------------------------------------
(* Properties *)

OutboxEvent == {"LightningHtlcHeld", "LightningInvoiceSettled", "LightningInvoiceCanceled",
                "LightningIntraledgerTransferCompleted"}
OutboxRows == [type : OutboxEvent, amt : 0..MaxAmt, held : 0..MaxAmt]
InvoiceEvent == [type : InvoiceEventType, amt : 0..MaxAmt]
InvoiceUpdate == [hash : Hash, state : LndState, amt : 0..MaxAmt]
Task == [pc : {"idle", "hold", "load", "lookup", "rpc", "settle", "cancel"},
         hash : Hash \cup {"none"}, ent : Seq(InvoiceEvent), amt : 0..MaxAmt]

\* Every variable keeps the type of the column, channel or task state it models.
TypeOK ==
    /\ log \in [Hash -> Seq(InvoiceEvent)]
    /\ outbox \in [Hash -> Seq(OutboxRows)]
    /\ lnd \in [Hash -> LndState \cup {"None"}]
    /\ paid \in [Hash -> 0..MaxAmt]
    /\ crt \in [Hash -> {"none", "create", "returned", "failed"}]
    /\ lst \in [Hash -> {"off", "connecting", "open"}]
    /\ strm \in [Hash -> Seq(InvoiceUpdate)]
    /\ chan \in Seq(InvoiceUpdate) /\ Len(chan) <= ChanCap
    /\ wk \in [Worker -> Task]
    /\ recovery \in {"pending", "finished"}
    /\ lost \subseteq Hash

\* The row never contradicts LND: a Held row had its HTLC accepted (the "DB Held
\* but LND OPEN" branch of both settle paths is never reached), a Settled row
\* means that LND settled and a Canceled row that LND canceled, though consumer
\* and sweep act on updates and lookups that may be old.
RowAgreesWithLnd ==
    \A h \in Hash :
        /\ State(h) = "Held" => lnd[h] \in {"Accepted", "Settled", "Canceled"}
        /\ State(h) \in Terminal => lnd[h] = State(h)

\* The preimage is released only after the hold is durable: whatever LND settled
\* has HtlcHeld in its log and LightningHtlcHeld in the outbox.
HeldBeforeSettle ==
    \A h \in Hash : lnd[h] = "Settled" =>
        /\ Occurrences(log[h], "HtlcHeld") # {}
        /\ outbox[h] # <<>> /\ outbox[h][1].type = "LightningHtlcHeld"

\* The pending layer nets to zero: LightningHtlcHeld is emitted exactly once if
\* HtlcHeld was logged, for that amount; a terminal event exactly when the row is
\* terminal, of its kind, and it carries the amount held (0 for none).
PendingNets ==
    \A h \in Hash :
        LET held == held_amount_msat(log[h])
            n == IF held = 0 THEN 0 ELSE 1
        IN  /\ held # 0 =>
                  outbox[h] # <<>> /\ outbox[h][1] = OutboxRow("LightningHtlcHeld", held, 0)
            /\ IF State(h) \notin Terminal THEN Len(outbox[h]) = n
               ELSE /\ Len(outbox[h]) = n + 1
                    /\ outbox[h][n + 1].held = held
                    /\ outbox[h][n + 1].type = IF State(h) = "Settled"
                                               THEN "LightningInvoiceSettled"
                                               ELSE "LightningInvoiceCanceled"

\* An invoice a payer can pay has its row: the HTLC LND holds or has settled is
\* one the gateway can look up, whatever AddHoldInvoice and the insert did.
PayableHasRow ==
    \A h \in Hash : lnd[h] \in {"Accepted", "Settled"} => log[h] # <<>>

\* Once the recovery job has run, an invoice handed to a payer is watched until a
\* final state was forwarded: no open row loses its listener, unless the job could
\* not load it, the process died after the job had finished, or an update of it was
\* dropped since it last subscribed (a malformed message, or a database error in
\* the consumer).
ReturnedIsWatched ==
    \A h \in Hash :
        crt[h] = "returned" /\ recovery = "finished" /\ State(h) \in {"Open", "Held"} =>
            lst[h] # "off" \/ lnd[h] \in LndFinal \/ h \in lost

\* The credited amount is the amount LND settled.
CreditIsPaid ==
    \A h \in Hash : \A i \in DOMAIN outbox[h] :
        outbox[h][i].type = "LightningInvoiceSettled" => outbox[h][i].amt = paid[h]

\* Logs only grow, and a terminal row is never written again.
TerminalIsFinal ==
    [][\A h \in Hash :
          /\ State(h) \in Terminal => UNCHANGED <<log[h], outbox[h]>>
          /\ SubSeq(log'[h], 1, Len(log[h])) = log[h]]_vars

\* The outbox and LND together implement the abstract invoice ledger.
Ledger == INSTANCE InvoiceLedger WITH stream <- outbox, node <- lnd
ImplementsLedger == Ledger!Spec

\* In a process that stops crashing every Held row is settled or canceled: the
\* reconciliation sweep retries until LND's state is applied.
HeldResolves ==
    <>[][~Crash]_vars => \A h \in Hash : State(h) = "Held" ~> State(h) \in Terminal

\* An HTLC parked on an invoice is taken note of, unless LND gives it up first or
\* the gateway gave the invoice up: its row was skipped by the recovery job, the
\* process died after that job had finished, or one of its updates was dropped
\* since it last subscribed.  UpdatesApplied is the claim without this proviso.
AcceptedIsTaken ==
    <>[][~Crash]_vars =>
        \A h \in Hash : lnd[h] = "Accepted" ~>
            lnd[h] # "Accepted" \/ State(h) # "Open" \/ h \in lost

\* An open row whose invoice LND canceled becomes Canceled, with the same proviso.
CancelReachesRow ==
    <>[][~Crash]_vars =>
        \A h \in Hash : (State(h) = "Open" /\ lnd[h] = "Canceled" /\ crt[h] = "returned")
                          ~> State(h) = "Canceled" \/ h \in lost

\* AcceptedIsTaken and CancelReachesRow without their proviso, which the code does
\* not give once a fault occurs: what LND does to a returned invoice reaches its row.
UpdatesApplied ==
    <>[][~Crash]_vars =>
        \A h \in Hash :
            /\ lnd[h] = "Accepted" ~> lnd[h] # "Accepted" \/ State(h) # "Open"
            /\ (State(h) = "Open" /\ lnd[h] = "Canceled" /\ crt[h] = "returned")
                  ~> State(h) = "Canceled"

==============================================================================
