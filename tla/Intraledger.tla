----------------------------- MODULE Intraledger -----------------------------
(***************************************************************************)
(* The intraledger transfer (src/app/send_intraledger_payment.rs): an      *)
(* lnInvoicePaymentSend whose payment hash is a local invoice.  It is      *)
(* composed with HoldInvoice, whose listeners, consumer and sweep go on    *)
(* working on the same invoice and the same LND node.                      *)
(*                                                                         *)
(* A definition X_Something that stands before X is X with one plausible   *)
(* defect; the properties below are checked to notice it.                  *)
(***************************************************************************)
EXTENDS HoldInvoice

CONSTANTS
    Sender,         \* concurrent lnInvoicePaymentSend requests
    SymphonyFails   \* may AuthorizeSpend error, perhaps after posting?

ASSUME SenderAssumption == SymphonyFails \in BOOLEAN

VARIABLES
    pay,       \* payment_events of each hash
    journal,   \* Symphony: transfers AuthorizeSpend posted as settled
    req        \* the requests

ownVars == <<pay, journal, req>>
allVars == <<vars, ownVars>>

Payment == INSTANCE Payment

NoRequest == [pc |-> "idle", hash |-> "none", ent |-> <<>>, reply |-> "none"]

InitAll ==
    /\ Init
    /\ pay = [h \in Hash |-> <<>>]
    /\ journal = {}
    /\ req = [s \in Sender |-> NoRequest]

Reply(s, r) == req' = [req EXCEPT ![s] = [NoRequest EXCEPT !.hash = req[s].hash, !.reply = r]]
Goto(s, pc) == req' = [req EXCEPT ![s].pc = pc]

------------------------------------------------------------------------------
(* The request *)

\* send_payment finds the local invoice; the ownership, self-payment, state and
\* expiry guards answer without any effect.
guard_recipient(s, h) ==
    /\ req[s].pc = "idle"
    /\ crt[h] = "returned"
    /\ \/ /\ State(h) = "Open"
          /\ req' = [req EXCEPT ![s] =
               [pc |-> "authorize", hash |-> h, ent |-> log[h], reply |-> "none"]]
       \/ req' = [req EXCEPT ![s] = [NoRequest EXCEPT !.hash = h,
               !.reply = IF State(h) = "Settled" THEN "ALREADY_PAID" ELSE "FAILURE"]]
    /\ UNCHANGED <<vars, pay, journal>>

\* AuthorizeSpend(intraledger) posts the settled journal under the idempotency
\* key payment_hash, or declines, or errors.
authorize_transfer(s) ==
    LET h == req[s].hash IN
    /\ req[s].pc = "authorize"
    /\ \/ journal' = journal \cup {h} /\ Goto(s, "cancel_invoice")
       \/ h \notin journal /\ UNCHANGED journal /\ Reply(s, "FAILURE")
       \/ SymphonyFails /\ journal' = journal \cup {h} /\ Reply(s, "FAILURE")
    /\ UNCHANGED <<vars, pay>>

\* CancelInvoice: LND cancels an open or accepted invoice, and tells the
\* listener; one already canceled is no error, a settled one is.
cancel_invoice(s) ==
    LET h == req[s].hash IN
    /\ req[s].pc = "cancel_invoice"
    /\ \/ /\ lnd[h] \in {"Open", "Accepted"}
          /\ lnd' = [lnd EXCEPT ![h] = "Canceled"]
          /\ paid' = [paid EXCEPT ![h] = 0]
          /\ Emit(h, "Canceled", 0)
          /\ Goto(s, "commit") \/ ("rpc" \in Faults /\ Reply(s, "FAILURE"))
       \/ /\ lnd[h] = "Canceled"
          /\ Goto(s, "commit")
          /\ UNCHANGED <<lnd, paid, strm>>
       \/ /\ lnd[h] = "Settled" \/ "rpc" \in Faults
          /\ Reply(s, "FAILURE")
          /\ UNCHANGED <<lnd, paid, strm>>
    /\ UNCHANGED <<log, outbox, crt, lst, chan, wk, recovery, lost, pay, journal>>

\* The one transaction: the payment created and settled, the recipient invoice
\* settled intraledger, and the reporting event.
TransferTx(h, base) ==
    LET cmd == settle_intraledger(base) IN
    /\ pay[h] = <<>>
    /\ pay' = [pay EXCEPT ![h] = Payment!settle(Payment!into_events).events]
    /\ cmd.result = "Executed"
    /\ update_in_op(h, base, cmd.events)
    /\ outbox' = [outbox EXCEPT ![h] =
         Append(@, OutboxRow("LightningIntraledgerTransferCompleted", 0, 0))]

commit_transfer_Separate(s) ==
    LET h == req[s].hash
        base == req[s].ent
    IN  /\ req[s].pc = "commit"
        /\ pay[h] = <<>>
        /\ pay' = [pay EXCEPT ![h] = Payment!settle(Payment!into_events).events]
        /\ Reply(s, "SUCCESS")
        /\ IF Len(log[h]) = Len(base)
           THEN log' = [log EXCEPT ![h] = settle_intraledger(base).events]
           ELSE UNCHANGED log
        /\ UNCHANGED <<outbox, lnd, paid, crt, lst, strm, chan, wk, recovery, lost, journal>>

commit_transfer_Replay(s) ==
    LET h == req[s].hash IN
    /\ req[s].pc = "commit"
    /\ IF pay[h] = <<>> THEN TransferTx(h, req[s].ent) ELSE UNCHANGED <<log, outbox, pay>>
    /\ Reply(s, "SUCCESS")
    /\ UNCHANGED <<lnd, paid, crt, lst, strm, chan, wk, recovery, lost, journal>>

commit_transfer(s) ==
    LET h == req[s].hash
        base == req[s].ent
    IN  /\ req[s].pc = "commit"
        /\ \/ TransferTx(h, base) /\ Reply(s, "SUCCESS")
           \/ /\ pay[h] # <<>>
              /\ Reply(s, "ALREADY_PAID")
              /\ UNCHANGED <<log, outbox, pay>>
           \/ /\ pay[h] = <<>> /\ Len(log[h]) # Len(base)
              /\ Reply(s, "FAILURE")
              /\ UNCHANGED <<log, outbox, pay>>
           \/ /\ "db" \in Faults
              /\ UNCHANGED <<log, outbox, pay>> \/ TransferTx(h, base)
              /\ Reply(s, "FAILURE")
        /\ UNCHANGED <<lnd, paid, crt, lst, strm, chan, wk, recovery, lost, journal>>

RequestStep(s) == authorize_transfer(s) \/ cancel_invoice(s) \/ commit_transfer(s)

CrashAll ==
    /\ Crash
    /\ req' = [s \in Sender |-> NoRequest]
    /\ UNCHANGED <<pay, journal>>

NextAll ==
    \/ GatewayStep /\ UNCHANGED ownVars
    \/ CrashAll
    \/ \E s \in Sender, h \in Hash : guard_recipient(s, h)
    \/ \E s \in Sender : RequestStep(s)

SpecAll == InitAll /\ [][NextAll]_allVars

\* A request runs on; the gateway's other tasks are as fair as in HoldInvoice.
FairSpecAll == SpecAll /\ Fairness /\ \A s \in Sender : WF_allVars(RequestStep(s))

------------------------------------------------------------------------------
(* Properties *)

\* Payments, journal and requests keep their types.
TransferTypeOK ==
    /\ pay \in [Hash -> Seq(Payment!PaymentEvent)]
    /\ journal \subseteq Hash
    /\ req \in [Sender -> [pc : {"idle", "authorize", "cancel_invoice", "commit"},
                           hash : Hash \cup {"none"}, ent : Seq(InvoiceEvent),
                           reply : {"none", "SUCCESS", "FAILURE", "ALREADY_PAID"}]]

Transferred(h) == Occurrences(log[h], "SettledIntraledger") # {}

\* The transfer is all or nothing whatever listener, consumer, sweep, other
\* requests and crashes do meanwhile: the payment is Completed exactly when the
\* invoice was settled intraledger and the reporting event is the only outbox
\* row of the hash; then the journal was posted and LND can no longer be paid.
TransferAtomic ==
    \A h \in Hash :
        /\ pay[h] # <<>> <=> Transferred(h)
        /\ Transferred(h) =>
              /\ Payment!try_from_events(pay[h]) = "Completed" /\ State(h) = "Settled"
              /\ Len(outbox[h]) = 1
              /\ outbox[h][1].type = "LightningIntraledgerTransferCompleted"
              /\ h \in journal /\ lnd[h] = "Canceled"

\* Of the requests that pay one invoice at most one is told SUCCESS, and it left
\* a transferred invoice.
OneSuccess ==
    \A s, t \in Sender :
        req[s].reply = "SUCCESS" =>
            /\ Transferred(req[s].hash)
            /\ req[t].reply = "SUCCESS" /\ req[t].hash = req[s].hash => s = t

\* A settled row of an invoice that was not transferred means that LND settled
\* it, and a Canceled row that LND canceled it: the echo of CancelInvoice does
\* not turn into a wrong row.
RowStillAgrees ==
    \A h \in Hash :
        State(h) \in Terminal /\ ~Transferred(h) => lnd[h] = State(h)

\* An invoice paid by a transfer is not paid over Lightning as well.
NotPaidTwice == \A h \in Hash : ~(h \in journal /\ lnd[h] = "Settled")

\* A posted transfer is recorded: its payment becomes Completed.
TransferRecorded ==
    <>[][~Crash]_allVars => \A h \in Hash : h \in journal ~> pay[h] # <<>>
==============================================================================
