-------------------------- MODULE IntraledgerProofs --------------------------
(***************************************************************************)
(* Theorems about HoldInvoice composed with intraledger transfers, for     *)
(* every set of hashes and requests and every set of faults.               *)
(***************************************************************************)
EXTENDS HoldInvoiceProofs, Intraledger

------------------------------------------------------------------------------
(* The inductive invariant *)

\* The log of a payment that was created and settled in one transaction.
PaidLog == Append(<<"Initiated">>, "Completed")

\* A payment is there exactly when its invoice was settled by a transfer, and then
\* the journal was posted.
TransfersOK ==
    \A h \in Hash :
        /\ pay[h] = IF Moved(log[h]) THEN PaidLog ELSE <<>>
        /\ Moved(log[h]) => h \in journal

\* What a request knows at each of its steps, given the row, LND's state and the
\* journal of its hash.
RequestOK(r, row, st, posted) ==
    /\ r.pc # "idle" => /\ r.hash \in Hash /\ r.reply = "none"
                        /\ LoadedFrom(r.ent, row) /\ try_from_events(r.ent) = "Open"
    /\ r.pc \in {"cancel_invoice", "commit"} => posted
    /\ r.pc = "commit" => st = "Canceled"
    /\ r.reply = "SUCCESS" => r.hash \in Hash /\ Moved(row)

RequestsKnow ==
    \A s \in Sender :
        RequestOK(req[s], log[req[s].hash], lnd[req[s].hash], req[s].hash \in journal)

OneReply ==
    \A s, t \in Sender :
        req[s].reply = "SUCCESS" /\ req[t].reply = "SUCCESS" /\ req[t].hash = req[s].hash => s = t

TransferInv == IInv /\ TransferTypeOK /\ TransfersOK /\ RequestsKnow /\ OneReply

------------------------------------------------------------------------------
(* The requests while rows and LND move on *)

Request == [pc : {"idle", "authorize", "cancel_invoice", "commit"},
            hash : Hash \cup {"none"}, ent : Seq(InvoiceEvent),
            reply : {"none", "SUCCESS", "FAILURE", "ALREADY_PAID"}]

\* Rows grow, what was canceled, transferred or posted stays so.
Onward ==
    \A h \in Hash :
        /\ log'[h] = log[h] \/ Len(log[h]) < Len(log'[h])
        /\ Len(log[h]) \in Nat /\ Len(log'[h]) \in Nat
        /\ lnd[h] = "Canceled" => lnd'[h] = "Canceled"
        /\ Moved(log[h]) => Moved(log'[h])
        /\ h \in journal => h \in journal'

\* What a request knows stays true.
LEMMA RequestLater ==
    ASSUME NEW r \in Request, Onward,
           RequestOK(r, log[r.hash], lnd[r.hash], r.hash \in journal)
    PROVE  RequestOK(r, log'[r.hash], lnd'[r.hash], r.hash \in journal')
<1>1. CASE r.hash \notin Hash
  BY <1>1, Zenon DEF RequestOK
<1>2. CASE r.hash \in Hash
  <2>1. ASSUME r.pc # "idle" PROVE LoadedFrom(r.ent, log'[r.hash])
    <3>1. LoadedFrom(r.ent, log[r.hash]) /\ try_from_events(r.ent) = "Open"
      BY <2>1 DEF RequestOK
    <3>2. Len(r.ent) = 1 /\ held_amount_msat(r.ent) = 0
      <4>1. LegalLog(r.ent, held_amount_msat(r.ent))
        BY <3>1 DEF LoadedFrom
      <4>2. Len(r.ent) = 1
        BY <3>1, <4>1, LogFacts
      <4> QED
        BY <4>1, <4>2 DEF LegalLog
    <3>3. CASE log'[r.hash] = log[r.hash]
      BY <3>1, <3>3
    <3>4. CASE Len(log[r.hash]) < Len(log'[r.hash])
      <4>1. /\ Len(log[r.hash]) \in Nat /\ Len(log'[r.hash]) \in Nat
            /\ Len(r.ent) <= Len(log[r.hash])
        BY <1>2, <3>1 DEF LoadedFrom, Onward
      <4>2. Len(r.ent) <= Len(log'[r.hash]) /\ Len(r.ent) # Len(log'[r.hash])
        <5>1. \A k, m, n \in Nat : k <= m /\ m < n => k <= n /\ k # n
          OBVIOUS
        <5>2. Len(r.ent) \in Nat
          BY <3>2
        <5> QED
          BY <3>4, <4>1, <5>1, <5>2, Zenon
      <4> QED
        BY <3>1, <3>2, <4>2, Zenon DEF LoadedFrom
    <3> QED
      BY <1>2, <3>3, <3>4 DEF Onward
  <2> QED
    BY <1>2, <2>1 DEF RequestOK, Onward
<1> QED
  BY <1>1, <1>2

\* No request takes a step.
LEMMA RequestsStay ==
    ASSUME TransferTypeOK, RequestsKnow, OneReply, Onward, UNCHANGED req
    PROVE  RequestsKnow' /\ OneReply'
<1>1. \A s \in Sender : req[s] \in Request
  BY DEF TransferTypeOK, Request
<1> QED
  BY <1>1, RequestLater DEF RequestsKnow, OneReply

\* One request takes a step, and SUCCESS is not told twice.
LEMMA RequestSet ==
    ASSUME TransferTypeOK, RequestsKnow, OneReply, Onward, NEW s \in Sender,
           NEW r \in Request, req' = [req EXCEPT ![s] = r],
           RequestOK(r, log'[r.hash], lnd'[r.hash], r.hash \in journal'),
           r.reply = "SUCCESS" => r.hash \in Hash /\ ~Moved(log[r.hash])
    PROVE  RequestsKnow' /\ OneReply' /\ req' \in [Sender -> Request]
<1>1. req \in [Sender -> Request]
  BY DEF TransferTypeOK, Request
<1>2. /\ req' \in [Sender -> Request] /\ req'[s] = r
      /\ \A t \in Sender \ {s} : req'[t] = req[t] /\ req[t] \in Request
  BY <1>1
<1>3. RequestsKnow'
  <2>1. ASSUME NEW t \in Sender \ {s}
        PROVE  RequestOK(req[t], log'[req[t].hash], lnd'[req[t].hash], req[t].hash \in journal')
    BY <1>2, RequestLater DEF RequestsKnow
  <2> QED
    BY <1>2, <2>1 DEF RequestsKnow
<1>4. OneReply'
  <2>1. ASSUME NEW t \in Sender \ {s}, req[t].reply = "SUCCESS", r.reply = "SUCCESS",
               req[t].hash = r.hash
        PROVE  FALSE
    BY <2>1 DEF RequestsKnow, RequestOK
  <2> QED
    BY <1>2, <2>1 DEF OneReply
<1> QED
  BY <1>2, <1>3, <1>4

\* A canceled invoice stays canceled.
LEMMA CanceledStays ==
    ASSUME IInv, [Next]_vars, NEW h \in Hash, lnd[h] = "Canceled"
    PROVE  lnd'[h] = "Canceled"
<1>1. lnd \in [Hash -> LndState \cup {"None"}] /\ crt[h] # "none"
  <2>1. RowOK(log[h], outbox[h], lnd[h], paid[h], crt[h], lst[h])
    BY DEF IInv, RowsOK
  <2> QED
    BY <2>1 DEF IInv, TypeOK, RowOK
<1>2. ASSUME NEW g \in Hash, add_hold_invoice(g) PROVE lnd'[h] = "Canceled"
  BY <1>1, <1>2 DEF add_hold_invoice
<1>3. ASSUME NEW g \in Hash, (\E a \in 1..MaxAmt : LndAccept(g, a)) \/ LndOverpay(g) \/ LndCancel(g)
      PROVE  lnd'[h] = "Canceled"
  BY <1>1, <1>3 DEF LndAccept, LndOverpay, LndCancel
<1>4. ASSUME NEW w \in Worker, settle_invoice(w) PROVE lnd'[h] = "Canceled"
  BY <1>1, <1>4 DEF settle_invoice
<1>5. ASSUME NEW w \in Worker,
             lookup_invoice(w) \/ transition_to_held(w) \/ commit_settle(w) \/ commit_cancel(w)
      PROVE  UNCHANGED lnd
  BY <1>5 DEF lookup_invoice, transition_to_held, commit_settle, commit_cancel
<1>6. ASSUME NEW g \in Hash,
             create(g) \/ Subscribe(g) \/ StreamEnds(g) \/ drive_stream(g) \/ reconcile_held_invoice(g)
      PROVE  UNCHANGED lnd
  BY <1>6, Zenon DEF create, Subscribe, StreamEnds, drive_stream, reconcile_held_invoice
<1>7. ASSUME handle_invoice_update \/ settle_hold_invoice \/ recovery_sweep \/ Crash \/ UNCHANGED vars
      PROVE  UNCHANGED lnd
  BY <1>7, Zenon DEF handle_invoice_update, settle_hold_invoice, recovery_sweep, Crash, vars
<1> QED
  BY <1>2, <1>3, <1>4, <1>5, <1>6, <1>7 DEF Next, GatewayStep, TaskStep

\* The other tasks of the gateway only move rows and LND onward.
LEMMA GatewayOnward ==
    ASSUME IInv, [Next]_vars, journal \subseteq journal'
    PROVE  Onward /\ IInv' /\ \A h \in Hash : Moved(log'[h]) <=> Moved(log[h])
<1>1. IInv'
  BY NextKeeps
<1>2. \A h \in Hash : Moved(log'[h]) <=> Moved(log[h])
  BY MovedStays
<1>3. ASSUME NEW h \in Hash
      PROVE  /\ log'[h] = log[h] \/ Len(log[h]) < Len(log'[h])
             /\ Len(log[h]) \in Nat /\ Len(log'[h]) \in Nat
  <2>1. log \in [Hash -> Seq(InvoiceEvent)] /\ log[h] \in Seq(InvoiceEvent) /\ log'[h] \in Seq(InvoiceEvent)
    BY <1>1 DEF IInv, TypeOK
  <2>2. Len(log[h]) \in Nat /\ Len(log'[h]) \in Nat
    BY <2>1
  <2>3. CASE log[h] = <<>> /\ log' = [log EXCEPT ![h] = into_events]
    BY <2>1, <2>3
  <2>4. CASE Extends(h)
    BY <2>1, <2>4, AppendEvent DEF Extends
  <2> QED
    BY <2>1, <2>2, <2>3, <2>4, RowEffect DEF Extends
<1>4. \A h \in Hash : lnd[h] = "Canceled" => lnd'[h] = "Canceled"
  BY CanceledStays
<1> QED
  BY <1>1, <1>2, <1>3, <1>4 DEF Onward

------------------------------------------------------------------------------
(* The steps *)

\* A request that goes on, or has ended, keeps its type.
LEMMA RequestForms ==
    ASSUME TransferTypeOK, NEW s \in Sender
    PROVE  /\ req \in [Sender -> Request] /\ req[s] \in Request
           /\ \A pc \in {"authorize", "cancel_invoice", "commit"} :
                 LET r == [req[s] EXCEPT !.pc = pc]
                 IN  /\ r \in Request /\ r.pc = pc /\ r.hash = req[s].hash
                     /\ r.ent = req[s].ent /\ r.reply = req[s].reply
           /\ NoRequest \in Request /\ NoRequest.pc = "idle" /\ NoRequest.reply = "none"
<1>1. <<>> \in Seq(InvoiceEvent)
  OBVIOUS
<1>2. req \in [Sender -> Request] /\ req[s] \in Request
  BY DEF TransferTypeOK, Request
<1>3. NoRequest \in Request /\ NoRequest.pc = "idle" /\ NoRequest.reply = "none"
  BY <1>1 DEF Request, NoRequest
<1>4. ASSUME NEW pc \in {"authorize", "cancel_invoice", "commit"}
      PROVE  LET r == [req[s] EXCEPT !.pc = pc]
             IN  /\ r \in Request /\ r.pc = pc /\ r.hash = req[s].hash
                 /\ r.ent = req[s].ent /\ r.reply = req[s].reply
  BY <1>2, Zenon DEF Request
<1> QED
  BY <1>2, <1>3, <1>4

\* A request that replies without SUCCESS knows nothing more.
LEMMA ReplyKeeps ==
    ASSUME TransferTypeOK, RequestsKnow, OneReply, Onward, NEW s \in Sender,
           NEW a \in {"FAILURE", "ALREADY_PAID"}, NEW h \in Hash \cup {"none"},
           req' = [req EXCEPT ![s] = [NoRequest EXCEPT !.hash = h, !.reply = a]]
    PROVE  RequestsKnow' /\ OneReply' /\ req' \in [Sender -> Request]
<1>1. PICK r : r = [NoRequest EXCEPT !.hash = h, !.reply = a]
  OBVIOUS
<1>2. r \in Request /\ r.pc = "idle" /\ r.reply = a
  <2>1. <<>> \in Seq(InvoiceEvent)
    OBVIOUS
  <2>2. r = [pc |-> "idle", hash |-> h, ent |-> <<>>, reply |-> a]
    BY <1>1, Zenon DEF NoRequest
  <2> QED
    BY <2>1, <2>2 DEF Request
<1>3. RequestOK(r, log'[r.hash], lnd'[r.hash], r.hash \in journal')
  BY <1>2 DEF RequestOK
<1>4. req' = [req EXCEPT ![s] = r]
  BY <1>1, Zenon
<1> QED
  BY <1>2, <1>3, <1>4, RequestSet, Zenon

\* Nothing moves but a request, or the journal.
LEMMA StillOnward ==
    ASSUME IInv, UNCHANGED vars, journal \subseteq journal'
    PROVE  /\ Onward /\ IInv' /\ UNCHANGED <<log, lnd>>
           /\ \A h \in Hash : Moved(log'[h]) <=> Moved(log[h])
<1>1. UNCHANGED <<log, lnd>> /\ [Next]_vars
  BY DEF vars
<1> QED
  BY <1>1, GatewayOnward

\* A task of HoldInvoice takes a step, and the requests do not.
LEMMA GatewayKeeps ==
    ASSUME TransferInv, [Next]_vars, UNCHANGED ownVars
    PROVE  TransferInv'
<1>1. UNCHANGED <<pay, journal, req>>
  BY DEF ownVars
<1>2. Onward /\ IInv' /\ \A h \in Hash : Moved(log'[h]) <=> Moved(log[h])
  BY <1>1, GatewayOnward DEF TransferInv
<1>3. RequestsKnow' /\ OneReply'
  BY <1>1, <1>2, RequestsStay DEF TransferInv
<1>4. TransferTypeOK' /\ TransfersOK'
  BY <1>1, <1>2, Zenon DEF TransferInv, TransferTypeOK, TransfersOK
<1> QED
  BY <1>2, <1>3, <1>4 DEF TransferInv

\* The guards of the request: only an Open row is taken further.
LEMMA GuardKeeps ==
    ASSUME TransferInv, NEW s \in Sender, NEW h \in Hash, guard_recipient(s, h)
    PROVE  TransferInv'
<1> USE DEF TransferInv
<1>1. UNCHANGED vars /\ UNCHANGED <<pay, journal>>
  BY DEF guard_recipient
<1>2. Onward /\ IInv' /\ UNCHANGED <<log, lnd>> /\ \A g \in Hash : Moved(log'[g]) <=> Moved(log[g])
  BY <1>1, StillOnward
<1>3. RequestsKnow' /\ OneReply' /\ req' \in [Sender -> Request]
  <2> DEFINE r == [pc |-> "authorize", hash |-> h, ent |-> log[h], reply |-> "none"]
  <2>1. CASE State(h) = "Open" /\ req' = [req EXCEPT ![s] = r]
    <3>1. log[h] # <<>> /\ try_from_events(log[h]) = "Open"
      BY <2>1 DEF State, try_from_events
    <3>2. LoadedFrom(log[h], log[h]) /\ log[h] \in Seq(InvoiceEvent)
      BY <3>1, LoadSelf
    <3>3. r \in Request /\ r.pc = "authorize" /\ r.hash = h /\ r.ent = log[h] /\ r.reply = "none"
      BY <3>2 DEF Request
    <3> HIDE DEF r
    <3>4. RequestOK(r, log'[r.hash], lnd'[r.hash], r.hash \in journal')
      BY <1>2, <3>1, <3>2, <3>3 DEF RequestOK
    <3> QED
      BY <1>2, <2>1, <3>3, <3>4, RequestSet, Zenon
  <2>2. CASE req' = [req EXCEPT ![s] = [NoRequest EXCEPT !.hash = h,
                       !.reply = IF State(h) = "Settled" THEN "ALREADY_PAID" ELSE "FAILURE"]]
    BY <1>2, <2>2, ReplyKeeps, Zenon
  <2> QED
    BY <2>1, <2>2 DEF guard_recipient
<1>4. TransferTypeOK' /\ TransfersOK'
  BY <1>1, <1>2, <1>3, Zenon DEF TransferTypeOK, TransfersOK, Request
<1> QED
  BY <1>2, <1>3, <1>4

\* AuthorizeSpend: a request that goes on has posted the journal.
LEMMA AuthorizeKeeps ==
    ASSUME TransferInv, NEW s \in Sender, authorize_transfer(s)
    PROVE  TransferInv'
<1> USE DEF TransferInv
<1> DEFINE h == req[s].hash
           r == [req[s] EXCEPT !.pc = "cancel_invoice"]
<1>1. /\ UNCHANGED vars /\ UNCHANGED pay /\ req[s].pc = "authorize"
      /\ journal' = journal \/ journal' = journal \cup {h}
  BY DEF authorize_transfer
<1>2. /\ h \in Hash /\ req[s] \in Request /\ req[s].reply = "none"
      /\ LoadedFrom(req[s].ent, log[h]) /\ try_from_events(req[s].ent) = "Open"
  BY <1>1, RequestForms, Zenon DEF RequestsKnow, RequestOK
<1>3. Onward /\ IInv' /\ UNCHANGED <<log, lnd>> /\ \A g \in Hash : Moved(log'[g]) <=> Moved(log[g])
  BY <1>1, StillOnward
<1>4. RequestsKnow' /\ OneReply' /\ req' \in [Sender -> Request]
  <2>1. CASE journal' = journal \cup {h} /\ Goto(s, "cancel_invoice")
    <3>1. /\ r \in Request /\ r.pc = "cancel_invoice" /\ r.hash = h
          /\ r.ent = req[s].ent /\ r.reply = "none"
      BY <1>2, RequestForms, Zenon
    <3>2. req' = [req EXCEPT ![s] = r]
      BY <2>1 DEF Goto
    <3> HIDE DEF r
    <3>3. RequestOK(r, log'[r.hash], lnd'[r.hash], r.hash \in journal')
      BY <1>2, <1>3, <2>1, <3>1 DEF RequestOK
    <3> QED
      BY <1>3, <3>1, <3>2, <3>3, RequestSet, Zenon
  <2>2. CASE Reply(s, "FAILURE")
    BY <1>2, <1>3, <2>2, ReplyKeeps, Zenon DEF Reply
  <2> QED
    BY <2>1, <2>2 DEF authorize_transfer
<1>5. TransferTypeOK' /\ TransfersOK'
  BY <1>1, <1>2, <1>3, <1>4 DEF TransferTypeOK, TransfersOK, Request
<1> QED
  BY <1>3, <1>4, <1>5

\* CancelInvoice: a request that goes on to its commit has the invoice canceled.
LEMMA CancelKeeps ==
    ASSUME TransferInv, NEW s \in Sender, cancel_invoice(s)
    PROVE  TransferInv'
<1> USE DEF TransferInv
<1> DEFINE h == req[s].hash
           r == [req[s] EXCEPT !.pc = "commit"]
<1>1. /\ UNCHANGED <<log, outbox, crt, lst, chan, wk, recovery, lost, pay, journal>>
      /\ req[s].pc = "cancel_invoice"
      /\ \/ UNCHANGED <<lnd, paid, strm>>
         \/ /\ lnd[h] \in {"Open", "Accepted"} /\ lnd' = [lnd EXCEPT ![h] = "Canceled"]
            /\ paid' = [paid EXCEPT ![h] = 0] /\ Emit(h, "Canceled", 0)
      /\ \/ /\ Goto(s, "commit")
            /\ (lnd[h] = "Canceled" /\ lnd' = lnd) \/ lnd' = [lnd EXCEPT ![h] = "Canceled"]
         \/ Reply(s, "FAILURE")
  BY DEF cancel_invoice
<1>2. /\ h \in Hash /\ req[s] \in Request /\ req[s].reply = "none" /\ h \in journal
      /\ LoadedFrom(req[s].ent, log[h]) /\ try_from_events(req[s].ent) = "Open"
  BY <1>1, RequestForms, Zenon DEF RequestsKnow, RequestOK
<1>3. lnd \in [Hash -> LndState \cup {"None"}] /\ 0 \in 0..MaxAmt
      /\ \A g \in Hash : log[g] \in Seq(InvoiceEvent)
  BY ConstantsAssumption DEF IInv, TypeOK
<1>4. IInv'
  <2>1. CASE UNCHANGED <<lnd, paid, strm>>
    <3>1. UNCHANGED vars
      BY <1>1, <2>1 DEF vars
    <3> QED
      BY <3>1, NextKeeps
  <2>2. CASE /\ lnd[h] \in {"Open", "Accepted"} /\ lnd' = [lnd EXCEPT ![h] = "Canceled"]
             /\ paid' = [paid EXCEPT ![h] = 0] /\ Emit(h, "Canceled", 0)
    <3> HIDE DEF h
    <3> QED
      BY <1>1, <1>2, <1>3, <2>2, LndStep, Zenon
  <2> QED
    BY <1>1, <2>1, <2>2
<1>5. Onward
  <2>1. \A g \in Hash : lnd[g] = "Canceled" => lnd'[g] = "Canceled"
    BY <1>1, <1>2, <1>3
  <2>2. \A g \in Hash : Len(log[g]) \in Nat
    BY <1>3
  <2> QED
    BY <1>1, <2>1, <2>2 DEF Onward
<1>6. RequestsKnow' /\ OneReply' /\ req' \in [Sender -> Request]
  <2>1. CASE Goto(s, "commit") /\ ((lnd[h] = "Canceled" /\ lnd' = lnd)
                                   \/ lnd' = [lnd EXCEPT ![h] = "Canceled"])
    <3>1. /\ r \in Request /\ r.pc = "commit" /\ r.hash = h
          /\ r.ent = req[s].ent /\ r.reply = "none"
      BY <1>2, RequestForms, Zenon
    <3>2. req' = [req EXCEPT ![s] = r] /\ lnd'[h] = "Canceled"
      BY <1>2, <1>3, <2>1 DEF Goto
    <3> HIDE DEF r
    <3>3. RequestOK(r, log'[r.hash], lnd'[r.hash], r.hash \in journal')
      BY <1>1, <1>2, <3>1, <3>2 DEF RequestOK
    <3> QED
      BY <1>5, <3>1, <3>2, <3>3, RequestSet, Zenon
  <2>2. CASE Reply(s, "FAILURE")
    BY <1>2, <1>5, <2>2, ReplyKeeps, Zenon DEF Reply
  <2> QED
    BY <1>1, <2>1, <2>2
<1>7. TransferTypeOK' /\ TransfersOK'
  BY <1>1, <1>6, Zenon DEF TransferTypeOK, TransfersOK, Request
<1> QED
  BY <1>4, <1>6, <1>7

\* The payment the transaction creates is settled.
LEMMA PaidFacts ==
    /\ Payment!settle(Payment!into_events).events = PaidLog
    /\ PaidLog \in Seq(Payment!PaymentEvent) /\ PaidLog # <<>>
    /\ Payment!try_from_events(PaidLog) = "Completed"
<1>1. /\ PaidLog \in Seq(Payment!PaymentEvent) /\ PaidLog # <<>>
      /\ Len(PaidLog) = 2 /\ PaidLog[2] = "Completed"
  BY DEF PaidLog, Payment!PaymentEvent
<1>2. Payment!try_from_events(PaidLog) = "Completed"
  BY <1>1 DEF Payment!try_from_events
<1>3. Payment!into_events = <<"Initiated">> /\ <<"Initiated">> # <<>>
  BY DEF Payment!into_events
<1>4. ~Payment!AppliedBefore(<<"Initiated">>, "Completed")
      /\ Payment!try_from_events(<<"Initiated">>) = "Initiated"
  BY DEF Payment!AppliedBefore, Payment!try_from_events
<1>5. Append(<<"Initiated">>, "Completed") = PaidLog
  BY DEF PaidLog
<1>6. Payment!settle(<<"Initiated">>) = Payment!Executed(Append(<<"Initiated">>, "Completed"))
  BY <1>4, Zenon DEF Payment!settle, Payment!Command
<1>7. Payment!settle(Payment!into_events).events = PaidLog
  <2>1. \A q : Payment!Executed(q).events = q
    BY DEF Payment!Executed
  <2> QED
    BY <1>3, <1>5, <1>6, <2>1, Zenon
<1> QED
  BY <1>1, <1>2, <1>7

\* settle_intraledger that executes ends an open log with a transfer.
LEMMA MoveFacts ==
    ASSUME NEW l, NEW a, LegalLog(l, a), settle_intraledger(l).result = "Executed"
    PROVE  /\ try_from_events(l) = "Open" /\ a = 0 /\ Len(l) = 1
           /\ LegalLog(settle_intraledger(l).events, 0) /\ Moved(settle_intraledger(l).events)
           /\ settle_intraledger(l).events \in Seq(InvoiceEvent)
           /\ Len(settle_intraledger(l).events) = 2
<1> DEFINE e == Event("SettledIntraledger", 0)
<1>1. try_from_events(l) = "Open" /\ settle_intraledger(l).events = Append(l, e)
  BY DEF settle_intraledger, Command
<1>2. e \in InvoiceEvent /\ e.type = "SettledIntraledger" /\ 0 \in 0..MaxAmt
  BY EventTypes DEF InvoiceEventType
<1> HIDE DEF e
<1>3. Len(l) = 1
  BY <1>1, LogFacts
<1>4. a = 0 /\ l \in Seq(InvoiceEvent) /\ l[1].type = "Created"
  BY <1>3 DEF LegalLog
<1>5. /\ Append(l, e) \in Seq(InvoiceEvent) /\ Len(Append(l, e)) = 2
      /\ Append(l, e)[2] = e /\ Append(l, e)[1] = l[1]
  <2>1. /\ Append(l, e) \in Seq(InvoiceEvent) /\ Len(Append(l, e)) = Len(l) + 1
        /\ Append(l, e)[Len(l) + 1] = e /\ \A i \in 1..Len(l) : Append(l, e)[i] = l[i]
    BY <1>2, <1>4, AppendEvent
  <2> QED
    BY <1>3, <2>1
<1>6. LegalLog(Append(l, e), 0) /\ Moved(Append(l, e))
  BY <1>2, <1>4, <1>5 DEF LegalLog, Moved
<1> QED
  BY <1>1, <1>3, <1>4, <1>5, <1>6

\* settle_intraledger of a row LND has canceled: a legal row, closed by the transfer.
LEMMA MovedRow ==
    ASSUME NEW l, NEW o \in Seq(OutboxRows), NEW amt, NEW request, NEW listener,
           RowOK(l, o, "Canceled", amt, request, listener),
           settle_intraledger(l).result = "Executed"
    PROVE  LET events == settle_intraledger(l).events
               out == OutboxRow("LightningIntraledgerTransferCompleted", 0, 0)
           IN  /\ try_from_events(l) = "Open" /\ ~Moved(l) /\ Moved(events)
               /\ events \in Seq(InvoiceEvent) /\ out \in OutboxRows
               /\ Len(l) = 1 /\ Len(events) = 2 /\ Grown(l, events)
               /\ RowOK(events, Append(o, out), "Canceled", amt, request, listener)
<1>a. PICK events : events = settle_intraledger(l).events
  OBVIOUS
<1>b. PICK out : out = OutboxRow("LightningIntraledgerTransferCompleted", 0, 0)
  OBVIOUS
<1>1. LegalLog(l, held_amount_msat(l))
  BY DEF RowOK
<1>2. /\ try_from_events(l) = "Open" /\ held_amount_msat(l) = 0 /\ Len(l) = 1
      /\ LegalLog(events, 0) /\ Moved(events) /\ Len(events) = 2
      /\ events \in Seq(InvoiceEvent)
  BY <1>a, <1>1, MoveFacts
<1>3. /\ held_amount_msat(events) = 0 /\ try_from_events(events) = "Settled"
      /\ events # <<>> /\ l # <<>>
  BY <1>1, <1>2, LogFacts
<1>4. out \in OutboxRows /\ out.held = 0 /\ out.type = "LightningIntraledgerTransferCompleted"
  BY <1>b, EventTypes DEF OutboxRow, OutboxRows, OutboxEvent
<1>5. Len(o) = 0
  BY <1>2 DEF RowOK, Terminal
<1>6. Len(Append(o, out)) = 1 /\ Append(o, out)[1] = out
  BY <1>4, <1>5
<1>7. RowOK(events, Append(o, out), "Canceled", amt, request, listener)
  BY <1>2, <1>3, <1>4, <1>6 DEF RowOK, Terminal
<1>8. ~Moved(l) /\ Grown(l, events)
  BY <1>2 DEF Moved, Grown
<1> QED
  BY <1>a, <1>b, <1>2, <1>4, <1>7, <1>8, Zenon

\* The transaction: the row ends with the transfer, its reporting event is its only
\* outbox row, and what the other tasks know stays true.
LEMMA TransferWrites ==
    ASSUME TransferInv, NEW s \in Sender, req[s].pc = "commit",
           TransferTx(req[s].hash, req[s].ent),
           UNCHANGED <<lnd, paid, crt, lst, strm, chan, wk, recovery, lost, journal>>
    PROVE  /\ IInv' /\ Onward /\ req[s].hash \in Hash
           /\ ~Moved(log[req[s].hash])
           /\ pay' = [pay EXCEPT ![req[s].hash] = PaidLog]
           /\ Moved(log'[req[s].hash])
           /\ \A g \in Hash \ {req[s].hash} : log'[g] = log[g]
<1>1. PICK h : h = req[s].hash
  OBVIOUS
<1>2. IInv /\ RequestOK(req[s], log[h], lnd[h], h \in journal)
  BY <1>1, Zenon DEF TransferInv, RequestsKnow
<1>3. h \in Hash /\ LoadedFrom(req[s].ent, log[h]) /\ lnd[h] = "Canceled"
  BY <1>1, <1>2, Zenon DEF RequestOK
<1>4. req[s].ent = log[h]
  BY <1>1, <1>3, Zenon DEF LoadedFrom, TransferTx, update_in_op
<1>5. PICK events : events = settle_intraledger(log[h]).events
  OBVIOUS
<1>6. PICK out : out = OutboxRow("LightningIntraledgerTransferCompleted", 0, 0)
  OBVIOUS
<1>7. /\ settle_intraledger(log[h]).result = "Executed" /\ log' = [log EXCEPT ![h] = events]
      /\ outbox' = [outbox EXCEPT ![h] = Append(@, out)]
      /\ pay' = [pay EXCEPT ![h] = PaidLog]
  BY <1>1, <1>4, <1>5, <1>6, PaidFacts, Zenon DEF TransferTx, update_in_op
<1>8. /\ RowOK(log[h], outbox[h], "Canceled", paid[h], crt[h], lst[h])
      /\ outbox[h] \in Seq(OutboxRows) /\ log \in [Hash -> Seq(InvoiceEvent)]
  BY <1>2, <1>3 DEF IInv, RowsOK, TypeOK
<1>9. /\ try_from_events(log[h]) = "Open" /\ ~Moved(log[h]) /\ Moved(events)
      /\ events \in Seq(InvoiceEvent) /\ out \in OutboxRows
      /\ Len(log[h]) = 1 /\ Len(events) = 2 /\ Grown(log[h], events)
      /\ RowOK(events, Append(outbox[h], out), "Canceled", paid[h], crt[h], lst[h])
  BY <1>5, <1>6, <1>7, <1>8, MovedRow, Zenon
<1>10. IInv'
  <2>1. Moves => TasksKnow' /\ wk' \in [Worker -> Task]
    BY <1>2, TasksStay, Zenon DEF IInv, TypeOK
  <2>2. lost \subseteq lost' /\ lost' \subseteq Hash
    BY <1>2 DEF IInv, TypeOK
  <2> QED
    BY <1>2, <1>3, <1>7, <1>9, <2>1, <2>2, WriteKeeps, Zenon
<1>11. log'[h] = events /\ \A g \in Hash \ {h} : log'[g] = log[g]
  BY <1>3, <1>7, <1>8
<1>12. Onward
  <2>1. \A g \in Hash : Len(log[g]) \in Nat
    BY <1>8
  <2>2. \A m, n : m = 1 /\ n = 2 => m < n /\ n \in Nat
    OBVIOUS
  <2>3. Len(log[h]) < Len(log'[h]) /\ Len(log'[h]) \in Nat
    BY <1>9, <1>11, <2>2, Zenon
  <2> QED
    BY <1>9, <1>11, <2>1, <2>3, Zenon DEF Onward
<1> QED
  BY <1>1, <1>3, <1>7, <1>9, <1>10, <1>11, <1>12, Zenon

\* The commit of a request, which is refused, fails, or happens and may not be told.
LEMMA TransferKeeps ==
    ASSUME TransferInv, NEW s \in Sender, commit_transfer(s)
    PROVE  TransferInv'
<1> USE DEF TransferInv
<1> DEFINE h == req[s].hash
<1>1. /\ req[s].pc = "commit" /\ UNCHANGED <<lnd, paid, crt, lst, strm, chan, wk, recovery, lost, journal>>
      /\ TransferTx(h, req[s].ent) \/ UNCHANGED <<log, outbox, pay>>
      /\ \/ Reply(s, "SUCCESS") /\ TransferTx(h, req[s].ent)
         \/ \E a \in {"FAILURE", "ALREADY_PAID"} : Reply(s, a)
  BY Zenon DEF commit_transfer
<1>2. /\ h \in Hash /\ h \in journal
  BY <1>1 DEF RequestsKnow, RequestOK
<1>3. CASE UNCHANGED <<log, outbox, pay>> /\ \E a \in {"FAILURE", "ALREADY_PAID"} : Reply(s, a)
  <2>1. UNCHANGED vars /\ UNCHANGED <<pay, journal>>
    BY <1>1, <1>3 DEF vars
  <2>2. Onward /\ IInv' /\ \A g \in Hash : Moved(log'[g]) <=> Moved(log[g])
    BY <2>1, StillOnward
  <2>3. RequestsKnow' /\ OneReply' /\ req' \in [Sender -> Request]
    BY <1>2, <1>3, <2>2, ReplyKeeps, Zenon DEF Reply
  <2>4. TransferTypeOK' /\ TransfersOK'
    BY <2>1, <2>2, <2>3, Zenon DEF TransferTypeOK, TransfersOK, Request
  <2> QED
    BY <2>2, <2>3, <2>4, Zenon
<1>4. CASE TransferTx(h, req[s].ent)
  <2>1. /\ IInv' /\ Onward /\ ~Moved(log[h]) /\ pay' = [pay EXCEPT ![h] = PaidLog]
        /\ Moved(log'[h]) /\ \A g \in Hash \ {h} : log'[g] = log[g]
    BY <1>1, <1>4, TransferWrites
  <2>2. RequestsKnow' /\ OneReply' /\ req' \in [Sender -> Request]
    <3>1. CASE \E a \in {"FAILURE", "ALREADY_PAID"} : Reply(s, a)
      BY <1>2, <2>1, <3>1, ReplyKeeps, Zenon DEF Reply
    <3>2. CASE Reply(s, "SUCCESS")
      <4>1. PICK r : r = [NoRequest EXCEPT !.hash = h, !.reply = "SUCCESS"]
        OBVIOUS
      <4>2. req' = [req EXCEPT ![s] = r]
        BY <3>2, <4>1, Zenon DEF Reply
      <4>3. r \in Request /\ r.pc = "idle" /\ r.hash = h /\ r.reply = "SUCCESS"
        <5>1. <<>> \in Seq(InvoiceEvent)
          OBVIOUS
        <5>2. r = [pc |-> "idle", hash |-> h, ent |-> <<>>, reply |-> "SUCCESS"]
          BY <4>1, Zenon DEF NoRequest
        <5> QED
          BY <1>2, <5>1, <5>2 DEF Request
      <4>4. RequestOK(r, log'[r.hash], lnd'[r.hash], r.hash \in journal')
        BY <1>2, <2>1, <4>3 DEF RequestOK
      <4> QED
        BY <1>2, <2>1, <4>2, <4>3, <4>4, RequestSet, Zenon
    <3> QED
      BY <1>1, <3>1, <3>2
  <2>3. TransferTypeOK'
    BY <1>1, <1>2, <2>1, <2>2, PaidFacts DEF TransferTypeOK, Request
  <2>4. TransfersOK'
    <3>1. pay'[h] = PaidLog /\ \A g \in Hash \ {h} : pay'[g] = pay[g]
      BY <1>2, <2>1 DEF TransferTypeOK
    <3> QED
      BY <1>1, <1>2, <2>1, <3>1, Zenon DEF TransfersOK
  <2> QED
    BY <2>1, <2>2, <2>3, <2>4
<1> QED
  BY <1>1, <1>3, <1>4, Zenon

\* A crash ends the requests; payments and journal stay.
LEMMA CrashAllKeeps ==
    ASSUME TransferInv, CrashAll
    PROVE  TransferInv'
<1>1. Crash /\ req' = [s \in Sender |-> NoRequest] /\ UNCHANGED <<pay, journal, log, lnd>>
  BY DEF CrashAll, Crash
<1>2. IInv'
  BY <1>1, CrashStep DEF TransferInv
<1>3. <<>> \in Seq(InvoiceEvent)
  OBVIOUS
<1>4. NoRequest \in Request /\ NoRequest.pc = "idle" /\ NoRequest.reply = "none"
  BY <1>3 DEF Request, NoRequest
<1>5. TransferTypeOK' /\ TransfersOK'
  BY <1>1, <1>4 DEF TransferInv, TransferTypeOK, TransfersOK, Request
<1>6. RequestsKnow' /\ OneReply'
  BY <1>1, <1>4 DEF RequestsKnow, RequestOK, OneReply
<1> QED
  BY <1>2, <1>5, <1>6 DEF TransferInv

------------------------------------------------------------------------------
(* Theorems *)

\* The invariant holds in every reachable state of the composition.
LEMMA TransferInductive == SpecAll => []TransferInv
<1>1. InitAll => TransferInv
  <2> SUFFICES ASSUME InitAll PROVE TransferInv
    OBVIOUS
  <2>1. IInv /\ log = [h \in Hash |-> <<>>]
    BY InitHolds DEF InitAll, Init
  <2>2. <<>> \in Seq(InvoiceEvent) /\ Len(<<>>) = 0 /\ <<>> \in Seq(Payment!PaymentEvent)
    OBVIOUS
  <2>3. NoRequest \in Request /\ NoRequest.pc = "idle" /\ NoRequest.reply = "none"
    BY <2>2 DEF Request, NoRequest
  <2>4. TransferTypeOK /\ TransfersOK
    BY <2>1, <2>2, <2>3 DEF InitAll, TransferTypeOK, TransfersOK, Request, Moved
  <2>5. RequestsKnow /\ OneReply
    BY <2>3 DEF InitAll, RequestsKnow, RequestOK, OneReply
  <2> QED
    BY <2>1, <2>4, <2>5 DEF TransferInv
<1>2. TransferInv /\ [NextAll]_allVars => TransferInv'
  <2> SUFFICES ASSUME TransferInv, [NextAll]_allVars PROVE TransferInv'
    OBVIOUS
  <2>1. CASE GatewayStep /\ UNCHANGED ownVars
    BY <2>1, GatewayKeeps DEF Next
  <2>2. CASE UNCHANGED allVars
    BY <2>2, GatewayKeeps DEF allVars
  <2>3. ASSUME NEW s \in Sender, RequestStep(s) PROVE TransferInv'
    BY <2>3, AuthorizeKeeps, CancelKeeps, TransferKeeps DEF RequestStep
  <2> QED
    BY <2>1, <2>2, <2>3, GuardKeeps, CrashAllKeeps DEF NextAll
<1> QED
  BY <1>1, <1>2, PTL DEF SpecAll

\* Payments, journal and requests keep their types.
THEOREM TransferTypes == SpecAll => []TransferTypeOK
<1>1. TransferInv => TransferTypeOK
  BY DEF TransferInv
<1> QED
  BY <1>1, TransferInductive, PTL

\* What the log says about a transfer.
LEMMA TransferredIsMoved ==
    ASSUME IInv, NEW h \in Hash
    PROVE  /\ Transferred(h) <=> Moved(log[h])
           /\ Moved(log[h]) => held_amount_msat(log[h]) = 0 /\ State(h) = "Settled"
<1>1. LegalLog(log[h], held_amount_msat(log[h]))
  BY DEF IInv, RowsOK, RowOK
<1> QED
  BY <1>1, LogFacts DEF Transferred, State

\* commit_transfer is all or nothing, whatever the listener, the consumer, the sweep,
\* other requests and crashes do between its load and its commit: payment, invoice,
\* outbox, journal and LND agree on whether the transfer happened.
THEOREM TransfersAtomic == SpecAll => []TransferAtomic
<1>1. ASSUME TransferInv, NEW h \in Hash
      PROVE  /\ pay[h] # <<>> <=> Transferred(h)
             /\ Transferred(h) =>
                   /\ Payment!try_from_events(pay[h]) = "Completed" /\ State(h) = "Settled"
                   /\ Len(outbox[h]) = 1
                   /\ outbox[h][1].type = "LightningIntraledgerTransferCompleted"
                   /\ h \in journal /\ lnd[h] = "Canceled"
  <2>1. /\ RowOK(log[h], outbox[h], lnd[h], paid[h], crt[h], lst[h])
        /\ pay[h] = (IF Moved(log[h]) THEN PaidLog ELSE <<>>)
        /\ Moved(log[h]) => h \in journal
    BY <1>1 DEF TransferInv, IInv, RowsOK, TransfersOK
  <2>2. /\ Transferred(h) <=> Moved(log[h])
        /\ Moved(log[h]) => held_amount_msat(log[h]) = 0 /\ State(h) = "Settled"
    BY <1>1, TransferredIsMoved DEF TransferInv
  <2>3. Moved(log[h]) => /\ Len(outbox[h]) = 1 /\ lnd[h] = "Canceled"
                         /\ outbox[h][1].type = "LightningIntraledgerTransferCompleted"
    BY <2>1, <2>2 DEF RowOK, State, Terminal
  <2> QED
    BY <2>1, <2>2, <2>3, PaidFacts, Zenon
<1>2. TransferInv => TransferAtomic
  BY <1>1 DEF TransferAtomic
<1> QED
  BY <1>2, TransferInductive, PTL

\* Of the requests that race to pay one invoice at most one is answered SUCCESS, and
\* the invoice was transferred.
THEOREM SuccessOnce == SpecAll => []OneSuccess
<1>1. ASSUME TransferInv, NEW s \in Sender, req[s].reply = "SUCCESS"
      PROVE  Transferred(req[s].hash)
  <2>1. req[s].hash \in Hash /\ Moved(log[req[s].hash])
    BY <1>1 DEF TransferInv, RequestsKnow, RequestOK
  <2> QED
    BY <1>1, <2>1, TransferredIsMoved DEF TransferInv
<1>2. TransferInv => OneReply
  BY DEF TransferInv
<1>3. TransferInv => OneSuccess
  BY <1>1, <1>2 DEF OneReply, OneSuccess
<1> QED
  BY <1>3, TransferInductive, PTL

\* The cancellation that a transfer causes at LND, and its echo on the stream, never
\* make a row contradict LND.
THEOREM RowsStillAgree == SpecAll => []RowStillAgrees
<1>1. ASSUME TransferInv, NEW h \in Hash, State(h) \in Terminal, ~Transferred(h)
      PROVE  lnd[h] = State(h)
  <2>1. RowOK(log[h], outbox[h], lnd[h], paid[h], crt[h], lst[h]) /\ ~Moved(log[h])
    BY <1>1, TransferredIsMoved DEF TransferInv, IInv, RowsOK
  <2> QED
    BY <1>1, <2>1 DEF RowOK, State
<1>2. TransferInv => RowStillAgrees
  BY <1>1 DEF RowStillAgrees
<1> QED
  BY <1>2, TransferInductive, PTL

\* The invoice promises that do not speak of LND's settlement survive the composition
\* with transfers: no payable invoice without a row, no returned one without a
\* listener, no preimage released before its hold.
THEOREM PromisesSurvive == SpecAll => [](PayableHasRow /\ ReturnedIsWatched /\ HeldBeforeSettle)
<1>1. TransferInv => PayableHasRow /\ ReturnedIsWatched /\ HeldBeforeSettle
  BY InvPromises DEF TransferInv
<1> QED
  BY <1>1, TransferInductive, PTL
==============================================================================
