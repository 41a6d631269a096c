------------------------- MODULE OutgoingPaymentInv --------------------------
(***************************************************************************)
(* What the commands of the Payment aggregate do to a legal log, the       *)
(* inductive invariant of OutgoingPayment, its preservation by every step  *)
(* that does not write a row, and what a write of a row keeps.             *)
(***************************************************************************)
EXTENDS OutgoingPayment, SequenceTheorems, TLAPS

------------------------------------------------------------------------------
(* The aggregate *)

\* Appending to a one-element sequence gives the pair.
LEMMA AppendPair ==
    ASSUME NEW S, NEW x \in S, NEW y \in S
    PROVE  Append(<<x>>, y) = <<x, y>>
<1>1. <<x>> \in Seq(S) /\ <<x, y>> \in Seq(S) /\ Len(<<x, y>>) = 2
  OBVIOUS
<1>2. /\ Append(<<x>>, y) \in Seq(S) /\ Len(Append(<<x>>, y)) = 2
      /\ Append(<<x>>, y)[1] = x /\ Append(<<x>>, y)[2] = y
  BY <1>1
<1>3. \A i \in 1..2 : Append(<<x>>, y)[i] = <<x, y>>[i]
  BY <1>2
<1> QED BY <1>1, <1>2, <1>3, SeqEqual, Zenon

\* A prefix of a prefix is a prefix.
LEMMA FirstOfPrefix ==
    ASSUME NEW S, NEW s \in Seq(S), NEW e \in Seq(S),
           Len(e) = 2, Len(s) = 3, SubSeq(s, 1, 2) = e
    PROVE  SubSeq(s, 1, 1) = SubSeq(e, 1, 1)
<1>1. e[1] = s[1]
  BY SubSeqProperties
<1>2. /\ SubSeq(s, 1, 1) \in Seq(S) /\ SubSeq(e, 1, 1) \in Seq(S)
      /\ Len(SubSeq(s, 1, 1)) = 1 /\ Len(SubSeq(e, 1, 1)) = 1
      /\ SubSeq(s, 1, 1)[1] = s[1] /\ SubSeq(e, 1, 1)[1] = e[1]
  OBVIOUS
<1> QED BY <1>1, <1>2, SeqEqual

\* A log in which a terminal event can only be the last one.  Nothing produces
\* Reversed.
LegalLog(l) ==
    /\ l \in Seq(PaymentEvent)
    /\ \A i \in 1..Len(l) :
          /\ l[i] # "Reversed"
          /\ l[i] \in Terminal => i = Len(l)

\* The log of a payment that was just created.
LEMMA NewLog ==
    /\ LegalLog(into_events)
    /\ into_events # <<>>
    /\ Len(into_events) = 1
    /\ try_from_events(into_events) = "Initiated"
BY DEF LegalLog, into_events, try_from_events, Terminal, PaymentEvent

\* The state of a legal log is one of the states the gateway produces, and it is
\* Absent exactly for the empty log.
LEMMA LegalState ==
    ASSUME NEW l, LegalLog(l)
    PROVE  /\ try_from_events(l) \in {"Absent", "Initiated", "Pending", "Completed", "Failed"}
           /\ try_from_events(l) = "Absent" <=> l = <<>>
<1>1. CASE l = <<>>
  BY <1>1 DEF try_from_events
<1>2. CASE l # <<>>
  <2>1. l \in Seq(PaymentEvent) /\ Len(l) \in 1..Len(l)
    BY <1>2 DEF LegalLog
  <2>2. l[Len(l)] \in PaymentEvent \ {"Reversed"}
    BY <2>1 DEF LegalLog
  <2> QED BY <1>2, <2>2 DEF try_from_events, PaymentEvent
<1> QED BY <1>1, <1>2

\* Appending an event to a legal log that is not terminal keeps it legal, makes
\* that event its state and keeps the old log as a prefix.
LEMMA LegalAppend ==
    ASSUME NEW l, LegalLog(l), try_from_events(l) \notin Terminal,
           NEW e \in PaymentEvent \ {"Reversed"}
    PROVE  /\ LegalLog(Append(l, e))
           /\ try_from_events(Append(l, e)) = e
           /\ Len(Append(l, e)) = Len(l) + 1
           /\ Append(l, e) # <<>>
           /\ SubSeq(Append(l, e), 1, Len(l)) = l
<1>1. l \in Seq(PaymentEvent) /\ Len(l) \in Nat
  BY DEF LegalLog
<1>2. /\ Append(l, e) \in Seq(PaymentEvent)
      /\ Len(Append(l, e)) = Len(l) + 1
      /\ \A i \in 1..Len(l) : Append(l, e)[i] = l[i]
      /\ Append(l, e)[Len(l) + 1] = e
  BY <1>1
<1>3. Append(l, e) # <<>>
  BY <1>1, <1>2
<1>4. try_from_events(Append(l, e)) = e
  BY <1>2, <1>3 DEF try_from_events
<1>5. \A i \in 1..Len(l) : l[i] # "Reversed" /\ l[i] \notin Terminal
  <2> SUFFICES ASSUME NEW i \in 1..Len(l), l[i] \in Terminal
               PROVE  FALSE
    BY DEF LegalLog
  <2>1. i = Len(l) /\ l # <<>>
    BY <1>1 DEF LegalLog
  <2> QED BY <2>1 DEF try_from_events
<1>6. LegalLog(Append(l, e))
  BY <1>1, <1>2, <1>5 DEF LegalLog
<1>7. SubSeq(Append(l, e), 1, Len(l)) = l
  BY <1>1, <1>2
<1> QED BY <1>2, <1>3, <1>4, <1>6, <1>7

\* settle and fail, when they execute, append their event to a log that is not
\* terminal.
LEMMA SettleFacts ==
    ASSUME NEW l, settle(l).result = "Executed"
    PROVE  settle(l).events = Append(l, "Completed") /\ try_from_events(l) \in {"Initiated", "Pending"}
BY DEF settle, Command, Executed, AlreadyApplied, InvalidStateTransition

\* A fail that executes appends Failed to a log that was open.
LEMMA FailFacts ==
    ASSUME NEW l, fail(l).result = "Executed"
    PROVE  fail(l).events = Append(l, "Failed") /\ try_from_events(l) \in {"Initiated", "Pending"}
BY DEF fail, Command, Executed, AlreadyApplied, InvalidStateTransition

\* mark_pending on a new payment.
LEMMA PendingFacts ==
    /\ mark_pending(into_events).result = "Executed"
    /\ mark_pending(into_events).events = Append(into_events, "Pending")
BY NewLog DEF mark_pending, Executed, AlreadyApplied, InvalidStateTransition

------------------------------------------------------------------------------
(* The inductive invariant *)

\* `ent` was loaded from `row` and no event of it was changed since: either the
\* row has grown, or `ent` is still the row.
LoadedFrom(ent, row) ==
    /\ LegalLog(ent) /\ ent # <<>>
    /\ Len(ent) <= Len(row)
    /\ Len(ent) = Len(row) => ent = row

Working(s) == snd[s].pc # "idle"

\* What a request knows at each of its steps.
RequestOK(s) ==
    LET h == snd[s].hash
        pc == snd[s].pc
    IN  /\ h \in Hash
        /\ snd[s].ent = into_events
        /\ snd[s].reply = "none"
        /\ LoadedFrom(into_events, log[h])
        /\ pc \in {"authorize", "send"} => lnd[h] = "NotFound" /\ State(h) = "Initiated"
        /\ pc = "send" => h \in hold
        /\ pc \in {"await", "transition_to_pending"} => lnd[h] # "NotFound"
        /\ pc = "settle_inline" => lnd[h] = "Succeeded"

RequestInv == \A s \in Sender : Working(s) => RequestOK(s)

\* UNIQUE(payment_hash) admits one request at a time per hash.
OneRequestPerHash ==
    \A s, t \in Sender :
        Working(s) /\ Working(t) /\ snd[s].hash = snd[t].hash => s = t

\* What the consumer and the sweep know about the row they loaded.
TaskOK(w) ==
    /\ wk[w].hash \in Hash
    /\ LoadedFrom(wk[w].ent, log[wk[w].hash])
    /\ wk[w].pc = "commit" => wk[w].status \in LndFinal /\ lnd[wk[w].hash] = wk[w].status

WorkerInv == \A w \in Worker : wk[w].pc # "idle" => TaskOK(w)

\* A final status on its way to the consumer is LND's status.
UpdatesTrue ==
    /\ \A h \in Hash : \A i \in 1..Len(track[h]) :
          /\ lnd[h] # "NotFound"
          /\ track[h][i] \in LndFinal => lnd[h] = track[h][i]
    /\ \A i \in 1..Len(chan) :
          chan[i].status \in LndFinal => lnd[chan[i].hash] = chan[i].status

RowsLegal == \A h \in Hash : LegalLog(log[h])

\* The rows and their outbox, and what they say about LND and Symphony.
RowInv == RowsLegal /\ OutboxMatchesRow /\ HoldBeforeLnd /\ CompletedOnlyIfPaid

Inv == TypeOK /\ RowInv /\ RequestInv /\ OneRequestPerHash /\ WorkerInv /\ UpdatesTrue

\* The rest of the invariant holds when a SendPaymentV2 error always means that
\* LND has not accepted the payment.
InvNoSendError ==
    /\ FailedOnlyIfUnpaid
    /\ \A s \in Sender :
          snd[s].pc = "fail_inline" => lnd[snd[s].hash] \in {"NotFound", "Failed"}

------------------------------------------------------------------------------
(* What a step leaves alone *)

\* A step that leaves rows, outbox, holds and LND alone keeps what they say.
LEMMA RowFrame ==
    ASSUME RowInv, UNCHANGED <<log, outbox, hold, lnd>>
    PROVE  RowInv'
BY DEF RowInv, RowsLegal, OutboxMatchesRow, HoldBeforeLnd, CompletedOnlyIfPaid, State

\* A step that moves no request and nothing it relies on keeps the request facts.
LEMMA RequestFrame ==
    ASSUME RequestInv, OneRequestPerHash, UNCHANGED <<log, hold, lnd, snd>>
    PROVE  RequestInv' /\ OneRequestPerHash'
BY DEF RequestInv, OneRequestPerHash, RequestOK, Working, State

\* A step that moves no task, row or LND status keeps the task facts.
LEMMA WorkerFrame ==
    ASSUME WorkerInv, UNCHANGED <<log, lnd, wk>>
    PROVE  WorkerInv'
BY DEF WorkerInv, TaskOK

\* A step that leaves stream, channel and LND alone keeps the updates true.
LEMMA UpdatesFrame ==
    ASSUME UpdatesTrue, UNCHANGED <<lnd, track, chan>>
    PROVE  UpdatesTrue'
BY DEF UpdatesTrue

\* A loaded log stays loaded when its row grows.
LEMMA LoadedGrow ==
    ASSUME NEW ent, NEW row \in Seq(PaymentEvent), NEW new \in Seq(PaymentEvent),
           LoadedFrom(ent, row), Len(new) > Len(row)
    PROVE  LoadedFrom(ent, new)
BY DEF LoadedFrom, LegalLog

\* find_by_payment_hash: what is loaded is the row as it stands.
LEMMA LoadedSelf ==
    ASSUME NEW row, LegalLog(row), row # <<>>
    PROVE  LoadedFrom(row, row)
BY DEF LoadedFrom, LegalLog

------------------------------------------------------------------------------
(* The steps of a request that do not write its row *)

\* A request that goes on keeps its hash and entity; no other request moves.
LEMMA GotoFacts ==
    ASSUME TypeOK, OneRequestPerHash, NEW s \in Sender, Working(s),
           NEW pc \in SenderPc, Goto(s, pc)
    PROVE  /\ snd' \in [Sender -> Request]
           /\ snd'[s].pc = pc /\ snd'[s].hash = snd[s].hash
           /\ snd'[s].ent = snd[s].ent /\ snd'[s].reply = snd[s].reply
           /\ \A t \in Sender \ {s} : snd'[t] = snd[t]
           /\ OneRequestPerHash'
<1>1. snd' \in [Sender -> Request]
  BY DEF TypeOK, Goto, Request
<1>2. /\ snd'[s].pc = pc /\ snd'[s].hash = snd[s].hash
      /\ snd'[s].ent = snd[s].ent /\ snd'[s].reply = snd[s].reply
      /\ \A t \in Sender \ {s} : snd'[t] = snd[t]
  BY DEF TypeOK, Goto
<1>3. \A t \in Sender : snd'[t].hash = snd[t].hash /\ (Working(t)' => Working(t))
  BY <1>2 DEF Working
<1> QED BY <1>1, <1>2, <1>3 DEF OneRequestPerHash

\* A request that answers is idle again; no other request moves.
LEMMA ReplyFacts ==
    ASSUME TypeOK, OneRequestPerHash, NEW s \in Sender, NEW h \in Hash,
           NEW r \in {"PENDING", "SUCCESS", "FAILURE", "ALREADY_PAID"}, Reply(s, h, r)
    PROVE  /\ snd' \in [Sender -> Request]
           /\ ~Working(s)'
           /\ \A t \in Sender \ {s} : snd'[t] = snd[t]
           /\ OneRequestPerHash'
<1>1. snd' \in [Sender -> Request]
  BY DEF TypeOK, Reply, Request, SenderPc
<1>2. /\ snd'[s].pc = "idle"
      /\ \A t \in Sender \ {s} : snd'[t] = snd[t]
  BY DEF TypeOK, Reply
<1>3. ~Working(s)' /\ \A t \in Sender \ {s} : Working(t)' => Working(t)
  BY <1>2 DEF Working
<1> QED BY <1>1, <1>2, <1>3 DEF OneRequestPerHash

\* An emitted status is the only new message on the stream of its hash.
LEMMA EmitFacts ==
    ASSUME TypeOK, NEW h \in Hash, NEW st \in LndStatus, Emit(h, st)
    PROVE  /\ track' \in [Hash -> Seq(LndStatus)]
           /\ \A g \in Hash \ {h} : track'[g] = track[g]
           /\ \A i \in 1..Len(track'[h]) :
                 (i \in 1..Len(track[h]) /\ track'[h][i] = track[h][i]) \/ track'[h][i] = st
<1>1. track[h] \in Seq(LndStatus) /\ track \in [Hash -> Seq(LndStatus)]
  BY DEF TypeOK
<1>2. /\ Append(track[h], st) \in Seq(LndStatus)
      /\ Len(Append(track[h], st)) = Len(track[h]) + 1
      /\ \A i \in 1..Len(track[h]) : Append(track[h], st)[i] = track[h][i]
      /\ Append(track[h], st)[Len(track[h]) + 1] = st
  BY <1>1
<1>3. CASE track' = track
  BY <1>1, <1>3
<1>4. CASE track' = [track EXCEPT ![h] = Append(track[h], st)]
  <2>1. track'[h] = Append(track[h], st)
    BY <1>1, <1>4
  <2>2. \A i \in 1..Len(track[h]) + 1 : i \in 1..Len(track[h]) \/ i = Len(track[h]) + 1
    BY <1>1
  <2>3. \A i \in 1..Len(track'[h]) :
          (i \in 1..Len(track[h]) /\ track'[h][i] = track[h][i]) \/ track'[h][i] = st
    BY <1>2, <2>1, <2>2
  <2> QED BY <1>1, <1>2, <1>4, <2>3
<1> QED BY <1>3, <1>4 DEF Emit

\* The channel carries a payment hash and an LND status.
LEMMA ChanEntry ==
    ASSUME TypeOK, NEW i \in 1..Len(chan)
    PROVE  chan[i].hash \in Hash /\ chan[i].status \in LndStatus
<1>1. chan \in Seq(PaymentUpdate)
  BY DEF TypeOK
<1>2. chan[i] \in PaymentUpdate
  BY <1>1
<1> QED BY <1>2 DEF PaymentUpdate

\* AuthorizeSpend keeps the invariant: it may add a hold and moves the request.
LEMMA Authorize ==
    ASSUME Inv, NEW s \in Sender, authorize_spend(s)
    PROVE  Inv'
<1> DEFINE h == snd[s].hash
<1>1. Working(s) /\ RequestOK(s) /\ h \in Hash
  BY DEF Inv, RequestInv, RequestOK, authorize_spend, Working
<1>2. PICK pc \in {"send", "fail_inline"} : Goto(s, pc) /\ (pc = "send" => h \in hold')
  BY DEF authorize_spend
<1>3. /\ snd' \in [Sender -> Request] /\ OneRequestPerHash'
      /\ snd'[s].pc = pc /\ snd'[s].hash = snd[s].hash
      /\ snd'[s].ent = snd[s].ent /\ snd'[s].reply = snd[s].reply
      /\ \A t \in Sender \ {s} : snd'[t] = snd[t]
  BY <1>1, <1>2, GotoFacts DEF Inv, SenderPc
<1>4. TypeOK'
  BY <1>1, <1>3 DEF Inv, TypeOK, authorize_spend
<1>5. RowInv'
  BY DEF Inv, RowInv, RowsLegal, OutboxMatchesRow, HoldBeforeLnd, CompletedOnlyIfPaid, State,
     authorize_spend
<1>6. RequestInv'
  <2> SUFFICES ASSUME NEW t \in Sender, Working(t)' PROVE RequestOK(t)'
    BY DEF RequestInv
  <2>1. UNCHANGED <<log, lnd>> /\ hold \subseteq hold'
    BY DEF authorize_spend
  <2>2. CASE t = s
    BY <1>1, <1>2, <1>3, <2>1, <2>2 DEF RequestOK, State, authorize_spend
  <2>3. CASE t # s
    <3>1. snd'[t] = snd[t] /\ RequestOK(t)
      BY <1>3, <2>3 DEF Inv, RequestInv, Working
    <3> QED BY <3>1, <2>1 DEF RequestOK, State
  <2> QED BY <2>2, <2>3
<1>7. WorkerInv' /\ UpdatesTrue'
  BY WorkerFrame, UpdatesFrame DEF Inv, authorize_spend
<1> QED BY <1>3, <1>4, <1>5, <1>6, <1>7 DEF Inv

\* SendPaymentV2 keeps the invariant: LND learns of a payment that is held,
\* recorded and still Initiated.
LEMMA LndSend ==
    ASSUME Inv, NEW s \in Sender, lnd_send_payment(s)
    PROVE  Inv'
<1> DEFINE h == snd[s].hash
<1>1. Working(s) /\ RequestOK(s) /\ h \in Hash
  BY DEF Inv, RequestInv, RequestOK, lnd_send_payment, Working
<1>2. PICK pc \in {"await", "fail_inline"} :
        /\ Goto(s, pc)
        /\ \/ pc = "await" /\ lnd' = [lnd EXCEPT ![h] = "InFlight"] /\ Emit(h, "InFlight")
           \/ pc = "fail_inline" /\ UNCHANGED <<lnd, track>>
  BY DEF lnd_send_payment
<1>3. /\ snd' \in [Sender -> Request] /\ OneRequestPerHash'
      /\ snd'[s].pc = pc /\ snd'[s].hash = snd[s].hash
      /\ snd'[s].ent = snd[s].ent /\ snd'[s].reply = snd[s].reply
      /\ \A t \in Sender \ {s} : snd'[t] = snd[t]
  BY <1>1, <1>2, GotoFacts DEF Inv, SenderPc
<1>4. lnd[h] = "NotFound" /\ h \in hold /\ log[h] # <<>> /\ State(h) = "Initiated"
  BY <1>1 DEF RequestOK, lnd_send_payment, State, try_from_events
<1>5. /\ lnd' \in [Hash -> LndStatus \cup {"NotFound"}]
      /\ pc = "await" => lnd'[h] = "InFlight"
      /\ \A g \in Hash \ {h} : lnd'[g] = lnd[g]
      /\ lnd'[h] \in {"NotFound", "InFlight"}
  BY <1>1, <1>2, <1>4, Zenon DEF Inv, TypeOK, LndStatus
<1>6. track' \in [Hash -> Seq(LndStatus)]
  BY <1>1, <1>2, EmitFacts DEF Inv, TypeOK, LndStatus
<1>7. TypeOK'
  BY <1>3, <1>5, <1>6 DEF Inv, TypeOK, lnd_send_payment
<1>8. RowInv'
  BY <1>1, <1>4, <1>5 DEF Inv, TypeOK, RowInv, RowsLegal, OutboxMatchesRow, HoldBeforeLnd,
     CompletedOnlyIfPaid, State, lnd_send_payment
<1>9. RequestInv'
  <2> SUFFICES ASSUME NEW t \in Sender, Working(t)' PROVE RequestOK(t)'
    BY DEF RequestInv
  <2>1. UNCHANGED <<log, hold>>
    BY DEF lnd_send_payment
  <2>2. CASE t = s
    BY <1>1, <1>2, <1>3, <1>5, <2>1, <2>2 DEF RequestOK, State
  <2>3. CASE t # s
    <3>1. snd'[t] = snd[t] /\ Working(t) /\ RequestOK(t)
      BY <1>3, <2>3 DEF Inv, RequestInv, Working
    <3>2. snd[t].hash \in Hash \ {h}
      BY <1>1, <2>3, <3>1 DEF Inv, OneRequestPerHash, RequestOK
    <3>3. lnd'[snd[t].hash] = lnd[snd[t].hash]
      BY <1>5, <3>2
    <3> QED BY <3>1, <3>3, <2>1 DEF RequestOK, State
  <2> QED BY <2>2, <2>3
<1>10. WorkerInv'
  BY <1>4, <1>5, ZenonT(30) DEF Inv, TypeOK, WorkerInv, TaskOK, lnd_send_payment, LndFinal
<1>11. UpdatesTrue'
  <2>1. track[h] = <<>>
    BY <1>1, <1>4 DEF Inv, TypeOK, UpdatesTrue
  <2>2. ASSUME NEW g \in Hash, NEW i \in 1..Len(track'[g])
        PROVE  lnd'[g] # "NotFound" /\ (track'[g][i] \in LndFinal => lnd'[g] = track'[g][i])
    <3>1. CASE g = h
      BY <3>1, <2>1, <2>2, <1>1, <1>2, <1>5 DEF Inv, TypeOK, Emit, LndFinal
    <3>2. CASE g # h
      <4>1. track'[g] = track[g]
        BY <3>2, <1>1, <1>2 DEF Inv, TypeOK, Emit
      <4> QED BY <4>1, <3>2, <2>2, <1>5 DEF Inv, UpdatesTrue
    <3> QED BY <3>1, <3>2
  <2>3. ASSUME NEW i \in 1..Len(chan), chan[i].status \in LndFinal
        PROVE  lnd'[chan[i].hash] = chan[i].status
    <3>1. chan[i].hash \in Hash /\ lnd[chan[i].hash] = chan[i].status
      BY <2>3, ChanEntry DEF Inv, UpdatesTrue
    <3> QED BY <3>1, <2>3, <1>4, <1>5 DEF LndFinal
  <2> QED BY <2>2, <2>3 DEF UpdatesTrue, lnd_send_payment
<1> QED BY <1>3, <1>7, <1>8, <1>9, <1>10, <1>11 DEF Inv

\* Acting on the first SendPaymentV2 message keeps the invariant.
LEMMA Dispatch ==
    ASSUME Inv, NEW s \in Sender, dispatch_response(s)
    PROVE  Inv'
<1> DEFINE h == snd[s].hash
<1>1. Working(s) /\ RequestOK(s) /\ h \in Hash
  BY DEF Inv, RequestInv, RequestOK, dispatch_response, Working
<1>2. \/ \E pc \in {"transition_to_pending", "settle_inline", "fail_inline"} :
           Goto(s, pc) /\ (pc = "settle_inline" => lnd[h] = "Succeeded")
      \/ Reply(s, h, "FAILURE")
  BY DEF dispatch_response
<1>3. /\ snd' \in [Sender -> Request] /\ OneRequestPerHash'
      /\ \A t \in Sender \ {s} : snd'[t] = snd[t]
      /\ Working(s)' => /\ snd'[s].pc \in {"transition_to_pending", "settle_inline", "fail_inline"}
                        /\ snd'[s].pc = "settle_inline" => lnd[h] = "Succeeded"
                        /\ snd'[s].hash = snd[s].hash
                        /\ snd'[s].ent = snd[s].ent /\ snd'[s].reply = snd[s].reply
  <2>1. ASSUME NEW pc \in {"transition_to_pending", "settle_inline", "fail_inline"},
               Goto(s, pc), pc = "settle_inline" => lnd[h] = "Succeeded"
        PROVE  <1>3!1 /\ <1>3!2 /\ <1>3!3
    BY <1>1, <2>1, GotoFacts DEF Inv, SenderPc
  <2>2. ASSUME Reply(s, h, "FAILURE") PROVE <1>3!1 /\ <1>3!2 /\ <1>3!3
    BY <1>1, <2>2, ReplyFacts DEF Inv
  <2> QED BY <1>2, <2>1, <2>2
<1>4. TypeOK'
  BY <1>3 DEF Inv, TypeOK, dispatch_response
<1>5. RequestInv'
  <2> SUFFICES ASSUME NEW t \in Sender, Working(t)' PROVE RequestOK(t)'
    BY DEF RequestInv
  <2>1. UNCHANGED <<log, hold, lnd>>
    BY DEF dispatch_response
  <2>2. CASE t = s
    BY <1>1, <1>3, <2>1, <2>2 DEF RequestOK, State, dispatch_response
  <2>3. CASE t # s
    <3>1. snd'[t] = snd[t] /\ RequestOK(t)
      BY <1>3, <2>3 DEF Inv, RequestInv, Working
    <3> QED BY <3>1, <2>1 DEF RequestOK, State
  <2> QED BY <2>2, <2>3
<1>6. RowInv' /\ WorkerInv' /\ UpdatesTrue'
  BY RowFrame, WorkerFrame, UpdatesFrame DEF Inv, dispatch_response
<1> QED BY <1>3, <1>4, <1>5, <1>6 DEF Inv

------------------------------------------------------------------------------
(* Steps that neither write a row nor move a request *)

\* The replay of a new TrackPayments stream says what LND says.
LEMMA ConnectStep ==
    ASSUME Inv, Connect
    PROVE  Inv'
<1>1. track' \in [Hash -> Seq(LndStatus)]
  <2>1. ASSUME NEW g \in Hash
        PROVE  (IF lnd[g] = "NotFound" THEN <<>> ELSE <<lnd[g]>>) \in Seq(LndStatus)
    <3>1. lnd[g] # "NotFound" => lnd[g] \in LndStatus
      BY DEF Inv, TypeOK
    <3> QED BY <3>1
  <2> QED BY <2>1 DEF Connect
<1>2. TypeOK'
  BY <1>1 DEF Inv, TypeOK, Connect
<1>3. UpdatesTrue'
  <2>1. ASSUME NEW g \in Hash, NEW i \in 1..Len(track'[g])
        PROVE  lnd[g] # "NotFound" /\ track'[g][i] = lnd[g]
    BY <2>1 DEF Connect
  <2> QED BY <2>1 DEF Inv, UpdatesTrue, Connect
<1> QED
  BY <1>2, <1>3, RowFrame, RequestFrame, WorkerFrame DEF Inv, Connect

\* Losing the stream keeps the invariant.
LEMMA DisconnectStep ==
    ASSUME Inv, Disconnect
    PROVE  Inv'
<1>1. TypeOK'
  BY DEF Inv, TypeOK, Disconnect
<1>2. UpdatesTrue'
  BY DEF Inv, UpdatesTrue, Disconnect
<1> QED
  BY <1>1, <1>2, RowFrame, RequestFrame, WorkerFrame DEF Inv, Disconnect

\* drive_stream hands the message on unchanged and respects the capacity.
LEMMA DriveStep ==
    ASSUME Inv, NEW h \in Hash, drive_stream(h)
    PROVE  Inv'
<1> DEFINE u == [hash |-> h, status |-> Head(track[h])]
<1>1. track[h] \in Seq(LndStatus) /\ track[h] # <<>> /\ chan \in Seq(PaymentUpdate)
  BY DEF Inv, TypeOK, drive_stream
<1>2. /\ Tail(track[h]) \in Seq(LndStatus)
      /\ Head(track[h]) = track[h][1] /\ Head(track[h]) \in LndStatus /\ 1 \in 1..Len(track[h])
      /\ Len(Tail(track[h])) = Len(track[h]) - 1
      /\ \A i \in 1..Len(Tail(track[h])) :
            i + 1 \in 1..Len(track[h]) /\ Tail(track[h])[i] = track[h][i + 1]
  BY <1>1
<1>3. /\ track' \in [Hash -> Seq(LndStatus)]
      /\ track'[h] = Tail(track[h])
      /\ \A g \in Hash \ {h} : track'[g] = track[g]
  BY <1>2 DEF Inv, TypeOK, drive_stream
<1>4. u \in PaymentUpdate
  BY <1>2 DEF PaymentUpdate
<1>5. \/ chan' = chan
      \/ chan' = Append(chan, u) /\ Len(chan) < ChanCap
  BY DEF drive_stream
<1>6. /\ chan' \in Seq(PaymentUpdate) /\ Len(chan') <= ChanCap
      /\ \A i \in 1..Len(chan') : (i \in 1..Len(chan) /\ chan'[i] = chan[i]) \/ chan'[i] = u
  <2> HIDE DEF u
  <2>1. Len(chan) <= ChanCap
    BY DEF Inv, TypeOK
  <2>2. CASE chan' = chan
    BY <2>2, <2>1, <1>1
  <2>3. CASE chan' = Append(chan, u) /\ Len(chan) < ChanCap
    BY <2>3, <1>1, <1>4, ConstantsAssumption
  <2> QED BY <1>5, <2>2, <2>3
<1>7. TypeOK'
  BY <1>3, <1>6 DEF Inv, TypeOK, drive_stream
<1>8. UpdatesTrue'
  <2>1. ASSUME NEW g \in Hash, NEW i \in 1..Len(track'[g])
        PROVE  lnd[g] # "NotFound" /\ (track'[g][i] \in LndFinal => lnd[g] = track'[g][i])
    <3>1. CASE g = h
      BY <3>1, <2>1, <1>2, <1>3 DEF Inv, UpdatesTrue
    <3>2. CASE g # h
      BY <3>2, <2>1, <1>3 DEF Inv, UpdatesTrue
    <3> QED BY <3>1, <3>2
  <2>2. ASSUME NEW i \in 1..Len(chan'), chan'[i].status \in LndFinal
        PROVE  lnd[chan'[i].hash] = chan'[i].status
    BY <2>2, <1>2, <1>6 DEF Inv, UpdatesTrue
  <2> QED BY <2>1, <2>2 DEF UpdatesTrue, drive_stream
<1> QED
  BY <1>7, <1>8, RowFrame, RequestFrame, WorkerFrame DEF Inv, drive_stream

\* The consumer takes a true update and loads the row it names.
LEMMA HandleStep ==
    ASSUME Inv, handle_payment_update
    PROVE  Inv'
<1> DEFINE u == Head(chan)
<1>1. /\ chan \in Seq(PaymentUpdate) /\ chan # <<>>
      /\ Len(chan) \in Nat /\ Len(chan) <= ChanCap /\ ChanCap \in Nat
  BY ConstantsAssumption DEF Inv, TypeOK, handle_payment_update
<1>2. /\ Tail(chan) \in Seq(PaymentUpdate)
      /\ u = chan[1] /\ 1 \in 1..Len(chan)
      /\ Len(Tail(chan)) = Len(chan) - 1
      /\ \A i \in 1..Len(Tail(chan)) : i + 1 \in 1..Len(chan) /\ Tail(chan)[i] = chan[i + 1]
  BY <1>1
<1>3. u.hash \in Hash /\ u.status \in LndStatus /\ (u.status \in LndFinal => lnd[u.hash] = u.status)
  BY <1>2, ChanEntry DEF Inv, UpdatesTrue
<1> HIDE DEF u
<1>4. \/ wk' = wk
      \/ /\ u.status \in LndFinal /\ log[u.hash] # <<>>
         /\ wk' = [wk EXCEPT !["consumer"] =
              [pc |-> "commit", hash |-> u.hash, status |-> u.status, ent |-> log[u.hash]]]
  BY DEF handle_payment_update, u
<1>5. wk' \in [Worker -> Task]
  <2>1. [pc |-> "commit", hash |-> u.hash, status |-> u.status, ent |-> log[u.hash]] \in Task
    BY <1>3 DEF Inv, TypeOK, Task
  <2> QED BY <1>4, <2>1, Zenon DEF Inv, TypeOK
<1>6. TypeOK'
  <2>1. chan' = Tail(chan) /\ UNCHANGED <<log, outbox, hold, lnd, sub, track, snd>>
    BY DEF handle_payment_update
  <2>2. chan' \in Seq(PaymentUpdate) /\ Len(chan') <= ChanCap
    BY <1>1, <1>2, <2>1
  <2> QED BY <1>5, <2>1, <2>2 DEF Inv, TypeOK
<1>7. WorkerInv'
  <2>1. UNCHANGED <<log, lnd>>
    BY DEF handle_payment_update
  <2>2. CASE wk' = wk
    BY <2>1, <2>2, WorkerFrame DEF Inv
  <2>3. CASE wk' # wk
    <3> SUFFICES ASSUME NEW w \in Worker, wk'[w].pc # "idle" PROVE TaskOK(w)'
      BY DEF WorkerInv
    <3>1. CASE w = "consumer"
      <4>1. /\ wk'[w].pc = "commit" /\ wk'[w].hash = u.hash
            /\ wk'[w].status = u.status /\ wk'[w].ent = log[u.hash]
            /\ u.status \in LndFinal
            /\ log[u.hash] # <<>>
        BY <3>1, <2>3, <1>4 DEF Inv, TypeOK
      <4>2. LoadedFrom(log[u.hash], log[u.hash])
        BY <4>1, <1>3, LoadedSelf DEF Inv, RowInv, RowsLegal
      <4> QED BY <4>1, <4>2, <2>1, <1>3 DEF TaskOK
    <3>2. CASE w # "consumer"
      <4>1. wk'[w] = wk[w]
        BY <3>2, <1>4 DEF Inv, TypeOK
      <4> QED BY <4>1, <2>1 DEF Inv, WorkerInv, TaskOK
    <3> QED BY <3>1, <3>2
  <2> QED BY <2>2, <2>3
<1>8. UpdatesTrue'
  <2>1. chan' = Tail(chan) /\ UNCHANGED <<lnd, track>>
    BY DEF handle_payment_update
  <2>2. ASSUME NEW i \in 1..Len(Tail(chan)), Tail(chan)[i].status \in LndFinal
        PROVE  lnd[Tail(chan)[i].hash] = Tail(chan)[i].status
    BY <2>2, <1>2 DEF Inv, UpdatesTrue
  <2> QED BY <2>1, <2>2 DEF Inv, UpdatesTrue
<1> QED
  BY <1>6, <1>7, <1>8, RowFrame, RequestFrame DEF Inv, handle_payment_update

\* The sweep takes a stranded row and loads it.
LEMMA ReconcileStep ==
    ASSUME Inv, NEW h \in Hash, reconcile_orphan_hold(h)
    PROVE  Inv'
<1>1. log[h] # <<>> /\ LegalLog(log[h]) /\ log[h] \in Seq(PaymentEvent)
  BY DEF Inv, TypeOK, RowInv, RowsLegal, reconcile_orphan_hold, State, try_from_events
<1>2. LoadedFrom(log[h], log[h])
  BY <1>1, LoadedSelf
<1>3. /\ wk' \in [Worker -> Task]
      /\ wk'["sweep"].pc = "lookup" /\ wk'["sweep"].hash = h /\ wk'["sweep"].ent = log[h]
      /\ \A w \in Worker \ {"sweep"} : wk'[w] = wk[w]
  BY <1>1 DEF Inv, TypeOK, reconcile_orphan_hold, Task, Worker
<1>4. TypeOK'
  BY <1>3 DEF Inv, TypeOK, reconcile_orphan_hold
<1>5. WorkerInv'
  BY <1>2, <1>3 DEF Inv, WorkerInv, TaskOK, reconcile_orphan_hold
<1> QED
  BY <1>4, <1>5, RowFrame, RequestFrame, UpdatesFrame DEF Inv, reconcile_orphan_hold

\* The sweep takes over only the final status LND has.
LEMMA LookupStep ==
    ASSUME Inv, lookup_payment
    PROVE  Inv'
<1> DEFINE h == wk["sweep"].hash
<1>1. "sweep" \in Worker /\ TaskOK("sweep") /\ wk["sweep"] \in Task
  BY DEF Inv, TypeOK, WorkerInv, Worker, lookup_payment
<1>2. \A w \in Worker \ {"sweep"} : wk'[w] = wk[w]
  BY DEF Inv, TypeOK, lookup_payment, LookedUp
<1>3. \/ wk'["sweep"] = Idle
      \/ /\ lnd[h] \in LndFinal
         /\ wk'["sweep"] = [pc |-> "commit", hash |-> h, status |-> lnd[h], ent |-> wk["sweep"].ent]
  BY <1>1 DEF Inv, TypeOK, lookup_payment, LookedUp
<1>4. wk' \in [Worker -> Task]
  <2>1. Idle \in Task
    BY DEF Idle, Task
  <2>2. lnd[h] \in LndFinal =>
          [pc |-> "commit", hash |-> h, status |-> lnd[h], ent |-> wk["sweep"].ent] \in Task
    BY <1>1 DEF Task, LndFinal, LndStatus
  <2> QED BY <2>1, <2>2, Zenon DEF Inv, TypeOK, lookup_payment, LookedUp
<1>5. TypeOK'
  BY <1>4 DEF Inv, TypeOK, lookup_payment
<1>6. WorkerInv'
  <2> SUFFICES ASSUME NEW w \in Worker, wk'[w].pc # "idle" PROVE TaskOK(w)'
    BY DEF WorkerInv
  <2>1. UNCHANGED <<log, lnd>>
    BY DEF lookup_payment
  <2>2. CASE w = "sweep"
    BY <1>1, <1>3, <2>1, <2>2 DEF TaskOK, Idle
  <2>3. CASE w # "sweep"
    BY <1>2, <2>1, <2>3 DEF Inv, WorkerInv, TaskOK
  <2> QED BY <2>2, <2>3
<1> QED
  BY <1>5, <1>6, RowFrame, RequestFrame, UpdatesFrame DEF Inv, lookup_payment

\* LND resolving a payment in flight contradicts no row, request or task.
LEMMA ResolveStep ==
    ASSUME Inv, NEW h \in Hash, NEW st \in LndFinal, LndResolve(h, st)
    PROVE  Inv'
<1>1. lnd[h] = "InFlight" /\ st \in LndStatus /\ UNCHANGED <<log, outbox, hold, sub, chan, snd, wk>>
  BY DEF LndResolve, LndFinal, LndStatus
<1>2. /\ lnd' \in [Hash -> LndStatus \cup {"NotFound"}]
      /\ lnd'[h] = st
      /\ \A g \in Hash \ {h} : lnd'[g] = lnd[g]
      /\ \A g \in Hash : lnd[g] \in LndFinal => lnd'[g] = lnd[g]
      /\ \A g \in Hash : lnd[g] = "NotFound" <=> lnd'[g] = "NotFound"
  BY <1>1 DEF Inv, TypeOK, LndResolve, LndStatus, LndFinal
<1>3. /\ track' \in [Hash -> Seq(LndStatus)]
      /\ \A g \in Hash \ {h} : track'[g] = track[g]
      /\ \A i \in 1..Len(track'[h]) :
            (i \in 1..Len(track[h]) /\ track'[h][i] = track[h][i]) \/ track'[h][i] = st
  BY <1>1, EmitFacts DEF Inv, LndResolve
<1>4. TypeOK'
  BY <1>1, <1>2, <1>3 DEF Inv, TypeOK
<1>5. RowInv'
  BY <1>1, <1>2 DEF Inv, RowInv, RowsLegal, OutboxMatchesRow, HoldBeforeLnd, CompletedOnlyIfPaid,
     State, LndFinal
<1>6. RequestInv' /\ OneRequestPerHash'
  BY <1>1, <1>2 DEF Inv, RequestInv, OneRequestPerHash, RequestOK, Working, State, LndFinal
<1>7. WorkerInv'
  BY <1>1, <1>2 DEF Inv, WorkerInv, TaskOK
<1>8. UpdatesTrue'
  <2>1. ASSUME NEW g \in Hash, NEW i \in 1..Len(track'[g])
        PROVE  lnd'[g] # "NotFound" /\ (track'[g][i] \in LndFinal => lnd'[g] = track'[g][i])
    <3>1. CASE g = h
      BY <3>1, <2>1, <1>1, <1>2, <1>3 DEF Inv, UpdatesTrue, LndFinal
    <3>2. CASE g # h
      BY <3>2, <2>1, <1>2, <1>3 DEF Inv, UpdatesTrue
    <3> QED BY <3>1, <3>2
  <2>2. ASSUME NEW i \in 1..Len(chan), chan[i].status \in LndFinal
        PROVE  lnd'[chan[i].hash] = chan[i].status
    <3>1. chan[i].hash \in Hash /\ lnd[chan[i].hash] = chan[i].status
      BY <2>2, ChanEntry DEF Inv, UpdatesTrue
    <3> QED BY <3>1, <2>2, <1>2
  <2> QED BY <2>1, <2>2, <1>1 DEF UpdatesTrue
<1> QED BY <1>4, <1>5, <1>6, <1>7, <1>8 DEF Inv

\* A crash forgets tasks and messages and keeps the rest.
LEMMA CrashStep ==
    ASSUME Inv, Crash
    PROVE  Inv'
<1>1. \A s \in Sender : ~Working(s)'
  BY DEF Crash, Working
<1>2. \A w \in Worker : wk'[w].pc = "idle"
  BY DEF Crash, Idle
<1>3. snd' \in [Sender -> Request] /\ wk' \in [Worker -> Task]
  BY DEF Crash, Request, Task, Idle, SenderPc
<1>4. TypeOK'
  BY <1>3, ConstantsAssumption DEF Inv, TypeOK, Crash
<1>5. RequestInv' /\ OneRequestPerHash' /\ WorkerInv'
  BY <1>1, <1>2 DEF RequestInv, OneRequestPerHash, WorkerInv
<1>6. UpdatesTrue'
  BY DEF Crash, UpdatesTrue
<1> QED BY <1>4, <1>5, <1>6, RowFrame DEF Inv, Crash

------------------------------------------------------------------------------
(* What a write of a row keeps *)

\* The outbox that belongs to a state is a sequence of outbox events.
LEMMA OutboxOfType ==
    ASSUME NEW st
    PROVE  OutboxOf(st) \in Seq(OutboxEvent)
<1>1. /\ "OutgoingPaymentInitiated" \in OutboxEvent
      /\ "OutgoingPaymentCompleted" \in OutboxEvent
      /\ "OutgoingPaymentFailed" \in OutboxEvent
  BY DEF OutboxEvent
<1>2. /\ <<>> \in Seq(OutboxEvent)
      /\ <<"OutgoingPaymentInitiated">> \in Seq(OutboxEvent)
      /\ <<"OutgoingPaymentInitiated", "OutgoingPaymentCompleted">> \in Seq(OutboxEvent)
      /\ <<"OutgoingPaymentInitiated", "OutgoingPaymentFailed">> \in Seq(OutboxEvent)
  BY <1>1
<1> QED BY <1>2 DEF OutboxOf

\* A row grows to a legal log and its outbox follows: what every writer shares.
LEMMA RowWrite ==
    ASSUME Inv, NEW h \in Hash, NEW l, LegalLog(l), Len(l) > Len(log[h]),
           log' = [log EXCEPT ![h] = l],
           outbox' = [outbox EXCEPT ![h] = OutboxOf(try_from_events(l))],
           UNCHANGED <<hold, lnd>>,
           try_from_events(l) = "Completed" => lnd[h] = "Succeeded"
    PROVE  /\ RowInv'
           /\ log' \in [Hash -> Seq(PaymentEvent)]
           /\ outbox' \in [Hash -> Seq(OutboxEvent)]
           /\ log'[h] = l
           /\ \A g \in Hash \ {h} : log'[g] = log[g]
           /\ \A g \in Hash : \A ent : LoadedFrom(ent, log[g]) => LoadedFrom(ent, log'[g])
<1>1. l \in Seq(PaymentEvent) /\ log[h] \in Seq(PaymentEvent) /\ l # <<>>
  BY DEF Inv, TypeOK, LegalLog
<1>2. /\ log' \in [Hash -> Seq(PaymentEvent)]
      /\ log'[h] = l
      /\ \A g \in Hash \ {h} : log'[g] = log[g]
  BY <1>1 DEF Inv, TypeOK
<1>3. OutboxOf(try_from_events(l)) \in Seq(OutboxEvent)
  BY OutboxOfType
<1>4. /\ outbox' \in [Hash -> Seq(OutboxEvent)]
      /\ outbox'[h] = OutboxOf(try_from_events(l))
      /\ \A g \in Hash \ {h} : outbox'[g] = outbox[g]
  BY <1>3 DEF Inv, TypeOK
<1>5. RowsLegal' /\ OutboxMatchesRow' /\ HoldBeforeLnd' /\ CompletedOnlyIfPaid'
  <2>1. RowsLegal'
    BY <1>2 DEF Inv, RowInv, RowsLegal
  <2>2. OutboxMatchesRow'
    BY <1>2, <1>4 DEF Inv, RowInv, OutboxMatchesRow, State
  <2>3. HoldBeforeLnd'
    BY <1>1, <1>2 DEF Inv, RowInv, HoldBeforeLnd
  <2>4. CompletedOnlyIfPaid'
    BY <1>2 DEF Inv, RowInv, CompletedOnlyIfPaid, State
  <2> QED BY <2>1, <2>2, <2>3, <2>4
<1>6. ASSUME NEW g \in Hash, NEW ent, LoadedFrom(ent, log[g])
      PROVE  LoadedFrom(ent, log'[g])
  <2>1. CASE g = h
    BY <1>1, <1>2, <1>6, <2>1, LoadedGrow
  <2>2. CASE g # h
    BY <1>2, <1>6, <2>2
  <2> QED BY <2>1, <2>2
<1> QED BY <1>2, <1>4, <1>5, <1>6 DEF RowInv

\* One terminal event closes the outbox of an open payment.
LEMMA OutboxClose ==
    ASSUME NEW st \in {"Initiated", "Pending"}
    PROVE  /\ Append(OutboxOf(st), "OutgoingPaymentCompleted") = OutboxOf("Completed")
           /\ Append(OutboxOf(st), "OutgoingPaymentFailed") = OutboxOf("Failed")
<1>1. OutboxOf(st) = <<"OutgoingPaymentInitiated">>
  BY DEF OutboxOf
<1>2. \A y \in OutboxEvent : Append(<<"OutgoingPaymentInitiated">>, y)
                                = <<"OutgoingPaymentInitiated", y>>
  BY AppendPair, Zenon DEF OutboxEvent
<1> QED BY <1>1, <1>2 DEF OutboxOf, OutboxEvent

\* What a terminal write does to a row: the shared writers of commit_payment.rs,
\* from the log they loaded or from a new log marked pending in memory.
Closes(h, fin, l) ==
    /\ LegalLog(l) /\ Len(l) > Len(log[h]) /\ try_from_events(l) = fin
    /\ State(h) \in {"Initiated", "Pending"}
    /\ SubSeq(l, 1, Len(log[h])) = log[h]
    /\ log' = [log EXCEPT ![h] = l]
    /\ outbox' = [outbox EXCEPT ![h] = OutboxOf(fin)]

\* A committed terminal write of the consumer or the sweep closes the row it loaded.
LEMMA TaskCloses ==
    ASSUME Inv, NEW w \in Worker, wk[w].pc = "commit",
           NEW fin \in Terminal, NEW cmd, NEW out,
           fin = "Completed" => cmd = settle(wk[w].ent) /\ out = "OutgoingPaymentCompleted",
           fin = "Failed" => cmd = fail(wk[w].ent) /\ out = "OutgoingPaymentFailed",
           CommitTx(wk[w].hash, wk[w].ent, cmd, out)
    PROVE  Closes(wk[w].hash, fin, cmd.events)
<1> DEFINE h == wk[w].hash  e == wk[w].ent
<1>1. h \in Hash /\ LegalLog(e) /\ e = log[h] /\ outbox[h] = OutboxOf(State(h))
  BY DEF Inv, WorkerInv, TaskOK, LoadedFrom, RowInv, OutboxMatchesRow, CommitTx, update_in_op
<1>2. cmd.events = Append(e, fin) /\ try_from_events(e) \in {"Initiated", "Pending"}
  BY SettleFacts, FailFacts DEF CommitTx, Terminal
<1>3. fin \in PaymentEvent \ {"Reversed"} /\ try_from_events(e) \notin Terminal
  BY <1>2 DEF PaymentEvent, Terminal
<1>4. /\ LegalLog(cmd.events) /\ try_from_events(cmd.events) = fin
      /\ Len(cmd.events) = Len(e) + 1
      /\ SubSeq(cmd.events, 1, Len(e)) = e
  BY <1>1, <1>2, <1>3, LegalAppend
<1>5. Len(e) \in Nat
  BY <1>1 DEF LegalLog
<1>6. outbox' = [outbox EXCEPT ![h] = OutboxOf(fin)]
  BY <1>1, <1>2, OutboxClose, Zenon DEF CommitTx, State, Terminal
<1>7. log' = [log EXCEPT ![h] = cmd.events]
  BY DEF CommitTx, update_in_op
<1>8. State(h) \in {"Initiated", "Pending"}
  BY <1>1, <1>2 DEF State
<1> QED BY <1>1, <1>4, <1>5, <1>6, <1>7, <1>8 DEF Closes

\* A committed terminal write of a request closes the row it created.
LEMMA InlineCloses ==
    ASSUME Inv, NEW s \in Sender, Working(s),
           NEW fin \in Terminal, NEW cmd, NEW out,
           fin = "Completed" => /\ cmd = settle(mark_pending(snd[s].ent).events)
                                /\ out = "OutgoingPaymentCompleted",
           fin = "Failed" => /\ cmd = fail(mark_pending(snd[s].ent).events)
                             /\ out = "OutgoingPaymentFailed",
           CommitTx(snd[s].hash, snd[s].ent, cmd, out)
    PROVE  Closes(snd[s].hash, fin, cmd.events)
<1> DEFINE h == snd[s].hash  e == Append(into_events, "Pending")
<1>1. /\ h \in Hash /\ snd[s].ent = into_events /\ log[h] = into_events
      /\ outbox[h] = OutboxOf(State(h))
  BY DEF Inv, RequestInv, RequestOK, LoadedFrom, RowInv, OutboxMatchesRow, CommitTx, update_in_op
<1>2. /\ LegalLog(into_events) /\ Len(into_events) = 1 /\ try_from_events(into_events) = "Initiated"
      /\ "Pending" \in PaymentEvent \ {"Reversed"} /\ "Initiated" \notin Terminal
      /\ "Pending" \notin Terminal
  BY NewLog DEF PaymentEvent, Terminal
<1>3. /\ LegalLog(e) /\ try_from_events(e) = "Pending" /\ Len(e) = 2
      /\ SubSeq(e, 1, 1) = into_events
  <2>1. /\ LegalLog(e) /\ try_from_events(e) = "Pending"
        /\ Len(e) = Len(into_events) + 1
        /\ SubSeq(e, 1, Len(into_events)) = into_events
    BY <1>2, LegalAppend, Zenon
  <2> QED BY <2>1, <1>2
<1> HIDE DEF e
<1>4. cmd.events = Append(e, fin)
  <2>1. mark_pending(snd[s].ent).events = e
    BY <1>1, PendingFacts DEF e
  <2> QED BY <2>1, SettleFacts, FailFacts DEF CommitTx, Terminal
<1>5. fin \in PaymentEvent \ {"Reversed"}
  BY DEF PaymentEvent, Terminal
<1>6. /\ LegalLog(cmd.events) /\ try_from_events(cmd.events) = fin
      /\ Len(cmd.events) = 3
      /\ SubSeq(cmd.events, 1, 2) = e
  <2>1. /\ LegalLog(cmd.events) /\ try_from_events(cmd.events) = fin
        /\ Len(cmd.events) = Len(e) + 1
        /\ SubSeq(cmd.events, 1, Len(e)) = e
    BY <1>2, <1>3, <1>4, <1>5, LegalAppend, ZenonT(30)
  <2> QED BY <2>1, <1>3
<1>7. SubSeq(cmd.events, 1, 1) = into_events
  <2>1. e \in Seq(PaymentEvent) /\ cmd.events \in Seq(PaymentEvent)
    BY <1>3, <1>6 DEF LegalLog
  <2> QED BY <2>1, <1>3, <1>6, FirstOfPrefix
<1>8. outbox' = [outbox EXCEPT ![h] = OutboxOf(fin)]
  BY <1>1, <1>2, OutboxClose, Zenon DEF CommitTx, State, Terminal
<1>9. log' = [log EXCEPT ![h] = cmd.events]
  BY DEF CommitTx, update_in_op
<1>10. State(h) = "Initiated"
  BY <1>1, <1>2 DEF State
<1> QED BY <1>1, <1>2, <1>6, <1>7, <1>8, <1>9, <1>10 DEF Closes

\* After a request wrote its row and answered, the other requests, on other
\* rows, know what they knew.
LEMMA OthersKept ==
    ASSUME Inv, NEW s \in Sender, NEW h \in Hash, ~Working(s)',
           \A t \in Sender \ {s} : snd'[t] = snd[t] /\ (Working(t) => snd[t].hash # h),
           \A g \in Hash \ {h} : log'[g] = log[g],
           UNCHANGED <<hold, lnd>>
    PROVE  RequestInv'
<1> SUFFICES ASSUME NEW t \in Sender, Working(t)' PROVE RequestOK(t)'
  BY DEF RequestInv
<1>1. t # s /\ snd'[t] = snd[t] /\ Working(t)
  BY DEF Working
<1>2. RequestOK(t) /\ snd[t].hash \in Hash \ {h}
  BY <1>1 DEF Inv, RequestInv, RequestOK
<1>3. log'[snd[t].hash] = log[snd[t].hash]
  BY <1>2
<1> QED BY <1>1, <1>2, <1>3 DEF RequestOK, State

\* The tasks keep what they loaded when rows only grow.
LEMMA TasksKept ==
    ASSUME Inv, UNCHANGED <<lnd, wk>>,
           \A g \in Hash : \A ent : LoadedFrom(ent, log[g]) => LoadedFrom(ent, log'[g])
    PROVE  WorkerInv'
BY DEF Inv, WorkerInv, TaskOK

\* Closing a row truthfully keeps the row facts and every loaded copy.
LEMMA CloseFacts ==
    ASSUME Inv, NEW h \in Hash, NEW fin \in Terminal, NEW l, Closes(h, fin, l),
           UNCHANGED <<hold, lnd>>, fin = "Completed" => lnd[h] = "Succeeded"
    PROVE  /\ RowInv'
           /\ log' \in [Hash -> Seq(PaymentEvent)]
           /\ outbox' \in [Hash -> Seq(OutboxEvent)]
           /\ \A g \in Hash \ {h} : log'[g] = log[g]
           /\ \A g \in Hash : \A ent : LoadedFrom(ent, log[g]) => LoadedFrom(ent, log'[g])
<1>1. /\ LegalLog(l) /\ Len(l) > Len(log[h]) /\ try_from_events(l) = fin
      /\ log' = [log EXCEPT ![h] = l]
      /\ outbox' = [outbox EXCEPT ![h] = OutboxOf(try_from_events(l))]
  BY DEF Closes
<1> QED BY <1>1, RowWrite, Zenon
==============================================================================
