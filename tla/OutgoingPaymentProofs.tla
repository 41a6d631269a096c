------------------------ MODULE OutgoingPaymentProofs ------------------------
(***************************************************************************)
(* The invariant of OutgoingPaymentInv is preserved by the steps that write*)
(* a row, and so it holds; and the theorems about OutgoingPayment, for any *)
(* set of payments and requests, any channel capacity and any choice of    *)
(* faults.                                                                 *)
(***************************************************************************)
EXTENDS OutgoingPaymentInv

------------------------------------------------------------------------------
(* Steps that write a row *)

\* A write by a request that then answers.
LEMMA InlineStep ==
    ASSUME Inv, NEW s \in Sender, NEW fin \in Terminal, Working(s),
           fin = "Completed" => /\ snd[s].pc = "settle_inline"
                                /\ inline_commit(s, settle(mark_pending(snd[s].ent).events),
                                                 "OutgoingPaymentCompleted", "SUCCESS"),
           fin = "Failed" => inline_commit(s, fail(mark_pending(snd[s].ent).events),
                                           "OutgoingPaymentFailed", "FAILURE")
    PROVE  Inv'
<1> DEFINE h == snd[s].hash
           out == IF fin = "Completed" THEN "OutgoingPaymentCompleted" ELSE "OutgoingPaymentFailed"
           cmd == IF fin = "Completed" THEN settle(mark_pending(snd[s].ent).events)
                                       ELSE fail(mark_pending(snd[s].ent).events)
<1>1. h \in Hash /\ RequestOK(s)
  BY DEF Inv, RequestInv, RequestOK
<1>2. \/ CommitTx(h, snd[s].ent, cmd, out)
      \/ UNCHANGED <<log, outbox>>
  BY DEF inline_commit, CommitRefused, CommitFault, Terminal
<1>3. /\ \E r \in {"SUCCESS", "FAILURE"} : Reply(s, h, r)
      /\ UNCHANGED <<hold, lnd, sub, track, chan, wk>>
  BY Zenon DEF inline_commit, Terminal
<1>4. /\ snd' \in [Sender -> Request] /\ OneRequestPerHash' /\ ~Working(s)'
      /\ \A t \in Sender \ {s} : snd'[t] = snd[t]
  BY <1>1, <1>3, ReplyFacts, Zenon DEF Inv
<1>5. \A t \in Sender \ {s} : Working(t) => snd[t].hash # h
  BY DEF Inv, OneRequestPerHash
<1>6. fin = "Completed" => lnd[h] = "Succeeded"
  BY <1>1 DEF RequestOK
<1>7. /\ RowInv' /\ log' \in [Hash -> Seq(PaymentEvent)] /\ outbox' \in [Hash -> Seq(OutboxEvent)]
      /\ \A g \in Hash \ {h} : log'[g] = log[g]
      /\ \A g \in Hash : \A ent : LoadedFrom(ent, log[g]) => LoadedFrom(ent, log'[g])
  <2>1. CASE CommitTx(h, snd[s].ent, cmd, out)
    <3>1. Closes(h, fin, cmd.events)
      BY <2>1, InlineCloses, Zenon DEF Terminal
    <3> QED BY <1>1, <1>3, <1>6, <3>1, CloseFacts, Zenon
  <2>2. CASE UNCHANGED <<log, outbox>>
    BY <1>3, <2>2, RowFrame DEF Inv, TypeOK
  <2> QED BY <1>2, <2>1, <2>2, Zenon
<1>8. TypeOK'
  BY <1>3, <1>4, <1>7 DEF Inv, TypeOK
<1>9. RequestInv'
  BY <1>1, <1>3, <1>4, <1>5, <1>7, OthersKept, Zenon
<1>10. WorkerInv' /\ UpdatesTrue'
  BY <1>3, <1>7, TasksKept, UpdatesFrame, Zenon DEF Inv
<1> QED BY <1>4, <1>7, <1>8, <1>9, <1>10 DEF Inv

\* transition_to_pending keeps the invariant.
LEMMA PendingStep ==
    ASSUME Inv, NEW s \in Sender, transition_to_pending(s)
    PROVE  Inv'
<1> DEFINE h == snd[s].hash
<1>1. h \in Hash /\ RequestOK(s) /\ Working(s)
  BY Zenon DEF Inv, RequestInv, RequestOK, transition_to_pending, Working
<1>2. \/ update_in_op(h, into_events, Append(into_events, "Pending"))
      \/ UNCHANGED log
  BY <1>1, PendingFacts, Zenon DEF transition_to_pending, RequestOK
<1>3. /\ \E r \in {"PENDING", "SUCCESS", "FAILURE"} : Reply(s, h, r)
      /\ UNCHANGED <<outbox, hold, lnd, sub, track, chan, wk>>
  BY DEF transition_to_pending, SendResult
<1>4. /\ snd' \in [Sender -> Request] /\ OneRequestPerHash' /\ ~Working(s)'
      /\ \A t \in Sender \ {s} : snd'[t] = snd[t]
  BY <1>1, <1>3, ReplyFacts DEF Inv
<1>5. \A t \in Sender \ {s} : Working(t) => snd[t].hash # h
  BY <1>1 DEF Inv, OneRequestPerHash
<1>7. /\ RowInv' /\ log' \in [Hash -> Seq(PaymentEvent)] /\ outbox' \in [Hash -> Seq(OutboxEvent)]
      /\ \A g \in Hash \ {h} : log'[g] = log[g]
      /\ \A g \in Hash : \A ent : LoadedFrom(ent, log[g]) => LoadedFrom(ent, log'[g])
  <2>1. CASE update_in_op(h, into_events, Append(into_events, "Pending"))
    <3> DEFINE l == Append(into_events, "Pending")
    <3>1. log[h] = into_events /\ log' = [log EXCEPT ![h] = l]
      BY <1>1, <2>1 DEF update_in_op, RequestOK, LoadedFrom
    <3>2. /\ LegalLog(into_events) /\ Len(into_events) = 1
          /\ try_from_events(into_events) = "Initiated"
          /\ "Pending" \in PaymentEvent \ {"Reversed"} /\ "Initiated" \notin Terminal
      BY NewLog DEF PaymentEvent, Terminal
    <3>3. LegalLog(l) /\ try_from_events(l) = "Pending" /\ Len(l) = Len(into_events) + 1
      BY <3>2, LegalAppend, Zenon
    <3> HIDE DEF l
    <3>4. Len(l) > Len(log[h])
      BY <3>1, <3>2, <3>3
    <3>5. outbox[h] = OutboxOf(try_from_events(l))
      BY <1>1, <3>1, <3>2, <3>3 DEF Inv, RowInv, OutboxMatchesRow, State, OutboxOf
    <3>6. outbox' = [outbox EXCEPT ![h] = OutboxOf(try_from_events(l))]
      BY <1>1, <1>3, <3>5 DEF Inv, TypeOK
    <3> QED BY <1>1, <1>3, <3>1, <3>3, <3>4, <3>6, RowWrite, Zenon
  <2>2. CASE UNCHANGED log
    BY <1>3, <2>2, RowFrame DEF Inv, TypeOK
  <2> QED BY <1>2, <2>1, <2>2, Zenon
<1>8. TypeOK'
  BY <1>3, <1>4, <1>7 DEF Inv, TypeOK
<1>9. RequestInv'
  BY <1>1, <1>3, <1>4, <1>5, <1>7, OthersKept
<1>10. WorkerInv' /\ UpdatesTrue'
  BY <1>3, <1>7, TasksKept, UpdatesFrame DEF Inv
<1> QED BY <1>4, <1>7, <1>8, <1>9, <1>10, Zenon DEF Inv

\* commit_completed and commit_failed, run by consumer or sweep, keep the invariant.
LEMMA CommitStep ==
    ASSUME Inv, NEW w \in Worker, commit_terminal(w)
    PROVE  Inv'
<1> DEFINE h == wk[w].hash
           fin == IF wk[w].status = "Succeeded" THEN "Completed" ELSE "Failed"
           cmd == IF fin = "Completed" THEN settle(wk[w].ent) ELSE fail(wk[w].ent)
           out == IF fin = "Completed" THEN "OutgoingPaymentCompleted" ELSE "OutgoingPaymentFailed"
<1>1. /\ wk[w].pc = "commit" /\ TaskOK(w) /\ h \in Hash
      /\ lnd[h] \in LndFinal /\ wk[w].status = lnd[h]
      /\ UNCHANGED <<hold, lnd, sub, track, chan, snd>>
      /\ wk' = [wk EXCEPT ![w] = Idle]
  BY DEF Inv, WorkerInv, TaskOK, commit_terminal
<1>2. CommitTx(h, wk[w].ent, cmd, out) \/ UNCHANGED <<log, outbox>>
  BY DEF commit_terminal, CommitRefused, CommitFault
<1>3. /\ fin \in Terminal
      /\ fin = "Completed" => lnd[h] = "Succeeded"
  BY <1>1 DEF Terminal
<1>4. /\ RowInv' /\ log' \in [Hash -> Seq(PaymentEvent)] /\ outbox' \in [Hash -> Seq(OutboxEvent)]
      /\ \A g \in Hash \ {h} : log'[g] = log[g]
      /\ \A g \in Hash : \A ent : LoadedFrom(ent, log[g]) => LoadedFrom(ent, log'[g])
  <2>1. CASE CommitTx(h, wk[w].ent, cmd, out)
    <3>1. Closes(h, fin, cmd.events)
      BY <1>1, <1>3, <2>1, TaskCloses, Zenon DEF Terminal
    <3> QED BY <1>1, <1>3, <3>1, CloseFacts, Zenon
  <2>2. CASE UNCHANGED <<log, outbox>>
    BY <1>1, <2>2, RowFrame DEF Inv, TypeOK
  <2> QED BY <1>2, <2>1, <2>2, Zenon
<1>5. /\ wk' \in [Worker -> Task] /\ wk'[w].pc = "idle"
      /\ \A v \in Worker \ {w} : wk'[v] = wk[v]
  BY <1>1 DEF Inv, TypeOK, Idle, Task
<1>6. TypeOK'
  BY <1>1, <1>4, <1>5 DEF Inv, TypeOK
<1>7. RequestInv'
  <2> SUFFICES ASSUME NEW t \in Sender, Working(t)' PROVE RequestOK(t)'
    BY DEF RequestInv
  <2>1. snd'[t] = snd[t] /\ RequestOK(t) /\ snd[t].hash \in Hash
    BY <1>1, Zenon DEF Inv, RequestInv, RequestOK, Working
  <2>2. LoadedFrom(into_events, log'[snd[t].hash])
    BY <1>4, <2>1, Zenon DEF RequestOK
  <2>3. lnd[snd[t].hash] = "NotFound" => log'[snd[t].hash] = log[snd[t].hash]
    BY <1>1, <1>4, <2>1, Zenon DEF LndFinal
  <2> QED BY <1>1, <2>1, <2>2, <2>3, Zenon DEF RequestOK, State
<1>8. OneRequestPerHash' /\ UpdatesTrue'
  BY <1>1, UpdatesFrame, Zenon DEF Inv, OneRequestPerHash, Working
<1>9. WorkerInv'
  <2> SUFFICES ASSUME NEW v \in Worker, wk'[v].pc # "idle" PROVE TaskOK(v)'
    BY DEF WorkerInv
  <2>1. wk'[v] = wk[v] /\ TaskOK(v)
    BY <1>5 DEF Inv, WorkerInv
  <2> QED BY <1>1, <1>4, <2>1 DEF TaskOK
<1> QED BY <1>4, <1>6, <1>7, <1>8, <1>9 DEF Inv

\* Persisting the intent, or answering AlreadyPaid, keeps the invariant.
LEMMA PersistStep ==
    ASSUME Inv, NEW s \in Sender, NEW h \in Hash, persist_intent(s, h)
    PROVE  Inv'
<1> DEFINE new == [pc |-> "authorize", hash |-> h, ent |-> into_events, reply |-> "none"]
<1>1. UNCHANGED <<hold, lnd, sub, track, chan, wk>>
  BY DEF persist_intent
<1>2. /\ LegalLog(into_events) /\ Len(into_events) = 1 /\ into_events # <<>>
      /\ try_from_events(into_events) = "Initiated" /\ into_events \in Seq(PaymentEvent)
  BY NewLog DEF LegalLog
<1>3. \/ /\ log[h] = <<>>
         /\ log' = [log EXCEPT ![h] = into_events]
         /\ outbox' = [outbox EXCEPT ![h] = OutboxOf("Initiated")]
      \/ UNCHANGED <<log, outbox>>
  <2>1. log[h] = <<>> => outbox[h] = <<>>
    BY DEF Inv, RowInv, OutboxMatchesRow, State, try_from_events, OutboxOf
  <2>2. Append(<<>>, "OutgoingPaymentInitiated") = OutboxOf("Initiated")
    BY DEF OutboxOf
  <2> QED BY <2>1, <2>2 DEF persist_intent
<1>4. /\ RowInv' /\ log' \in [Hash -> Seq(PaymentEvent)] /\ outbox' \in [Hash -> Seq(OutboxEvent)]
      /\ \A g \in Hash \ {h} : log'[g] = log[g]
      /\ \A g \in Hash : \A ent : LoadedFrom(ent, log[g]) => LoadedFrom(ent, log'[g])
  <2>1. CASE UNCHANGED <<log, outbox>>
    BY <1>1, <2>1, RowFrame DEF Inv, TypeOK
  <2>2. CASE /\ log[h] = <<>>
             /\ log' = [log EXCEPT ![h] = into_events]
             /\ outbox' = [outbox EXCEPT ![h] = OutboxOf("Initiated")]
    <3>1. Len(into_events) > Len(log[h])
      BY <1>2, <2>2
    <3> QED BY <1>1, <1>2, <2>2, <3>1, RowWrite, Zenon
  <2> QED BY <1>3, <2>1, <2>2, Zenon
<1>5. \A t \in Sender : Working(t) /\ snd[t].hash = h => UNCHANGED log
  <2>1. \A t \in Sender : Working(t) /\ snd[t].hash = h => LoadedFrom(into_events, log[h])
    BY DEF Inv, RequestInv, RequestOK
  <2>2. log[h] = <<>> => ~LoadedFrom(into_events, log[h])
    BY <1>2 DEF LoadedFrom
  <2> QED BY <1>3, <2>1, <2>2
<1>6. \/ /\ log[h] = <<>> /\ log' = [log EXCEPT ![h] = into_events]
         /\ snd' = [snd EXCEPT ![s] = new]
      \/ \E r \in {"FAILURE", "ALREADY_PAID"} : Reply(s, h, r)
  BY DEF persist_intent
<1>7. /\ snd' \in [Sender -> Request] /\ OneRequestPerHash' /\ RequestInv'
  <2>1. CASE \E r \in {"FAILURE", "ALREADY_PAID"} : Reply(s, h, r)
    <3>1. /\ snd' \in [Sender -> Request] /\ OneRequestPerHash' /\ ~Working(s)'
          /\ \A t \in Sender \ {s} : snd'[t] = snd[t]
      BY <2>1, ReplyFacts DEF Inv
    <3>2. RequestInv'
      <4> SUFFICES ASSUME NEW t \in Sender, Working(t)' PROVE RequestOK(t)'
        BY DEF RequestInv
      <4>1. snd'[t] = snd[t] /\ RequestOK(t) /\ Working(t) /\ snd[t].hash \in Hash
        BY <3>1, Zenon DEF Inv, RequestInv, RequestOK, Working
      <4>2. log'[snd[t].hash] = log[snd[t].hash]
        BY <1>4, <1>5, <4>1, Zenon
      <4> QED BY <1>1, <4>1, <4>2 DEF RequestOK, State
    <3> QED BY <3>1, <3>2
  <2>2. CASE /\ log[h] = <<>> /\ log' = [log EXCEPT ![h] = into_events]
             /\ snd' = [snd EXCEPT ![s] = new]
    <3>1. new \in Request
      BY <1>2 DEF Request, SenderPc
    <3>2. /\ snd' \in [Sender -> Request] /\ snd'[s] = new
          /\ \A t \in Sender \ {s} : snd'[t] = snd[t]
      BY <2>2, <3>1 DEF Inv, TypeOK
    <3>3. log'[h] = into_events /\ log' # log
      BY <1>2, <2>2 DEF Inv, TypeOK
    <3>4. \A t \in Sender : Working(t) => snd[t].hash # h
      BY <1>5, <3>3
    <3>5. OneRequestPerHash'
      BY <3>2, <3>4 DEF Inv, OneRequestPerHash, Working
    <3>6. lnd[h] = "NotFound"
      BY <2>2 DEF Inv, RowInv, HoldBeforeLnd
    <3>7. RequestInv'
      <4> SUFFICES ASSUME NEW t \in Sender, Working(t)' PROVE RequestOK(t)'
        BY DEF RequestInv
      <4>1. CASE t = s
        <5>1. LoadedFrom(into_events, log'[h])
          BY <1>2, <3>3, LoadedSelf
        <5> QED BY <1>1, <1>2, <3>2, <3>3, <3>6, <4>1, <5>1 DEF RequestOK, State
      <4>2. CASE t # s
        <5>1. snd'[t] = snd[t] /\ RequestOK(t) /\ snd[t].hash \in Hash \ {h}
          BY <3>2, <3>4, <4>2 DEF Inv, RequestInv, RequestOK, Working
        <5>2. log'[snd[t].hash] = log[snd[t].hash]
          BY <1>4, <5>1, Zenon
        <5> QED BY <1>1, <5>1, <5>2 DEF RequestOK, State
      <4> QED BY <4>1, <4>2
    <3> QED BY <3>2, <3>5, <3>7
  <2> QED BY <1>6, <2>1, <2>2
<1>8. TypeOK'
  BY <1>1, <1>4, <1>7 DEF Inv, TypeOK
<1>9. WorkerInv' /\ UpdatesTrue'
  BY <1>1, <1>4, TasksKept, UpdatesFrame DEF Inv
<1> QED BY <1>4, <1>7, <1>8, <1>9 DEF Inv

------------------------------------------------------------------------------
(* The invariant holds *)

\* An empty database and an idle process satisfy the invariant.
LEMMA InitInv ==
    ASSUME Init
    PROVE  Inv
<1>1. TypeOK
  <2>1. snd \in [Sender -> Request]
    BY DEF Init, Request, SenderPc
  <2>2. wk \in [Worker -> Task]
    BY DEF Init, Task, Idle
  <2>3. chan \in Seq(PaymentUpdate) /\ Len(chan) <= ChanCap
    BY ConstantsAssumption DEF Init
  <2> QED BY <2>1, <2>2, <2>3 DEF Init, TypeOK
<1>2. RowInv
  BY DEF Init, RowInv, RowsLegal, LegalLog, OutboxMatchesRow, HoldBeforeLnd, CompletedOnlyIfPaid,
     State, try_from_events, OutboxOf
<1>3. RequestInv /\ OneRequestPerHash /\ WorkerInv
  BY DEF Init, RequestInv, OneRequestPerHash, WorkerInv, Working, Idle
<1>4. UpdatesTrue
  BY DEF Init, UpdatesTrue
<1> QED BY <1>1, <1>2, <1>3, <1>4 DEF Inv

\* Every step of a request keeps the invariant.
LEMMA RequestStepInv ==
    ASSUME Inv, NEW s \in Sender, RequestStep(s)
    PROVE  Inv'
<1>1. CASE settle_inline(s)
  BY <1>1, InlineStep DEF settle_inline, Working, Terminal
<1>2. CASE fail_inline(s)
  BY <1>2, InlineStep DEF fail_inline, Working, Terminal
<1> QED
  BY <1>1, <1>2, Authorize, LndSend, Dispatch, PendingStep DEF RequestStep

\* A step that changes nothing.
LEMMA StutterInv ==
    ASSUME Inv, UNCHANGED vars
    PROVE  Inv'
<1>1. TypeOK'
  BY DEF Inv, TypeOK, vars
<1> QED
  BY <1>1, RowFrame, RequestFrame, WorkerFrame, UpdatesFrame DEF Inv, vars

\* Every step keeps the invariant.
LEMMA NextInv ==
    ASSUME Inv, [Next]_vars
    PROVE  Inv'
BY PersistStep, RequestStepInv, ConnectStep, DisconnectStep, DriveStep, HandleStep, ReconcileStep,
   LookupStep, CommitStep, ResolveStep, CrashStep, StutterInv DEF Next

\* The inductive invariant holds in every reachable state.
THEOREM InvHolds == Spec => []Inv
<1>1. Init => Inv
  BY InitInv
<1>2. Inv /\ [Next]_vars => Inv'
  BY NextInv
<1> QED BY <1>1, <1>2, PTL DEF Spec

------------------------------------------------------------------------------
(* What one step may do to the rows *)

\* A payment row is created, marked pending, or closed; in the last case LND has
\* settled the payment the row calls Completed.
Creates(h) ==
    /\ log[h] = <<>>
    /\ log' = [log EXCEPT ![h] = into_events]
    /\ outbox' = [outbox EXCEPT ![h] = OutboxOf("Initiated")]

Marks(h) ==
    /\ log[h] = into_events
    /\ log' = [log EXCEPT ![h] = Append(into_events, "Pending")]
    /\ UNCHANGED outbox

ClosesTruly(h, fin) ==
    /\ \E l : Closes(h, fin, l)
    /\ fin = "Completed" => lnd[h] = "Succeeded"
    /\ fin = "Failed" /\ InvNoSendError => lnd[h] \in {"NotFound", "Failed"}

RowStep ==
    \/ UNCHANGED <<log, outbox>>
    \/ /\ UNCHANGED lnd
       /\ \E h \in Hash : Creates(h) \/ Marks(h) \/ \E fin \in Terminal : ClosesTruly(h, fin)

\* Persisting the intent creates a row or writes nothing.
LEMMA PersistRow ==
    ASSUME Inv, NEW s \in Sender, NEW h \in Hash, persist_intent(s, h)
    PROVE  RowStep
<1>1. log[h] = <<>> => outbox[h] = <<>>
  BY DEF Inv, RowInv, OutboxMatchesRow, State, try_from_events, OutboxOf
<1>2. Append(<<>>, "OutgoingPaymentInitiated") = OutboxOf("Initiated")
  BY DEF OutboxOf
<1>3. Creates(h) \/ UNCHANGED <<log, outbox>>
  BY <1>1, <1>2 DEF persist_intent, Creates
<1> QED BY <1>3 DEF RowStep, persist_intent

\* transition_to_pending marks a new row or writes nothing.
LEMMA PendingRow ==
    ASSUME Inv, NEW s \in Sender, transition_to_pending(s)
    PROVE  RowStep
<1> DEFINE h == snd[s].hash
<1>1. h \in Hash /\ RequestOK(s)
  BY Zenon DEF Inv, RequestInv, RequestOK, transition_to_pending, Working
<1>2. \/ update_in_op(h, into_events, Append(into_events, "Pending"))
      \/ UNCHANGED log
  BY <1>1, PendingFacts, Zenon DEF transition_to_pending, RequestOK
<1>3. Marks(h) \/ UNCHANGED <<log, outbox>>
  BY <1>1, <1>2 DEF Marks, update_in_op, RequestOK, LoadedFrom, transition_to_pending
<1> QED BY <1>1, <1>3, Zenon DEF RowStep, transition_to_pending

\* settle_inline closes a row LND settled or writes nothing.
LEMMA SettleRow ==
    ASSUME Inv, NEW s \in Sender, settle_inline(s)
    PROVE  RowStep
<1> DEFINE h == snd[s].hash
           cmd == settle(mark_pending(snd[s].ent).events)
<1>1. Working(s) /\ h \in Hash /\ lnd[h] = "Succeeded" /\ UNCHANGED lnd
  BY Zenon DEF Inv, RequestInv, RequestOK, settle_inline, inline_commit, Working
<1>2. CommitTx(h, snd[s].ent, cmd, "OutgoingPaymentCompleted") \/ UNCHANGED <<log, outbox>>
  BY Zenon DEF settle_inline, inline_commit, CommitRefused, CommitFault
<1>3. ASSUME CommitTx(h, snd[s].ent, cmd, "OutgoingPaymentCompleted")
      PROVE  ClosesTruly(h, "Completed")
  <2>1. "Completed" \in Terminal /\ "Completed" # "Failed"
    BY DEF Terminal
  <2>2. Closes(h, "Completed", cmd.events)
    BY <1>1, <1>3, <2>1, InlineCloses, Zenon
  <2> QED BY <1>1, <2>2 DEF ClosesTruly
<1> QED BY <1>1, <1>2, <1>3, Zenon DEF RowStep, Terminal

\* fail_inline closes a row or writes nothing.
LEMMA FailRow ==
    ASSUME Inv, NEW s \in Sender, fail_inline(s)
    PROVE  RowStep
<1> DEFINE h == snd[s].hash
           cmd == fail(mark_pending(snd[s].ent).events)
<1>1. /\ Working(s) /\ h \in Hash /\ UNCHANGED lnd
      /\ InvNoSendError => lnd[h] \in {"NotFound", "Failed"}
  BY Zenon DEF Inv, RequestInv, RequestOK, fail_inline, inline_commit, Working, InvNoSendError
<1>2. CommitTx(h, snd[s].ent, cmd, "OutgoingPaymentFailed") \/ UNCHANGED <<log, outbox>>
  BY Zenon DEF fail_inline, inline_commit, CommitRefused, CommitFault
<1>3. ASSUME CommitTx(h, snd[s].ent, cmd, "OutgoingPaymentFailed")
      PROVE  ClosesTruly(h, "Failed")
  <2>1. "Failed" \in Terminal /\ "Failed" # "Completed"
    BY DEF Terminal
  <2>2. Closes(h, "Failed", cmd.events)
    BY <1>1, <1>3, <2>1, InlineCloses, Zenon
  <2> QED BY <1>1, <2>2 DEF ClosesTruly
<1> QED BY <1>1, <1>2, <1>3 DEF RowStep, Terminal

\* The consumer and the sweep close a row as LND closed it or write nothing.
LEMMA CommitRow ==
    ASSUME Inv, NEW w \in Worker, commit_terminal(w)
    PROVE  RowStep
<1> DEFINE h == wk[w].hash
           fin == IF wk[w].status = "Succeeded" THEN "Completed" ELSE "Failed"
           cmd == IF fin = "Completed" THEN settle(wk[w].ent) ELSE fail(wk[w].ent)
           out == IF fin = "Completed" THEN "OutgoingPaymentCompleted" ELSE "OutgoingPaymentFailed"
<1>1. /\ wk[w].pc = "commit" /\ h \in Hash /\ UNCHANGED lnd
      /\ lnd[h] \in LndFinal /\ wk[w].status = lnd[h]
  BY Zenon DEF Inv, WorkerInv, TaskOK, commit_terminal
<1>2. CommitTx(h, wk[w].ent, cmd, out) \/ UNCHANGED <<log, outbox>>
  BY DEF commit_terminal, CommitRefused, CommitFault
<1>3. /\ fin \in Terminal
      /\ fin = "Completed" => lnd[h] = "Succeeded"
      /\ fin = "Failed" => lnd[h] = "Failed"
  BY <1>1 DEF Terminal, LndFinal
<1>4. ASSUME CommitTx(h, wk[w].ent, cmd, out)
      PROVE  ClosesTruly(h, fin)
  <2>1. Closes(h, fin, cmd.events)
    BY <1>1, <1>3, <1>4, TaskCloses, Zenon DEF Terminal
  <2> QED BY <1>3, <2>1 DEF ClosesTruly
<1> QED BY <1>1, <1>2, <1>3, <1>4, Zenon DEF RowStep

\* Every step of the gateway is a RowStep.
LEMMA RowEffect ==
    ASSUME Inv, [Next]_vars
    PROVE  RowStep
<1>1. CASE \E s \in Sender, h \in Hash : persist_intent(s, h)
  BY <1>1, PersistRow
<1>2. CASE \E s \in Sender : RequestStep(s)
  <2>1. PICK s \in Sender : RequestStep(s)
    BY <1>2
  <2>2. CASE authorize_spend(s) \/ lnd_send_payment(s) \/ dispatch_response(s)
    BY <2>2 DEF RowStep, authorize_spend, lnd_send_payment, dispatch_response
  <2> QED BY <2>1, <2>2, PendingRow, SettleRow, FailRow DEF RequestStep
<1>3. CASE \E w \in Worker : commit_terminal(w)
  BY <1>3, CommitRow
<1>4. CASE UNCHANGED <<log, outbox>>
  BY <1>4 DEF RowStep
<1>5. CASE UNCHANGED vars
  BY <1>5 DEF RowStep, vars
<1> QED
  BY <1>1, <1>2, <1>3, <1>4, <1>5, Zenon DEF Next, Connect, Disconnect, drive_stream, handle_payment_update,
     reconcile_orphan_hold, lookup_payment, LndResolve, Crash

------------------------------------------------------------------------------
(* Theorems *)

\* Every variable keeps the type of the column, channel or task state it models.
THEOREM TypeCorrect == Spec => []TypeOK
<1>1. Inv => TypeOK
  BY DEF Inv
<1> QED BY <1>1, InvHolds, PTL

\* send_payment and its racing writers: LND knows a payment only behind a posted
\* hold and a durable intent row; the outbox is determined by the row; and a row
\* is Completed only if LND paid.
THEOREM RowsTruthful == Spec => [](HoldBeforeLnd /\ OutboxMatchesRow /\ CompletedOnlyIfPaid)
<1>1. Inv => HoldBeforeLnd /\ OutboxMatchesRow /\ CompletedOnlyIfPaid
  BY DEF Inv, RowInv
<1> QED BY <1>1, InvHolds, PTL

\* LND is asked to pay only for a hash whose hold is authorized and whose row is
\* durable.
THEOREM HoldFirst == Spec => []HoldBeforeLnd
<1>1. Inv => HoldBeforeLnd
  BY DEF Inv, RowInv
<1> QED BY <1>1, InvHolds, PTL

\* commit_completed is reached only with a payment LND made.
THEOREM CompletedWasPaid == Spec => []CompletedOnlyIfPaid
<1>1. Inv => CompletedOnlyIfPaid
  BY DEF Inv, RowInv
<1> QED BY <1>1, InvHolds, PTL

\* A legal row is a prefix of itself.
LEMMA WholePrefix ==
    ASSUME NEW l \in Seq(PaymentEvent)
    PROVE  SubSeq(l, 1, Len(l)) = l
<1>1. /\ SubSeq(l, 1, Len(l)) \in Seq(PaymentEvent)
      /\ Len(SubSeq(l, 1, Len(l))) = Len(l)
      /\ \A i \in 1..Len(l) : SubSeq(l, 1, Len(l))[i] = l[i]
  BY SubSeqProperties
<1> QED BY <1>1, SeqEqual

\* A RowStep extends one log and leaves terminal rows alone.
LEMMA GrowOnly ==
    ASSUME Inv, RowStep, NEW g \in Hash
    PROVE  /\ State(g) \in Terminal => UNCHANGED <<log[g], outbox[g]>>
           /\ SubSeq(log'[g], 1, Len(log[g])) = log[g]
<1>0. log[g] \in Seq(PaymentEvent) /\ SubSeq(log[g], 1, Len(log[g])) = log[g]
  BY WholePrefix DEF Inv, TypeOK
<1>1. CASE UNCHANGED <<log[g], outbox[g]>>
  BY <1>0, <1>1
<1>2. CASE Creates(g)
  <2>1. log[g] = <<>> /\ log'[g] = into_events /\ State(g) = "Absent"
    BY <1>2 DEF Inv, TypeOK, Creates, State, try_from_events
  <2>2. SubSeq(into_events, 1, 0) = <<>>
    BY NewLog, SubSeqProperties DEF LegalLog
  <2> QED BY <2>1, <2>2 DEF Terminal
<1>3. CASE Marks(g)
  <2>1. /\ log[g] = into_events /\ log'[g] = Append(into_events, "Pending")
        /\ State(g) = "Initiated"
    BY <1>3, NewLog DEF Inv, TypeOK, Marks, State
  <2>2. SubSeq(Append(into_events, "Pending"), 1, Len(into_events)) = into_events
    BY NewLog, LegalAppend DEF Terminal, PaymentEvent
  <2> QED BY <2>1, <2>2 DEF Terminal
<1>4. ASSUME NEW fin \in Terminal, NEW l, Closes(g, fin, l)
      PROVE  State(g) \notin Terminal /\ SubSeq(log'[g], 1, Len(log[g])) = log[g]
  BY <1>4 DEF Inv, TypeOK, Closes, Terminal
<1>5. ASSUME NEW h \in Hash \ {g}, Creates(h) \/ Marks(h) \/ \E fin \in Terminal : \E l : Closes(h, fin, l)
      PROVE  UNCHANGED <<log[g], outbox[g]>>
  BY <1>5 DEF Inv, TypeOK, Creates, Marks, Closes
<1> QED BY <1>1, <1>2, <1>3, <1>4, <1>5 DEF RowStep, ClosesTruly

\* Whatever request, consumer and sweep race to write, a log only grows and a
\* terminal row is never written again.
THEOREM TerminalRows == Spec => TerminalIsFinal
<1>1. Inv /\ [Next]_vars => [\A h \in Hash :
          /\ State(h) \in Terminal => UNCHANGED <<log[h], outbox[h]>>
          /\ SubSeq(log'[h], 1, Len(log[h])) = log[h]]_vars
  BY RowEffect, GrowOnly
<1> QED BY <1>1, InvHolds, PTL DEF Spec, TerminalIsFinal

------------------------------------------------------------------------------
(* When a SendPaymentV2 error means that LND has not accepted the payment *)

\* LND moves a payment only from NotFound to InFlight, while its row is
\* Initiated, or from InFlight to a final status; neither step writes a row.
LndStep ==
    \/ UNCHANGED lnd
    \/ /\ UNCHANGED <<log, outbox>>
       /\ \E h \in Hash :
            \/ /\ lnd[h] = "NotFound" /\ State(h) = "Initiated"
               /\ lnd' = [lnd EXCEPT ![h] = "InFlight"]
            \/ /\ lnd[h] = "InFlight"
               /\ \E st \in LndFinal : lnd' = [lnd EXCEPT ![h] = st]

\* Every step of the gateway and of LND is an LndStep.
LEMMA LndEffect ==
    ASSUME Inv, [Next]_vars
    PROVE  LndStep
<1>1. CASE \E s \in Sender : RequestStep(s)
  <2>1. PICK s \in Sender : RequestStep(s)
    BY <1>1
  <2>2. CASE lnd_send_payment(s)
    <3>1. snd[s].hash \in Hash /\ lnd[snd[s].hash] = "NotFound" /\ State(snd[s].hash) = "Initiated"
      BY <2>2, Zenon DEF Inv, RequestInv, RequestOK, Working, lnd_send_payment
    <3> QED BY <2>2, <3>1 DEF LndStep, lnd_send_payment
  <2> QED BY <2>1, <2>2, Zenon DEF RequestStep, LndStep, authorize_spend, dispatch_response,
             transition_to_pending, settle_inline, fail_inline, inline_commit
<1>2. CASE \E h \in Hash, st \in LndFinal : LndResolve(h, st)
  BY <1>2, Zenon DEF LndStep, LndResolve
<1> QED
  BY <1>1, <1>2, Zenon DEF Next, LndStep, vars, persist_intent, Connect, Disconnect, drive_stream,
     handle_payment_update, reconcile_orphan_hold, lookup_payment, commit_terminal, Crash

\* What a step changes of a request, when it changes it: the request's own step,
\* its start, or a crash.
LEMMA OwnStep ==
    ASSUME Inv, [Next]_vars, NEW s \in Sender, snd'[s] # snd[s]
    PROVE  RequestStep(s) \/ (\E h \in Hash : persist_intent(s, h)) \/ Crash
<1>1. ASSUME NEW t \in Sender \ {s}, RequestStep(t) \/ \E h \in Hash : persist_intent(t, h)
      PROVE  snd'[s] = snd[s]
  BY <1>1, ZenonT(30) DEF Inv, TypeOK, RequestStep, authorize_spend, lnd_send_payment, dispatch_response,
     transition_to_pending, settle_inline, fail_inline, inline_commit, Goto, Reply, persist_intent
<1> QED BY <1>1, Zenon DEF Next, vars, Connect, Disconnect, drive_stream,
           handle_payment_update, reconcile_orphan_hold, lookup_payment, commit_terminal, LndResolve

\* The state of a row after a step.
LEMMA StateAfter ==
    ASSUME Inv, RowStep, NEW g \in Hash, State(g)' # State(g)
    PROVE  /\ UNCHANGED lnd
           /\ \/ Creates(g) /\ State(g)' = "Initiated"
              \/ Marks(g) /\ State(g)' = "Pending"
              \/ \E fin \in Terminal : ClosesTruly(g, fin) /\ State(g)' = fin
<1>1. PICK h \in Hash : Creates(h) \/ Marks(h) \/ \E fin \in Terminal : ClosesTruly(h, fin)
  BY DEF RowStep, State
<1>2. h = g
  BY <1>1 DEF Inv, TypeOK, Creates, Marks, ClosesTruly, Closes, State
<1>3. UNCHANGED lnd
  BY DEF RowStep, State
<1>4. ASSUME Creates(g) PROVE State(g)' = "Initiated"
  BY <1>4, NewLog DEF Inv, TypeOK, Creates, State
<1>5. ASSUME Marks(g) PROVE State(g)' = "Pending"
  <2>1. try_from_events(Append(into_events, "Pending")) = "Pending"
    BY NewLog, LegalAppend DEF Terminal, PaymentEvent
  <2> QED BY <1>5, <2>1 DEF Inv, TypeOK, Marks, State
<1>6. ASSUME NEW fin \in Terminal, ClosesTruly(g, fin) PROVE State(g)' = fin
  BY <1>6 DEF Inv, TypeOK, ClosesTruly, Closes, State
<1> QED BY <1>1, <1>2, <1>3, <1>4, <1>5, <1>6

\* A request reaches fail_inline only when LND refused, failed or never saw the
\* payment.
LEMMA FailPc ==
    ASSUME Inv, InvNoSendError, "send_error" \notin Faults, [Next]_vars,
           NEW s \in Sender, snd'[s].pc = "fail_inline"
    PROVE  lnd'[snd'[s].hash] \in {"NotFound", "Failed"}
<1>1. CASE snd'[s] = snd[s]
  <2>1. RequestOK(s) /\ Working(s) /\ snd[s].hash \in Hash /\ snd[s].pc = "fail_inline"
    BY <1>1, Zenon DEF Inv, RequestInv, RequestOK, Working
  <2>2. lnd[snd[s].hash] \in {"NotFound", "Failed"}
    BY <2>1 DEF InvNoSendError
  <2>3. CASE \E t \in Sender : lnd_send_payment(t)
    <3>1. PICK t \in Sender : lnd_send_payment(t)
      BY <2>3
    <3>2. Working(t) /\ snd[t].hash \in Hash /\ t # s
      BY <2>1, <3>1, Zenon DEF Inv, RequestInv, RequestOK, Working, lnd_send_payment
    <3>3. snd[t].hash # snd[s].hash
      BY <2>1, <3>2 DEF Inv, OneRequestPerHash
    <3> QED BY <1>1, <2>1, <2>2, <3>1, <3>2, <3>3, ZenonT(30) DEF Inv, TypeOK, lnd_send_payment
  <2>4. CASE UNCHANGED lnd
    BY <1>1, <2>2, <2>4
  <2>5. CASE \E h \in Hash, st \in LndFinal : LndResolve(h, st)
    BY <1>1, <2>1, <2>2, <2>5 DEF Inv, TypeOK, LndResolve
  <2> QED
    BY <2>3, <2>4, <2>5, Zenon DEF Next, RequestStep, vars, persist_intent, Connect, Disconnect,
       drive_stream, handle_payment_update, reconcile_orphan_hold, lookup_payment,
       commit_terminal, Crash, authorize_spend, dispatch_response, transition_to_pending,
       settle_inline, fail_inline, inline_commit
<1>2. CASE snd'[s] # snd[s]
  <2>1. RequestStep(s) \/ (\E h \in Hash : persist_intent(s, h)) \/ Crash
    BY <1>2, OwnStep
  <2>t. snd \in [Sender -> Request]
    BY DEF Inv, TypeOK
  <2>r. ASSUME NEW h, NEW r, Reply(s, h, r) PROVE FALSE
    BY <2>r, <2>t DEF Reply
  <2>2. CASE authorize_spend(s) \/ lnd_send_payment(s)
    <3>1. snd[s].hash \in Hash /\ lnd[snd[s].hash] = "NotFound"
      BY <2>2, Zenon DEF Inv, RequestInv, RequestOK, Working, authorize_spend, lnd_send_payment
    <3>2. snd'[s].hash = snd[s].hash /\ (snd'[s].pc = "fail_inline" => UNCHANGED lnd)
      BY <2>2 DEF Inv, TypeOK, authorize_spend, lnd_send_payment, Goto
    <3> QED BY <3>1, <3>2
  <2>3. CASE dispatch_response(s)
    BY <2>3 DEF Inv, TypeOK, dispatch_response, Goto, Reply
  <2>4. CASE transition_to_pending(s) \/ settle_inline(s) \/ fail_inline(s)
    <3>1. \E h, r : Reply(s, h, r)
      BY <2>4, Zenon DEF transition_to_pending, settle_inline, fail_inline, inline_commit
    <3> QED BY <3>1, <2>r
  <2>5. CASE \E h \in Hash : persist_intent(s, h)
    <3>1. PICK h \in Hash : persist_intent(s, h)
      BY <2>5
    <3>2. (\E r : Reply(s, h, r)) \/ snd'[s].pc = "authorize"
      BY <3>1, <2>t DEF persist_intent
    <3> QED BY <3>2, <2>r
  <2>6. CASE Crash
    BY <2>6 DEF Crash
  <2> QED BY <2>1, <2>2, <2>3, <2>4, <2>5, <2>6, Zenon DEF RequestStep
<1> QED BY <1>1, <1>2

\* Without send errors after acceptance, a row fails only if LND does not pay.
LEMMA NoSendErrorStep ==
    ASSUME Inv, InvNoSendError, "send_error" \notin Faults, [Next]_vars
    PROVE  InvNoSendError'
<1>1. FailedOnlyIfUnpaid'
  <2> SUFFICES ASSUME NEW g \in Hash, State(g)' = "Failed"
               PROVE  lnd'[g] \in {"NotFound", "Failed"}
    BY DEF FailedOnlyIfUnpaid
  <2>1. CASE State(g)' = State(g)
    <3>1. lnd[g] \in {"NotFound", "Failed"} /\ State(g) = "Failed"
      BY <2>1 DEF InvNoSendError, FailedOnlyIfUnpaid
    <3> QED BY <3>1, LndEffect DEF Inv, TypeOK, LndStep
  <2>2. CASE State(g)' # State(g)
    BY <2>2, RowEffect, StateAfter DEF ClosesTruly
  <2> QED BY <2>1, <2>2
<1> QED BY <1>1, FailPc DEF InvNoSendError

\* If a SendPaymentV2 error always means that LND has not accepted the payment,
\* a row is Failed, and its hold released, only if LND does not and never will
\* pay.
THEOREM ReleaseIsSafe ==
    ASSUME "send_error" \notin Faults
    PROVE  Spec => []FailedOnlyIfUnpaid
<1>1. Init => InvNoSendError
  BY DEF Init, InvNoSendError, FailedOnlyIfUnpaid, State, try_from_events
<1>2. Inv /\ InvNoSendError /\ [Next]_vars => InvNoSendError'
  BY NoSendErrorStep
<1>3. InvNoSendError => FailedOnlyIfUnpaid
  BY DEF InvNoSendError
<1> QED BY <1>1, <1>2, <1>3, InvHolds, PTL DEF Spec

------------------------------------------------------------------------------
(* What a request answers *)

\* An answer names the payment it is about.
AnswersNamed == \A s \in Sender : snd[s].reply \in {"SUCCESS", "PENDING"} => snd[s].hash \in Hash

\* An answer that was true stays true: a Completed row and a payment LND knows
\* remain so.
LEMMA AnswerStays ==
    ASSUME Inv, [Next]_vars, NEW h \in Hash
    PROVE  /\ State(h) = "Completed" => State(h)' = "Completed"
           /\ lnd[h] # "NotFound" => lnd'[h] # "NotFound"
<1>1. State(h) \in Terminal => State(h)' = State(h)
  BY RowEffect, GrowOnly DEF State
<1>2. lnd[h] # "NotFound" => lnd'[h] # "NotFound"
  BY LndEffect DEF Inv, TypeOK, LndStep, LndFinal
<1> QED BY <1>1, <1>2 DEF Terminal

\* The answer a request gives is true when it is given: SUCCESS comes with the
\* commit of Completed, or from the reloaded row; PENDING after LND accepted.
LEMMA AnswerGiven ==
    ASSUME Inv, NEW s \in Sender, snd'[s].reply \in {"SUCCESS", "PENDING"},
           RequestStep(s) \/ (\E h \in Hash : persist_intent(s, h)) \/ Crash
    PROVE  /\ snd'[s].hash \in Hash
           /\ snd'[s].reply = "SUCCESS" => State(snd[s].hash)' = "Completed"
           /\ snd'[s].reply = "PENDING" => lnd'[snd'[s].hash] # "NotFound"
<1> DEFINE g == snd[s].hash
<1>t. snd \in [Sender -> Request]
  BY DEF Inv, TypeOK
<1>r. ASSUME NEW h, NEW r, Reply(s, h, r) PROVE snd'[s].hash = h /\ snd'[s].reply = r
  BY <1>r, <1>t DEF Reply
<1>g. ASSUME NEW pc, Goto(s, pc) PROVE snd'[s].reply = snd[s].reply
  BY <1>g, <1>t DEF Goto
<1>w. ASSUME Working(s) PROVE snd[s].reply = "none" /\ g \in Hash /\ RequestOK(s)
  BY <1>w DEF Inv, RequestInv, RequestOK
<1>1. CASE authorize_spend(s) \/ lnd_send_payment(s) \/ dispatch_response(s)
  <2>1. (\E pc : Goto(s, pc)) \/ Reply(s, g, "FAILURE")
    BY <1>1, Zenon DEF authorize_spend, lnd_send_payment, dispatch_response
  <2>2. snd[s].reply = "none"
    BY <1>1, <1>w DEF Working, authorize_spend, lnd_send_payment, dispatch_response
  <2> QED BY <2>1, <2>2, <1>r, <1>g
<1>2. CASE transition_to_pending(s)
  <2>1. g \in Hash /\ lnd[g] # "NotFound" /\ UNCHANGED lnd
    BY <1>2, <1>w DEF Working, RequestOK, transition_to_pending
  <2>2. \/ Reply(s, g, "PENDING") \/ Reply(s, g, "FAILURE")
        \/ Reply(s, g, SendResult(State(g))) /\ UNCHANGED log
    BY <1>2, Zenon DEF transition_to_pending
  <2>3. SendResult(State(g)) = "SUCCESS" => State(g) = "Completed"
    BY DEF SendResult
  <2> QED BY <2>1, <2>2, <2>3, <1>r DEF State
<1>3. CASE settle_inline(s)
  <2> DEFINE cmd == settle(mark_pending(snd[s].ent).events)
  <2>1. Working(s) /\ g \in Hash
    BY <1>3, <1>w DEF Working, settle_inline
  <2>2. \/ Reply(s, g, "FAILURE")
        \/ CommitTx(g, snd[s].ent, cmd, "OutgoingPaymentCompleted") /\ Reply(s, g, "SUCCESS")
    BY <1>3, Zenon DEF settle_inline, inline_commit
  <2>3. ASSUME CommitTx(g, snd[s].ent, cmd, "OutgoingPaymentCompleted")
        PROVE  try_from_events(log'[g]) = "Completed"
    <3>1. "Completed" \in Terminal /\ "Completed" # "Failed"
      BY DEF Terminal
    <3>2. Closes(g, "Completed", cmd.events)
      BY <1>3, <2>1, <2>3, <3>1, InlineCloses, Zenon DEF settle_inline
    <3> QED BY <2>1, <3>2 DEF Closes, Inv, TypeOK
  <2> QED BY <2>1, <2>2, <2>3, <1>r DEF State
<1>4. CASE fail_inline(s)
  <2>1. Reply(s, g, "FAILURE")
    BY <1>4, Zenon DEF fail_inline, inline_commit
  <2> QED BY <2>1, <1>r
<1>5. ASSUME NEW h \in Hash, persist_intent(s, h) PROVE FALSE
  <2>1. \/ Reply(s, h, "FAILURE") \/ Reply(s, h, "ALREADY_PAID")
        \/ snd' = [snd EXCEPT ![s] =
             [pc |-> "authorize", hash |-> h, ent |-> into_events, reply |-> "none"]]
    BY <1>5, Zenon DEF persist_intent
  <2> QED BY <2>1, <1>r, <1>t
<1>6. CASE Crash
  BY <1>6 DEF Crash
<1> QED BY <1>1, <1>2, <1>3, <1>4, <1>5, <1>6, Zenon DEF RequestStep

\* What the caller of lnInvoicePaymentSend is told: SUCCESS only of a payment
\* whose row is Completed, PENDING only of one LND accepted, whatever the
\* request raced with.
THEOREM AnswersTrue == Spec => []ReplyTruthful
<1>1. Init => ReplyTruthful /\ AnswersNamed
  BY DEF Init, ReplyTruthful, AnswersNamed
<1>2. Inv /\ ReplyTruthful /\ AnswersNamed /\ [Next]_vars => ReplyTruthful' /\ AnswersNamed'
  <2> SUFFICES ASSUME Inv, ReplyTruthful, AnswersNamed, [Next]_vars, NEW s \in Sender,
                      snd'[s].reply \in {"SUCCESS", "PENDING"}
               PROVE  /\ snd'[s].hash \in Hash
                      /\ snd'[s].reply = "SUCCESS" => State(snd[s].hash)' = "Completed"
                      /\ snd'[s].reply = "PENDING" => lnd'[snd'[s].hash] # "NotFound"
    BY Zenon DEF ReplyTruthful, AnswersNamed
  <2>1. CASE snd'[s] = snd[s]
    <3>1. /\ snd[s].hash \in Hash
          /\ snd[s].reply = "SUCCESS" => State(snd[s].hash) = "Completed"
          /\ snd[s].reply = "PENDING" => lnd[snd[s].hash] # "NotFound"
      BY <2>1 DEF ReplyTruthful, AnswersNamed
    <3> QED BY <2>1, <3>1, AnswerStays
  <2>2. CASE snd'[s] # snd[s]
    BY <2>2, OwnStep, AnswerGiven, Zenon
  <2> QED BY <2>1, <2>2
<1> QED BY <1>1, <1>2, InvHolds, PTL DEF Spec

------------------------------------------------------------------------------
(* The gateway implements the abstract payment ledger *)

\* The outbox of a row that is not closed is the ledger's open stream.
LEMMA OpenStream ==
    ASSUME Inv, NEW h \in Hash, State(h) \in {"Initiated", "Pending"}
    PROVE  outbox[h] = Ledger!Open
BY DEF Inv, RowInv, OutboxMatchesRow, OutboxOf, Ledger!Open

\* A row write is a step of the abstract ledger, or invisible to it.
LEMMA LedgerRowStep ==
    ASSUME Inv, InvNoSendError, NEW h \in Hash, UNCHANGED lnd,
           Creates(h) \/ Marks(h) \/ \E fin \in Terminal : ClosesTruly(h, fin)
    PROVE  Ledger!Next \/ UNCHANGED <<outbox, lnd>>
<1>1. CASE Creates(h)
  <2>1. State(h) = "Absent" /\ lnd[h] = "NotFound"
    BY <1>1 DEF Creates, Inv, RowInv, HoldBeforeLnd, State, try_from_events
  <2>2. outbox[h] = <<>> /\ OutboxOf("Initiated") = Ledger!Open
    BY <2>1 DEF Inv, RowInv, OutboxMatchesRow, OutboxOf, Ledger!Open
  <2>3. Ledger!Announce(h)
    BY <1>1, <2>1, <2>2, Zenon DEF Creates, Ledger!Announce
  <2> QED BY <2>3 DEF Ledger!Next
<1>2. CASE Marks(h)
  BY <1>2 DEF Marks
<1>3. ASSUME NEW fin \in Terminal, ClosesTruly(h, fin) PROVE Ledger!Next
  <2>1. /\ State(h) \in {"Initiated", "Pending"}
        /\ outbox' = [outbox EXCEPT ![h] = OutboxOf(fin)]
        /\ fin = "Completed" => lnd[h] = "Succeeded"
        /\ fin = "Failed" => lnd[h] \in {"NotFound", "Failed"}
    BY <1>3 DEF ClosesTruly, Closes
  <2>2. outbox[h] = Ledger!Open /\ outbox[h] = OutboxOf(State(h))
    BY <2>1, OpenStream DEF Inv, RowInv, OutboxMatchesRow
  <2>3. CASE fin = "Completed"
    <3>1. Ledger!Complete(h)
      BY <2>1, <2>2, <2>3, OutboxClose, Zenon DEF Ledger!Complete
    <3> QED BY <3>1 DEF Ledger!Next
  <2>4. CASE fin = "Failed"
    <3>1. Ledger!Release(h)
      BY <2>1, <2>2, <2>4, OutboxClose, Zenon DEF Ledger!Release
    <3> QED BY <3>1 DEF Ledger!Next
  <2> QED BY <2>3, <2>4 DEF Terminal
<1> QED BY <1>1, <1>2, <1>3

\* A move of LND is a step of the abstract ledger.
LEMMA LedgerLndStep ==
    ASSUME Inv, InvNoSendError, NEW h \in Hash, UNCHANGED outbox,
           \/ /\ lnd[h] = "NotFound" /\ State(h) = "Initiated"
              /\ lnd' = [lnd EXCEPT ![h] = "InFlight"]
           \/ /\ lnd[h] = "InFlight"
              /\ \E st \in LndFinal : lnd' = [lnd EXCEPT ![h] = st]
    PROVE  Ledger!Next
<1>1. CASE lnd[h] = "NotFound" /\ State(h) = "Initiated" /\ lnd' = [lnd EXCEPT ![h] = "InFlight"]
  <2>1. Ledger!Pay(h)
    BY <1>1, OpenStream DEF Ledger!Pay
  <2> QED BY <2>1 DEF Ledger!Next
<1>2. CASE lnd[h] = "InFlight" /\ \E st \in LndFinal : lnd' = [lnd EXCEPT ![h] = st]
  <2>1. State(h) \in {"Absent", "Initiated", "Pending", "Completed", "Failed"}
        /\ (State(h) = "Absent" <=> log[h] = <<>>)
    BY LegalState DEF Inv, RowInv, RowsLegal, State
  <2>2. State(h) \in {"Initiated", "Pending"}
    BY <1>2, <2>1 DEF Inv, RowInv, HoldBeforeLnd, CompletedOnlyIfPaid, InvNoSendError, FailedOnlyIfUnpaid
  <2>3. Ledger!Resolve(h)
    BY <1>2, <2>2, OpenStream DEF Ledger!Resolve, LndFinal
  <2> QED BY <2>3 DEF Ledger!Next
<1> QED BY <1>1, <1>2

\* The outbox tells Symphony the truth: under the same assumption on
\* SendPaymentV2 errors, the outbox rows and LND's payments together behave as
\* the abstract ledger, for any number of payments, requests and crashes.
THEOREM Refinement ==
    ASSUME "send_error" \notin Faults
    PROVE  Spec => ImplementsLedger
<1>1. Init => Ledger!Init /\ InvNoSendError
  BY DEF Init, Ledger!Init, InvNoSendError, FailedOnlyIfUnpaid, State, try_from_events
<1>2. Inv /\ InvNoSendError /\ [Next]_vars => InvNoSendError'
  BY NoSendErrorStep
<1>3. Inv /\ InvNoSendError /\ [Next]_vars => [Ledger!Next]_(Ledger!ledgerVars)
  <2> SUFFICES ASSUME Inv, InvNoSendError, [Next]_vars
               PROVE  Ledger!Next \/ UNCHANGED <<outbox, lnd>>
    BY DEF Ledger!ledgerVars
  <2>1. RowStep /\ LndStep
    BY RowEffect, LndEffect
  <2>2. CASE UNCHANGED lnd
    BY <2>1, <2>2, LedgerRowStep DEF RowStep
  <2>3. CASE ~UNCHANGED lnd
    BY <2>1, <2>3, LedgerLndStep DEF LndStep
  <2> QED BY <2>2, <2>3
<1> QED BY <1>1, <1>2, <1>3, InvHolds, PTL DEF Spec, ImplementsLedger, Ledger!Spec
==============================================================================
