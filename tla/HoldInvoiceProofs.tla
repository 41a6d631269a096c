-------------------------- MODULE HoldInvoiceProofs --------------------------
(***************************************************************************)
(* Theorems about HoldInvoice for every set of hashes, channel capacity,   *)
(* amount bound and set of faults: the tasks that write keep its inductive *)
(* invariant, what follows for single states and for steps, and the        *)
(* abstract ledger it implements.                                          *)
(***************************************************************************)
EXTENDS HoldInvoiceInv

------------------------------------------------------------------------------
(* What the tasks look up and settle *)

\* LookupInvoice tells LND's state; what was reserved is covered by what is parked.
LEMMA LookupStep ==
    ASSUME IInv, NEW w \in Worker, lookup_invoice(w)
    PROVE  IInv'
<1> USE DEF IInv
<1> DEFINE h == wk[w].hash
           ent == wk[w].ent
           t(pc) == [pc |-> pc, hash |-> h, ent |-> ent, amt |-> paid[h]]
<1>1. /\ UNCHANGED <<log, outbox, lnd, paid, crt, lst, strm, chan, recovery, lost>>
      /\ wk[w].pc = "lookup" /\ lost \subseteq Hash
  BY DEF lookup_invoice, TypeOK
<1>2. /\ h \in Hash /\ wk[w] \in Task /\ LoadedFrom(ent, log[h])
      /\ try_from_events(ent) = "Held"
  BY <1>1 DEF TasksKnow, TaskOK
<1>3. /\ paid[h] \in 0..MaxAmt /\ ent \in Seq(InvoiceEvent)
      /\ RowOK(log[h], outbox[h], lnd[h], paid[h], crt[h], lst[h])
  BY <1>2 DEF TypeOK, Task, RowsOK
<1>4. held_amount_msat(ent) = held_amount_msat(log[h])
  <2>1. LegalLog(ent, held_amount_msat(ent))
    BY <1>2 DEF LoadedFrom
  <2>2. held_amount_msat(ent) # 0
    BY <1>2, <2>1, LogFacts
  <2> QED
    BY <1>2, <2>2 DEF LoadedFrom
<1>5. CASE wk' = [wk EXCEPT ![w] = Idle]
  <2>1. TaskOK(Idle, log[Idle.hash], lnd[Idle.hash], paid[Idle.hash])
    BY IdleKnows
  <2> QED
    BY <1>1, <1>5, <2>1, TaskOnly, Zenon
<1>6. ASSUME NEW pc \in {"rpc", "settle", "cancel"}, wk' = [wk EXCEPT ![w] = t(pc)],
             pc = "rpc" => lnd[h] = "Accepted", pc = "settle" => lnd[h] = "Settled",
             pc = "cancel" => lnd[h] = "Canceled"
      PROVE  IInv'
  <2>1. /\ t(pc) \in Task /\ t(pc).pc = pc /\ t(pc).hash = h /\ t(pc).ent = ent
        /\ t(pc).amt = paid[h]
    <3>1. h \in Hash /\ ent \in Seq(InvoiceEvent) /\ paid[h] \in 0..MaxAmt
      BY <1>2, <1>3
    <3> HIDE DEF h, ent
    <3> QED
      BY <3>1 DEF Task
  <2>2. lnd[h] # "Canceled" => held_amount_msat(ent) <= paid[h] /\ paid[h] <= paid[h]
    <3>1. paid[h] \in 0..MaxAmt /\ MaxAmt \in Nat
      BY <1>3, ConstantsAssumption
    <3>2. lnd[h] # "Canceled" => held_amount_msat(ent) <= paid[h]
      BY <1>3, <1>4 DEF RowOK
    <3> QED
      BY <3>1, <3>2
  <2>3. TaskOK(t(pc), log[h], lnd[h], paid[h])
    <3> HIDE DEF t, h, ent
    <3> QED
      BY <1>2, <1>6, <2>1, <2>2 DEF TaskOK
  <2> QED
    BY <1>1, <1>6, <2>1, <2>3, TaskOnly, Zenon
<1> QED
  BY <1>5, <1>6 DEF lookup_invoice, At

\* SettleInvoice is called only with the hold in the row, and LND settles what is
\* accepted.
LEMMA SettleStep ==
    ASSUME IInv, NEW w \in Worker, settle_invoice(w)
    PROVE  IInv'
<1> USE DEF IInv
<1> DEFINE h == wk[w].hash
           done == [pc |-> "settle", hash |-> h, ent |-> wk[w].ent, amt |-> wk[w].amt]
<1>1. /\ UNCHANGED <<log, outbox, paid, crt, lst, chan, recovery, lost>>
      /\ wk[w].pc = "rpc" /\ lost \subseteq Hash
  BY DEF settle_invoice, TypeOK
<1>2. /\ h \in Hash /\ wk[w] \in Task /\ LoadedFrom(wk[w].ent, log[h])
      /\ try_from_events(wk[w].ent) = "Held"
      /\ lnd[h] = "Canceled" \/ (held_amount_msat(wk[w].ent) <= wk[w].amt /\ wk[w].amt <= paid[h])
  BY <1>1 DEF TasksKnow, TaskOK
<1>3. done \in Task /\ done.pc = "settle" /\ done.hash = h /\ done.ent = wk[w].ent
      /\ done.amt = wk[w].amt
  BY <1>2 DEF Task
<1>4. /\ RowOK(log[h], outbox[h], lnd[h], paid[h], crt[h], lst[h])
      /\ paid[h] \in 0..MaxAmt /\ held_amount_msat(log[h]) # 0
  <2>1. LegalLog(wk[w].ent, held_amount_msat(wk[w].ent))
    BY <1>2 DEF LoadedFrom
  <2>2. held_amount_msat(wk[w].ent) # 0
    BY <1>2, <2>1, LogFacts
  <2> QED
    BY <1>2, <2>2 DEF LoadedFrom, RowsOK, TypeOK
<1>5. CASE wk' = [wk EXCEPT ![w] = Idle] /\ UNCHANGED <<lnd, strm>>
  <2>1. TaskOK(Idle, log[Idle.hash], lnd[Idle.hash], paid[Idle.hash])
    BY IdleKnows
  <2> QED
    BY <1>1, <1>5, <2>1, TaskOnly, Zenon
<1>6. CASE lnd[h] = "Settled" /\ wk' = [wk EXCEPT ![w] = done] /\ UNCHANGED <<lnd, strm>>
  <2>1. TaskOK(done, log[h], lnd[h], paid[h])
    <3> HIDE DEF done, h
    <3> QED
      BY <1>2, <1>3, <1>6 DEF TaskOK
  <2> HIDE DEF done
  <2> QED
    BY <1>1, <1>3, <1>6, <2>1, TaskOnly, Zenon
<1>7. CASE /\ lnd[h] = "Accepted" /\ lnd' = [lnd EXCEPT ![h] = "Settled"]
           /\ Emit(h, "Settled", paid[h])
           /\ wk' = [wk EXCEPT ![w] = done] \/ wk' = [wk EXCEPT ![w] = Idle]
  <2>1. /\ lnd' \in [Hash -> LndState \cup {"None"}] /\ lnd'[h] = "Settled"
        /\ \A g \in Hash \ {h} : lnd'[g] = lnd[g]
    BY <1>2, <1>7 DEF TypeOK, LndState
  <2>2. Moves
    <3>1. \A g \in Hash : log[g] \in Seq(InvoiceEvent) /\ paid[g] \in 0..MaxAmt
      BY DEF TypeOK
    <3>2. \A g \in Hash : Len(log[g]) \in Nat /\ paid[g] <= paid[g]
      BY <3>1, ConstantsAssumption
    <3> QED
      BY <1>1, <1>7, <2>1, <3>1, <3>2 DEF Moves, Advance, LndFinal
  <2>3. UpdatesTrue' /\ strm' \in [Hash -> Seq(InvoiceUpdate)]
    <3>1. UpdateOK(Update(h, "Settled", paid[h]), lnd'[h], paid'[h])
      BY <1>2, <1>4, <2>1 DEF UpdateOK, Update, InvoiceUpdate, LndFinal, LndState
    <3>2. "Settled" \in LndState
      BY DEF LndState
    <3> QED
      BY <1>1, <1>2, <1>4, <1>7, <2>2, <3>1, <3>2, EmitFacts
  <2>4. TasksKnow' /\ wk' \in [Worker -> Task]
    <3>1. TaskOK(done, log'[h], lnd'[h], paid'[h])
      <4> HIDE DEF done, h
      <4> QED
        BY <1>1, <1>2, <1>3, <1>7, <2>1 DEF TaskOK
    <3>2. TaskOK(Idle, log'[Idle.hash], lnd'[Idle.hash], paid'[Idle.hash])
      BY IdleKnows
    <3> HIDE DEF done
    <3>3. CASE wk' = [wk EXCEPT ![w] = done]
      BY <1>3, <2>2, <3>1, <3>3, TaskSet, Zenon
    <3>4. CASE wk' = [wk EXCEPT ![w] = Idle]
      BY <2>2, <3>2, <3>4, TaskSet, Zenon
    <3> QED
      BY <1>7, <3>3, <3>4
  <2>5. TypeOK'
    BY <1>1, <2>1, <2>3, <2>4 DEF TypeOK
  <2>6. RowsOK'
    <3>1. RowOK(log[h], outbox[h], "Settled", paid[h], crt[h], lst[h])
      BY <1>4, <1>7, Zenon DEF RowOK, Terminal
    <3> QED
      BY <1>1, <2>1, <3>1 DEF RowsOK
  <2>7. ReturnedIsWatched'
    BY <1>1, <2>2, WatchStay
  <2> QED
    BY <2>3, <2>4, <2>5, <2>6, <2>7
<1> QED
  BY <1>5, <1>6, <1>7 DEF settle_invoice

------------------------------------------------------------------------------
(* The writes *)

\* A row gets one event and its outbox one row more, and the tasks know of both.
LEMMA WriteKeeps ==
    ASSUME IInv, NEW h \in Hash, NEW events \in Seq(InvoiceEvent), NEW out \in OutboxRows,
           log' = [log EXCEPT ![h] = events], outbox' = [outbox EXCEPT ![h] = Append(@, out)],
           Grown(log[h], events), try_from_events(log[h]) \in {"Open", "Held"},
           RowOK(events, Append(outbox[h], out), lnd[h], paid[h], crt[h], lst[h]),
           UNCHANGED <<lnd, paid, crt, lst, strm, chan, recovery>>,
           lost \subseteq lost', lost' \subseteq Hash,
           Moves => TasksKnow' /\ wk' \in [Worker -> Task]
    PROVE  IInv'
<1> USE DEF IInv
<1>1. /\ log' \in [Hash -> Seq(InvoiceEvent)] /\ log'[h] = events
      /\ \A g \in Hash \ {h} : log'[g] = log[g]
  BY DEF TypeOK
<1>2. /\ outbox' \in [Hash -> Seq(OutboxRows)] /\ outbox'[h] = Append(outbox[h], out)
      /\ \A g \in Hash \ {h} : outbox'[g] = outbox[g]
  <2>1. Append(outbox[h], out) \in Seq(OutboxRows)
    BY DEF TypeOK
  <2> QED
    BY <2>1 DEF TypeOK
<1>3. Moves
  <2>1. \A g \in Hash : log'[g] \in Seq(InvoiceEvent) /\ paid[g] \in 0..MaxAmt
    BY <1>1 DEF TypeOK
  <2>2. \A g \in Hash : Len(log'[g]) \in Nat /\ paid[g] <= paid[g]
    BY <2>1, ConstantsAssumption
  <2> QED
    BY <1>1, <2>1, <2>2 DEF Moves, Advance
<1>4. TasksKnow' /\ UpdatesTrue'
  BY <1>3, UpdatesStay
<1>5. TypeOK'
  BY <1>1, <1>2, <1>3 DEF TypeOK
<1>6. RowsOK'
  BY <1>1, <1>2, Zenon DEF RowsOK
<1>7. ReturnedIsWatched'
  BY <1>1, <1>3, WatchStay, Zenon
<1> QED
  BY <1>4, <1>5, <1>6, <1>7

\* A transaction that commits, is refused or errors: the row is written only as
\* the task loaded it.
LEMMA CommitKeeps ==
    ASSUME IInv, NEW w \in Worker, NEW h \in Hash, NEW base, NEW cmd,
           NEW out \in OutboxRows, NEW next,
           LoadedFrom(base, log[h]), Commit(w, h, base, cmd, out, next),
           UNCHANGED <<lnd, paid, crt, lst, strm, chan, recovery>>,
           \A row : TaskOK(next, row, lnd[next.hash], paid[next.hash]),
           cmd.result = "Executed" /\ base = log[h] =>
               /\ cmd.events \in Seq(InvoiceEvent) /\ Grown(log[h], cmd.events)
               /\ try_from_events(log[h]) \in {"Open", "Held"}
               /\ RowOK(cmd.events, Append(outbox[h], out), lnd[h], paid[h], crt[h], lst[h])
    PROVE  IInv'
<1>1. /\ \/ CommitTx(h, base, cmd, out)
         \/ UNCHANGED <<log, outbox>>
      /\ \E t \in {next, Idle} : wk' = [wk EXCEPT ![w] = t]
      /\ lost \subseteq lost' /\ lost' \subseteq Hash
  BY DEF Commit, Dropped, IInv, TypeOK
<1>2. PICK t \in {next, Idle} : wk' = [wk EXCEPT ![w] = t]
  BY <1>1, Zenon
<1>3. \A row : TaskOK(t, row, lnd[t.hash], paid[t.hash])
  BY <1>2, IdleKnows
<1>4. CASE UNCHANGED <<log, outbox>>
  BY <1>1, <1>2, <1>3, <1>4, TaskOnly, Zenon
<1>5. CASE CommitTx(h, base, cmd, out)
  <2>1. /\ cmd.result = "Executed" /\ log[h] = base
        /\ log' = [log EXCEPT ![h] = cmd.events]
        /\ outbox' = [outbox EXCEPT ![h] = Append(@, out)]
    <3>1. Len(log[h]) = Len(base)
      BY <1>5, Zenon DEF CommitTx, update_in_op
    <3> QED
      BY <1>5, <3>1, Zenon DEF CommitTx, update_in_op, LoadedFrom
  <2>2. Moves => TasksKnow' /\ wk' \in [Worker -> Task]
    <3>1. TaskOK(t, log'[t.hash], lnd'[t.hash], paid'[t.hash])
      BY <1>3
    <3> QED
      BY <1>2, <3>1, TaskSet, Zenon DEF IInv
  <2> QED
    BY <1>1, <2>1, <2>2, WriteKeeps, Zenon
<1> QED
  BY <1>1, <1>4, <1>5

\* One row more in the outbox of a hash.
LEMMA OutboxAppend ==
    ASSUME TypeOK, NEW h \in Hash, NEW out \in OutboxRows
    PROVE  /\ Len(outbox[h]) \in Nat /\ Len(Append(outbox[h], out)) = Len(outbox[h]) + 1
           /\ Append(outbox[h], out) # <<>>
           /\ Append(outbox[h], out)[Len(outbox[h]) + 1] = out
           /\ \A i \in 1..Len(outbox[h]) : Append(outbox[h], out)[i] = outbox[h][i]
<1>1. outbox[h] \in Seq(OutboxRows)
  BY DEF TypeOK
<1> QED
  BY <1>1

\* transition_to_held: the amount held is one LND has parked.
LEMMA HoldStep ==
    ASSUME IInv, NEW w \in Worker, transition_to_held(w)
    PROVE  IInv'
<1> USE DEF IInv
<1> DEFINE t == wk[w]
           h == t.hash
           cmd == mark_held(t.ent, t.amt)
           out == OutboxRow("LightningHtlcHeld", t.amt, 0)
           next == [pc |-> "load", hash |-> h, ent |-> <<>>, amt |-> 0]
<1>1. /\ t.pc = "hold" /\ Commit(w, h, t.ent, cmd, out, next)
      /\ UNCHANGED <<lnd, paid, crt, lst, strm, chan, recovery>>
  BY DEF transition_to_held
<1>2. /\ h \in Hash /\ t \in Task /\ LoadedFrom(t.ent, log[h])
      /\ try_from_events(t.ent) = "Open" /\ t.amt # 0
      /\ lnd[h] \in {"Accepted", "Settled", "Canceled"} /\ (lnd[h] = "Canceled" \/ t.amt <= paid[h])
  BY <1>1 DEF TasksKnow, TaskOK
<1>3. /\ t.amt \in 1..MaxAmt /\ t.amt \in 0..MaxAmt /\ 0 \in 0..MaxAmt
      /\ RowOK(log[h], outbox[h], lnd[h], paid[h], crt[h], lst[h])
  <2>1. t.amt \in 0..MaxAmt /\ t.amt # 0 /\ MaxAmt \in Nat
    BY <1>2, ConstantsAssumption DEF Task
  <2>2. RowOK(log[h], outbox[h], lnd[h], paid[h], crt[h], lst[h])
    BY <1>2 DEF RowsOK
  <2> HIDE DEF t, h
  <2>3. t.amt \in 1..MaxAmt /\ 0 \in 0..MaxAmt
    BY <2>1
  <2> QED
    BY <2>1, <2>2, <2>3
<1>4. out \in OutboxRows
  BY <1>3 DEF OutboxRow, OutboxRows, OutboxEvent
<1>5. \A row : TaskOK(next, row, lnd[next.hash], paid[next.hash])
  <2>1. next \in Task /\ next.pc = "load" /\ next.hash = h
    <3>1. h \in Hash /\ 0 \in 0..MaxAmt /\ <<>> \in Seq(InvoiceEvent)
      BY <1>2, <1>3, SMTT(30)
    <3> HIDE DEF h
    <3> QED
      BY <3>1 DEF Task
  <2> HIDE DEF next
  <2> QED
    BY <1>2, <2>1 DEF TaskOK
<1>6. ASSUME cmd.result = "Executed", t.ent = log[h]
      PROVE  /\ cmd.events \in Seq(InvoiceEvent) /\ Grown(log[h], cmd.events)
             /\ try_from_events(log[h]) \in {"Open", "Held"}
             /\ RowOK(cmd.events, Append(outbox[h], out), lnd[h], paid[h], crt[h], lst[h])
  <2>1. /\ LegalLog(log[h], held_amount_msat(log[h])) /\ try_from_events(log[h]) = "Open"
        /\ log[h] # <<>>
    BY <1>2, <1>6 DEF LoadedFrom
  <2>2. /\ LegalLog(cmd.events, t.amt) /\ try_from_events(cmd.events) = "Held"
        /\ Len(cmd.events) = Len(log[h]) + 1 /\ cmd.events \in Seq(InvoiceEvent)
    <3>1. cmd = mark_held(log[h], t.amt)
      BY <1>6
    <3> HIDE DEF cmd, h, t
    <3>2. /\ LegalLog(cmd.events, t.amt) /\ try_from_events(cmd.events) = "Held"
          /\ Len(cmd.events) = Len(log[h]) + 1
      BY <1>3, <2>1, <3>1, HoldFacts
    <3> QED
      BY <3>2 DEF LegalLog
  <2>3. /\ held_amount_msat(log[h]) = 0 /\ Len(log[h]) = 1
    <3>1. Len(log[h]) = 1
      BY <2>1, LogFacts
    <3> QED
      BY <2>1, <3>1 DEF LegalLog
  <2>4. held_amount_msat(cmd.events) = t.amt /\ cmd.events # <<>>
    BY <2>2, <2>3, LogFacts
  <2>5. Grown(log[h], cmd.events)
    BY <2>2, <2>3 DEF Grown
  <2>6. Len(outbox[h]) = 0
    BY <1>3, <2>1, <2>3 DEF RowOK, Terminal
  <2>7. /\ Len(Append(outbox[h], out)) = 1 /\ Append(outbox[h], out) # <<>>
        /\ Append(outbox[h], out)[1] = out
    <3>1. h \in Hash
      BY <1>2
    <3> HIDE DEF h, out
    <3> QED
      BY <1>4, <2>6, <3>1, OutboxAppend
  <2>8. RowOK(cmd.events, Append(outbox[h], out), lnd[h], paid[h], crt[h], lst[h])
    <3> HIDE DEF cmd, h, t
    <3> QED
      BY <1>2, <1>3, <2>1, <2>2, <2>4, <2>7, Zenon DEF RowOK, Terminal
  <2> QED
    BY <2>1, <2>2, <2>5, <2>8
<1> HIDE DEF t, h, cmd, out, next
<1> QED
  BY <1>1, <1>2, <1>4, <1>5, <1>6, CommitKeeps

\* A log that settle or cancel closes: it keeps what it holds.
LEMMA CloseLog ==
    ASSUME NEW l, NEW a, LegalLog(l, a), NEW type \in {"Settled", "Canceled"}, NEW cmd,
           cmd = IF type = "Settled" THEN settle(l) ELSE cancel(l), cmd.result = "Executed"
    PROVE  /\ try_from_events(l) \in {"Open", "Held"} /\ l # <<>>
           /\ LegalLog(cmd.events, a) /\ try_from_events(cmd.events) = type
           /\ held_amount_msat(cmd.events) = a /\ a \in Nat
           /\ cmd.events \in Seq(InvoiceEvent) /\ cmd.events # <<>>
           /\ Grown(l, cmd.events) /\ ~Moved(cmd.events)
<1>1. /\ try_from_events(l) \in {"Open", "Held"} /\ LegalLog(cmd.events, a)
      /\ try_from_events(cmd.events) = type /\ Len(cmd.events) = Len(l) + 1
      /\ ~Moved(cmd.events)
  <2>1. CASE type = "Settled"
    <3>1. cmd = Command(l, {"Held"}, Event("Settled", 0))
      BY <2>1 DEF settle
    <3>2. {"Held"} \in SUBSET {"Open", "Held"}
      OBVIOUS
    <3> QED
      BY <2>1, <3>1, <3>2, CloseFacts
  <2>2. CASE type = "Canceled"
    <3>1. cmd = Command(l, {"Open", "Held"}, Event("Canceled", 0))
      BY <2>2 DEF cancel
    <3> QED
      BY <2>2, <3>1, CloseFacts
  <2> QED
    BY <2>1, <2>2
<1>2. /\ held_amount_msat(l) = a /\ a \in Nat /\ Len(l) \in 0..3
      /\ try_from_events(l) = "Absent" <=> Len(l) = 0
      /\ l = <<>> <=> Len(l) = 0
  BY LogFacts
<1>3. /\ held_amount_msat(cmd.events) = a /\ cmd.events \in Seq(InvoiceEvent)
      /\ cmd.events = <<>> <=> Len(cmd.events) = 0
  BY <1>1, LogFacts, Zenon DEF LegalLog
<1>4. try_from_events(l) \in {"Open", "Held"} /\ Len(l) # 0
  BY <1>1, <1>2
<1>5. Len(l) < Len(cmd.events) /\ Len(cmd.events) # 0
  BY <1>1, <1>2
<1> QED
  BY <1>1, <1>2, <1>3, <1>4, <1>5 DEF Grown

\* commit_settle and commit_cancel: the row ends the way LND did.
LEMMA CloseStep ==
    ASSUME IInv, NEW w \in Worker, commit_settle(w) \/ commit_cancel(w)
    PROVE  IInv'
<1> USE DEF IInv
<1> DEFINE t == wk[w]
           h == t.hash
           type == lnd[h]
           cmd == IF type = "Settled" THEN settle(t.ent) ELSE cancel(t.ent)
           kind == IF type = "Settled" THEN "LightningInvoiceSettled"
                   ELSE "LightningInvoiceCanceled"
           out == OutboxRow(kind, t.amt, held_amount_msat(t.ent))
<1>1. /\ h \in Hash /\ t \in Task /\ LoadedFrom(t.ent, log[h])
      /\ type \in {"Settled", "Canceled"} /\ Commit(w, h, t.ent, cmd, out, Idle)
      /\ UNCHANGED <<lnd, paid, crt, lst, strm, chan, recovery>>
  <2>1. CASE commit_settle(w)
    <3>1. t.pc = "settle"
      BY <2>1 DEF commit_settle
    <3>2. h \in Hash /\ t \in Task /\ LoadedFrom(t.ent, log[h]) /\ type = "Settled"
      BY <3>1 DEF TasksKnow, TaskOK
    <3> QED
      BY <2>1, <3>2, Zenon DEF commit_settle
  <2>2. CASE commit_cancel(w)
    <3>1. t.pc = "cancel"
      BY <2>2 DEF commit_cancel
    <3>2. h \in Hash /\ t \in Task /\ LoadedFrom(t.ent, log[h]) /\ type = "Canceled"
      BY <3>1 DEF TasksKnow, TaskOK
    <3> QED
      BY <2>2, <3>2, Zenon DEF commit_cancel
  <2> QED
    BY <2>1, <2>2
<1>2. /\ t.amt \in 0..MaxAmt /\ held_amount_msat(t.ent) \in 0..MaxAmt
      /\ RowOK(log[h], outbox[h], lnd[h], paid[h], crt[h], lst[h])
      /\ LegalLog(t.ent, held_amount_msat(t.ent))
  BY <1>1, Zenon DEF Task, RowsOK, LoadedFrom, LegalLog
<1>3. /\ out \in OutboxRows /\ out.type = kind /\ out.held = held_amount_msat(t.ent)
  BY <1>2, Zenon DEF OutboxRow, OutboxRows, OutboxEvent
<1>4. \A row : TaskOK(Idle, row, lnd[Idle.hash], paid[Idle.hash])
  BY IdleKnows
<1>5. ASSUME cmd.result = "Executed", t.ent = log[h]
      PROVE  /\ cmd.events \in Seq(InvoiceEvent) /\ Grown(log[h], cmd.events)
             /\ try_from_events(log[h]) \in {"Open", "Held"}
             /\ RowOK(cmd.events, Append(outbox[h], out), lnd[h], paid[h], crt[h], lst[h])
  <2> DEFINE a == held_amount_msat(log[h])
  <2>1. /\ try_from_events(log[h]) \in {"Open", "Held"} /\ log[h] # <<>>
        /\ LegalLog(cmd.events, a) /\ try_from_events(cmd.events) = type
        /\ held_amount_msat(cmd.events) = a /\ a \in Nat
        /\ cmd.events \in Seq(InvoiceEvent) /\ cmd.events # <<>>
        /\ Grown(log[h], cmd.events) /\ ~Moved(cmd.events)
    <3>1. LegalLog(log[h], a)
      BY <1>2, <1>5
    <3>2. type \in {"Settled", "Canceled"}
      BY <1>1
    <3>3. cmd = IF type = "Settled" THEN settle(log[h]) ELSE cancel(log[h])
      BY <1>5
    <3> HIDE DEF type, h, t, a, cmd
    <3> QED
      BY <1>5, <3>1, <3>2, <3>3, CloseLog
  <2>2. /\ Len(outbox[h]) = IF a = 0 THEN 0 ELSE 1
        /\ a # 0 => outbox[h][1] = OutboxRow("LightningHtlcHeld", a, 0)
    BY <1>2, <2>1, Zenon DEF RowOK, Terminal
  <2>3. /\ Append(outbox[h], out) # <<>> /\ Len(Append(outbox[h], out)) = Len(outbox[h]) + 1
        /\ Append(outbox[h], out)[Len(outbox[h]) + 1] = out
        /\ a # 0 => Append(outbox[h], out)[1] = outbox[h][1]
    <3> HIDE DEF out, h, a
    <3>1. a # 0 => 1 \in 1..Len(outbox[h])
      BY <2>2
    <3> QED
      BY <1>1, <1>3, <3>1, OutboxAppend, Zenon
  <2>4. RowOK(cmd.events, Append(outbox[h], out), lnd[h], paid[h], crt[h], lst[h])
    <3> HIDE DEF cmd, h, t, out, a
    <3> QED
      BY <1>1, <1>2, <1>3, <1>5, <2>1, <2>2, <2>3, Zenon DEF RowOK, Terminal, a
  <2> QED
    BY <2>1, <2>4, Zenon
<1> HIDE DEF t, h, cmd, out
<1> QED
  BY <1>1, <1>3, <1>4, <1>5, CommitKeeps, Zenon

------------------------------------------------------------------------------
(* Boot and crash *)

\* The recovery sweep: every row it lists and loads is watched again.
LEMMA RecoverStep ==
    ASSUME IInv, recovery_sweep
    PROVE  IInv'
<1> USE DEF IInv
<1>1. PICK hs \in SUBSET list_open_invoices :
         spawn_listener_for(hs) /\ lost' = lost \cup (list_open_invoices \ hs)
  BY DEF recovery_sweep
<1>2. recovery' = "finished" /\ UNCHANGED <<log, outbox, lnd, paid, crt, strm, chan, wk>>
  BY DEF recovery_sweep
<1>3. /\ lst' \in [Hash -> {"off", "connecting", "open"}]
      /\ \A g \in Hash : lst[g] # "off" => lst'[g] = lst[g]
      /\ \A g \in Hash : g \in hs => lst'[g] # "off"
      /\ \A g \in Hash : g \notin hs => lst'[g] = lst[g]
  BY <1>1, SpawnFacts
<1>4. TypeOK'
  BY <1>1, <1>2, <1>3 DEF TypeOK, list_open_invoices
<1>5. RowsOK'
  <2>1. SUFFICES ASSUME NEW g \in Hash
                 PROVE  RowOK(log[g], outbox[g], lnd[g], paid[g], crt[g], lst'[g])
    BY <1>2 DEF RowsOK
  <2>2. RowOK(log[g], outbox[g], lnd[g], paid[g], crt[g], lst[g])
    BY DEF RowsOK
  <2>3. lst'[g] = lst[g] \/ log[g] # <<>>
    BY <1>1, <1>3 DEF list_open_invoices, State, try_from_events
  <2> QED
    BY <2>2, <2>3 DEF RowOK
<1>6. Moves
  BY <1>2, StandStill
<1>7. UpdatesTrue' /\ TasksKnow'
  BY <1>2, <1>6, UpdatesStay, TasksStay
<1>8. ReturnedIsWatched'
  BY <1>1, <1>2, <1>3 DEF ReturnedIsWatched, State, list_open_invoices
<1> QED
  BY <1>4, <1>5, <1>7, <1>8

\* A crash leaves the rows and LND, and nothing that could contradict them.
LEMMA CrashStep ==
    ASSUME IInv, Crash
    PROVE  IInv'
<1> USE DEF IInv
<1>1. /\ crt' = [h \in Hash |-> IF crt[h] = "create" THEN "failed" ELSE crt[h]]
      /\ lst' = [h \in Hash |-> "off"] /\ strm' = [h \in Hash |-> <<>>] /\ chan' = <<>>
      /\ wk' = [w \in Worker |-> Idle]
      /\ lost' = IF recovery = "finished" THEN list_open_invoices ELSE {}
      /\ UNCHANGED <<log, outbox, lnd, paid, recovery>>
  BY DEF Crash
<1>2. Idle \in Task /\ ChanCap \in Nat
  BY IdleKnows, ConstantsAssumption DEF TaskOK
<1>3. TypeOK'
  <2>1. crt' \in [Hash -> {"none", "create", "returned", "failed"}]
    BY <1>1 DEF TypeOK
  <2>2. strm' \in [Hash -> Seq(InvoiceUpdate)] /\ chan' \in Seq(InvoiceUpdate) /\ Len(chan') <= ChanCap
    BY <1>1, <1>2
  <2> QED
    BY <1>1, <1>2, <2>1, <2>2 DEF TypeOK, list_open_invoices
<1>4. RowsOK'
  <2>1. SUFFICES ASSUME NEW g \in Hash
                 PROVE  RowOK(log[g], outbox[g], lnd[g], paid[g], crt'[g], "off")
    BY <1>1 DEF RowsOK
  <2>2. RowOK(log[g], outbox[g], lnd[g], paid[g], crt[g], lst[g])
    BY DEF RowsOK
  <2>3. crt'[g] = crt[g] \/ (crt[g] = "create" /\ crt'[g] = "failed")
    BY <1>1
  <2> QED
    BY <2>2, <2>3 DEF RowOK
<1>5. UpdatesTrue'
  BY <1>1 DEF UpdatesTrue
<1>6. TasksKnow'
  BY <1>1, IdleKnows DEF TasksKnow
<1>7. ReturnedIsWatched'
  BY <1>1 DEF ReturnedIsWatched, State, list_open_invoices
<1> QED
  BY <1>3, <1>4, <1>5, <1>6, <1>7

------------------------------------------------------------------------------
(* The invariant holds *)

\* No row, no invoice, nothing under way.
LEMMA InitHolds ==
    ASSUME Init
    PROVE  IInv
<1>1. MaxAmt \in Nat /\ ChanCap \in Nat /\ Idle \in Task /\ Idle.pc = "idle"
  BY IdleKnows, ConstantsAssumption DEF TaskOK
<1>2. TypeOK
  <2>1. chan \in Seq(InvoiceUpdate) /\ Len(chan) <= ChanCap /\ 0 \in 0..MaxAmt
    BY <1>1 DEF Init
  <2> QED
    BY <1>1, <2>1 DEF Init, TypeOK
<1>3. RowsOK
  <2>1. held_amount_msat(<<>>) = 0 /\ try_from_events(<<>>) = "Absent"
    BY DEF held_amount_msat, Occurrences, try_from_events
  <2>2. LegalLog(<<>>, 0)
    BY <1>1 DEF LegalLog
  <2>3. RowOK(<<>>, <<>>, "None", 0, "none", "off")
    BY <2>1, <2>2 DEF RowOK, Terminal
  <2> QED
    BY <2>3 DEF Init, RowsOK
<1>4. UpdatesTrue
  BY DEF Init, UpdatesTrue
<1>5. TasksKnow
  BY IdleKnows DEF Init, TasksKnow
<1>6. ReturnedIsWatched
  BY DEF Init, ReturnedIsWatched
<1> QED
  BY <1>2, <1>3, <1>4, <1>5, <1>6 DEF IInv

\* A payer parks a first HTLC, or one more, or LND gives the invoice up.
LEMMA LndKeeps ==
    ASSUME IInv, NEW h \in Hash,
           (\E a \in 1..MaxAmt : LndAccept(h, a)) \/ LndOverpay(h) \/ LndCancel(h)
    PROVE  IInv'
<1>1. paid[h] \in 0..MaxAmt /\ MaxAmt \in Nat
  BY ConstantsAssumption DEF IInv, TypeOK
<1>2. /\ lnd[h] = "Open" => paid[h] = 0
      /\ lnd[h] = "Accepted" => crt[h] = "returned"
  BY DEF IInv, RowsOK, RowOK
<1>3. ASSUME NEW a \in 1..MaxAmt, LndAccept(h, a) PROVE IInv'
  <2>1. a # 0 /\ a \in 0..MaxAmt /\ 0 <= a
    BY <1>1
  <2>2. paid[h] <= a
    BY <1>2, <1>3, <2>1 DEF LndAccept
  <2> QED
    BY <1>3, <2>1, <2>2, LndStep, Zenon DEF LndAccept
<1>4. CASE LndOverpay(h)
  <2>1. lnd[h] = "Accepted" /\ lnd' = lnd /\ crt[h] = "returned" /\ paid[h] < MaxAmt
    BY <1>2, <1>4 DEF LndOverpay
  <2>2. lnd' = [lnd EXCEPT ![h] = "Accepted"]
    BY <2>1 DEF IInv, TypeOK
  <2>3. paid[h] + 1 \in 0..MaxAmt /\ paid[h] + 1 # 0 /\ paid[h] <= paid[h] + 1
    BY <1>1, <2>1
  <2> QED
    BY <1>4, <2>1, <2>2, <2>3, LndStep, Zenon DEF LndOverpay
<1>5. CASE LndCancel(h)
  <2>1. 0 \in 0..MaxAmt
    BY <1>1
  <2> QED
    BY <1>5, <2>1, LndStep, Zenon DEF LndCancel
<1> QED
  BY <1>3, <1>4, <1>5

\* Every step keeps the invariant.
LEMMA NextKeeps ==
    ASSUME IInv, [Next]_vars
    PROVE  IInv'
<1>1. ASSUME NEW h \in Hash, add_hold_invoice(h) \/ create(h) PROVE IInv'
  BY <1>1, AddStep, CreateStep
<1>2. ASSUME NEW h \in Hash, Subscribe(h) \/ StreamEnds(h) \/ drive_stream(h) PROVE IInv'
  BY <1>2, StreamStep, DriveStep
<1>3. ASSUME NEW h \in Hash,
             (\E a \in 1..MaxAmt : LndAccept(h, a)) \/ LndOverpay(h) \/ LndCancel(h)
      PROVE  IInv'
  BY <1>3, LndKeeps
<1>4. ASSUME NEW h \in Hash, reconcile_held_invoice(h) PROVE IInv'
  <2>1. "sweep" \in Worker
    BY DEF Worker
  <2> QED
    BY <1>4, <2>1, LoadStep DEF reconcile_held_invoice
<1>5. CASE settle_hold_invoice
  <2>1. "consumer" \in Worker /\ wk["consumer"].pc = "load"
    BY <1>5 DEF Worker, settle_hold_invoice
  <2>2. wk["consumer"].hash \in Hash
    BY <2>1 DEF IInv, TasksKnow, TaskOK
  <2> QED
    BY <1>5, <2>1, <2>2, LoadStep DEF settle_hold_invoice
<1>6. ASSUME NEW w \in Worker, TaskStep(w) PROVE IInv'
  BY <1>6, HoldStep, LookupStep, SettleStep, CloseStep DEF TaskStep
<1>7. CASE UNCHANGED vars
  <2>1. UNCHANGED <<log, outbox, lnd, paid, crt, lst, strm, chan, wk, recovery, lost>>
    BY <1>7 DEF vars
  <2>2. TypeOK' /\ RowsOK' /\ UpdatesTrue' /\ TasksKnow'
    BY <2>1, Zenon DEF IInv, TypeOK, RowsOK, UpdatesTrue, TasksKnow
  <2>3. ReturnedIsWatched'
    BY <2>1 DEF IInv, ReturnedIsWatched, State
  <2> QED
    BY <2>2, <2>3 DEF IInv
<1> QED
  BY <1>1, <1>2, <1>3, <1>4, <1>5, <1>6, <1>7, HandleStep, RecoverStep, CrashStep
  DEF Next, GatewayStep

\* The invariant holds in every reachable state.
THEOREM Inductive == Spec => []IInv
BY InitHolds, NextKeeps, PTL DEF Spec

\* Rows, channels and tasks keep their types, and the update channel its bound.
THEOREM InvoiceTypes == Spec => []TypeOK
<1>1. IInv => TypeOK
  BY DEF IInv
<1> QED
  BY <1>1, Inductive, PTL

\* What the invariant says about the rows of a single state.
LEMMA InvPromises ==
    ASSUME IInv
    PROVE  HeldBeforeSettle /\ PayableHasRow /\ ReturnedIsWatched
<1>1. ASSUME NEW h \in Hash, lnd[h] = "Settled"
      PROVE  /\ Occurrences(log[h], "HtlcHeld") # {}
             /\ outbox[h] # <<>> /\ outbox[h][1].type = "LightningHtlcHeld"
  <2>1. RowOK(log[h], outbox[h], lnd[h], paid[h], crt[h], lst[h])
    BY <1>1 DEF IInv, RowsOK
  <2>2. LegalLog(log[h], held_amount_msat(log[h])) /\ held_amount_msat(log[h]) # 0
    BY <1>1, <2>1 DEF RowOK
  <2>3. Occurrences(log[h], "HtlcHeld") # {}
    BY <2>2, LogFacts
  <2>4. outbox[h] # <<>> /\ outbox[h][1].type = "LightningHtlcHeld"
    BY <2>1, <2>2 DEF RowOK, OutboxRow
  <2> QED
    BY <2>3, <2>4
<1>2. HeldBeforeSettle
  BY <1>1 DEF HeldBeforeSettle
<1>3. PayableHasRow
  BY DEF IInv, RowsOK, RowOK, PayableHasRow
<1>4. ReturnedIsWatched
  BY DEF IInv
<1> QED
  BY <1>2, <1>3, <1>4

\* SettleInvoice releases a preimage only after the hold is durable and announced.
THEOREM HoldPrecedesSettle == Spec => []HeldBeforeSettle
BY InvPromises, Inductive, PTL

\* An HTLC that LND holds or has settled belongs to a row.
THEOREM PayableRecorded == Spec => []PayableHasRow
BY InvPromises, Inductive, PTL

\* No open row of a returned invoice loses its listener while the process is up.
THEOREM Watched == Spec => []ReturnedIsWatched
BY InvPromises, Inductive, PTL

------------------------------------------------------------------------------
(* Rows are extended, never rewritten *)

\* One event more, and not a transfer, in a row that is not terminal.
Extends(h) ==
    /\ State(h) \in {"Open", "Held"}
    /\ \E e \in InvoiceEvent :
          e.type # "SettledIntraledger" /\ log' = [log EXCEPT ![h] = Append(log[h], e)]

\* A commit writes what its command appended to the row it loaded, or nothing.
LEMMA CommitWrites ==
    ASSUME IInv, NEW w \in Worker, NEW h \in Hash, NEW base, NEW cmd, NEW out, NEW next,
           LoadedFrom(base, log[h]), Commit(w, h, base, cmd, out, next)
    PROVE  \/ UNCHANGED <<log, outbox>>
           \/ /\ cmd.result = "Executed" /\ base = log[h]
              /\ log' = [log EXCEPT ![h] = cmd.events]
              /\ outbox' = [outbox EXCEPT ![h] = Append(outbox[h], out)]
<1>1. CommitTx(h, base, cmd, out) \/ UNCHANGED <<log, outbox>>
  BY DEF Commit
<1>2. ASSUME CommitTx(h, base, cmd, out)
      PROVE  /\ cmd.result = "Executed" /\ base = log[h]
             /\ log' = [log EXCEPT ![h] = cmd.events]
             /\ outbox' = [outbox EXCEPT ![h] = Append(outbox[h], out)]
  <2>1. Len(log[h]) = Len(base)
    BY <1>2 DEF CommitTx, update_in_op
  <2> QED
    BY <1>2, <2>1 DEF CommitTx, update_in_op, LoadedFrom
<1> QED
  BY <1>1, <1>2

\* What the row of an open invoice says about its outbox and LND.
LEMMA OpenRow ==
    ASSUME IInv, NEW h \in Hash, State(h) \in {"Open", "Held"}
    PROVE  /\ held_amount_msat(log[h]) = 0 =>
                 outbox[h] = <<>> /\ lnd[h] # "Settled" /\ State(h) = "Open"
           /\ held_amount_msat(log[h]) # 0 =>
                 /\ State(h) = "Held" /\ Ledger!Reserved(h)
                 /\ Ledger!Reservation(h) = held_amount_msat(log[h])
           /\ held_amount_msat(log[h]) \in 0..MaxAmt
<1>1. RowOK(log[h], outbox[h], lnd[h], paid[h], crt[h], lst[h])
  BY DEF IInv, RowsOK
<1>2. /\ LegalLog(log[h], held_amount_msat(log[h]))
      /\ State(h) \notin Terminal /\ try_from_events(log[h]) = State(h)
      /\ outbox[h] \in Seq(OutboxRows)
  BY <1>1 DEF RowOK, State, Terminal, IInv, TypeOK
<1>3. State(h) = "Open" <=> held_amount_msat(log[h]) = 0
  <2>1. /\ State(h) = "Open" <=> Len(log[h]) = 1
        /\ State(h) = "Held" <=> Len(log[h]) = 2 /\ held_amount_msat(log[h]) # 0
    BY <1>2, LogFacts
  <2> QED
    BY <1>2, <2>1 DEF LegalLog
<1>4. CASE held_amount_msat(log[h]) = 0
  <2>1. Len(outbox[h]) = 0 /\ lnd[h] # "Settled"
    BY <1>1, <1>2, <1>4 DEF RowOK
  <2>2. outbox[h] = <<>>
    BY <1>2, <2>1
  <2> QED
    BY <1>2, <1>3, <1>4, <2>1, <2>2 DEF LegalLog
<1>5. CASE held_amount_msat(log[h]) # 0
  <2>1. /\ Len(outbox[h]) = 1
        /\ outbox[h][1] = OutboxRow("LightningHtlcHeld", held_amount_msat(log[h]), 0)
    BY <1>1, <1>2, <1>5 DEF RowOK
  <2>2. Ledger!Reserved(h) /\ Ledger!Reservation(h) = held_amount_msat(log[h])
    BY <2>1 DEF OutboxRow, Ledger!Reserved, Ledger!Reservation
  <2> QED
    BY <1>2, <1>3, <1>5, <2>2 DEF LegalLog
<1> QED
  BY <1>4, <1>5

\* transition_to_held reserves the amount of an HTLC LND has parked.
LEMMA HoldWrites ==
    ASSUME IInv, NEW w \in Worker, transition_to_held(w)
    PROVE  /\ UNCHANGED <<lnd, paid>>
           /\ \/ UNCHANGED <<log, outbox>>
              \/ \E h \in Hash : Extends(h) /\ Ledger!Reserve(h)
<1> DEFINE t == wk[w]
           h == t.hash
           cmd == mark_held(t.ent, t.amt)
           out == OutboxRow("LightningHtlcHeld", t.amt, 0)
           next == [pc |-> "load", hash |-> h, ent |-> <<>>, amt |-> 0]
<1>1. /\ t.pc = "hold" /\ Commit(w, h, t.ent, cmd, out, next) /\ UNCHANGED <<lnd, paid>>
  BY Zenon DEF transition_to_held
<1>2. /\ h \in Hash /\ t \in Task /\ LoadedFrom(t.ent, log[h])
      /\ try_from_events(t.ent) = "Open" /\ t.amt # 0
      /\ lnd[h] \in {"Accepted", "Settled", "Canceled"}
  BY <1>1, Zenon DEF IInv, TasksKnow, TaskOK
<1>3. t.amt \in 0..MaxAmt /\ MaxAmt \in Nat
  BY <1>2, ConstantsAssumption DEF Task
<1>4. SUFFICES ASSUME ~UNCHANGED <<log, outbox>> PROVE Extends(h) /\ Ledger!Reserve(h)
  BY <1>1, <1>2
<1>5. /\ cmd.result = "Executed" /\ t.ent = log[h]
      /\ log' = [log EXCEPT ![h] = cmd.events]
      /\ outbox' = [outbox EXCEPT ![h] = Append(outbox[h], out)]
  <2> HIDE DEF t, h, cmd, out, next
  <2> QED
    BY <1>1, <1>2, <1>4, CommitWrites
<1>6. State(h) = "Open"
  BY <1>2, <1>5 DEF State
<1>7. Extends(h)
  <2>1. cmd.events = Append(log[h], Event("HtlcHeld", t.amt))
    BY <1>5, Zenon DEF mark_held, Command
  <2>2. /\ Event("HtlcHeld", t.amt) \in InvoiceEvent
        /\ Event("HtlcHeld", t.amt).type # "SettledIntraledger"
    BY <1>3, EventTypes DEF InvoiceEventType
  <2> HIDE DEF t, h, cmd
  <2> QED
    BY <1>5, <1>6, <2>1, <2>2, Zenon DEF Extends
<1>8. Ledger!Reserve(h)
  <2>1. outbox[h] = <<>> /\ lnd[h] # "Settled"
    BY <1>2, <1>6, OpenRow, Zenon
  <2>2. t.amt \in 1..MaxAmt
    <3> HIDE DEF t
    <3> QED
      BY <1>2, <1>3
  <2>3. outbox' = [outbox EXCEPT ![h] = <<Ledger!Row("LightningHtlcHeld", t.amt, 0)>>]
    <3>1. Append(<<>>, out) = <<out>>
      OBVIOUS
    <3>2. out = Ledger!Row("LightningHtlcHeld", t.amt, 0)
      BY DEF OutboxRow, Ledger!Row
    <3> HIDE DEF out, h, t
    <3> QED
      BY <1>5, <2>1, <3>1, <3>2
  <2> HIDE DEF t, h
  <2> QED
    BY <1>1, <1>2, <2>1, <2>2, <2>3, Zenon DEF Ledger!Reserve
<1> QED
  BY <1>7, <1>8

\* commit_settle credits what LND settled, commit_cancel releases what it canceled.
LEMMA CloseWrites ==
    ASSUME IInv, NEW w \in Worker, commit_settle(w) \/ commit_cancel(w)
    PROVE  /\ UNCHANGED <<lnd, paid>>
           /\ \/ UNCHANGED <<log, outbox>>
              \/ \E h \in Hash : Extends(h) /\ (Ledger!Credit(h) \/ Ledger!Release(h))
<1> DEFINE t == wk[w]
           h == t.hash
           b == held_amount_msat(t.ent)
           type == lnd[h]
           cmd == IF type = "Settled" THEN settle(t.ent) ELSE cancel(t.ent)
           kind == IF type = "Settled" THEN "LightningInvoiceSettled"
                   ELSE "LightningInvoiceCanceled"
           out == OutboxRow(kind, t.amt, b)
<1>1. /\ h \in Hash /\ t \in Task /\ LoadedFrom(t.ent, log[h])
      /\ type \in {"Settled", "Canceled"} /\ Commit(w, h, t.ent, cmd, out, Idle)
      /\ type = "Settled" => b <= t.amt /\ t.amt <= paid[h]
      /\ UNCHANGED <<lnd, paid>>
  <2>1. CASE commit_settle(w)
    <3>1. t.pc = "settle"
      BY <2>1, Zenon DEF commit_settle
    <3>2. h \in Hash /\ t \in Task /\ LoadedFrom(t.ent, log[h]) /\ type = "Settled"
          /\ b <= t.amt /\ t.amt <= paid[h]
      BY <3>1 DEF IInv, TasksKnow, TaskOK
    <3> QED
      BY <2>1, <3>2, Zenon DEF commit_settle
  <2>2. CASE commit_cancel(w)
    <3>1. t.pc = "cancel"
      BY <2>2 DEF commit_cancel
    <3>2. h \in Hash /\ t \in Task /\ LoadedFrom(t.ent, log[h]) /\ type = "Canceled"
      BY <3>1 DEF IInv, TasksKnow, TaskOK
    <3> QED
      BY <2>2, <3>2, Zenon DEF commit_cancel
  <2> QED
    BY <2>1, <2>2, Zenon
<1>2. t.amt \in 0..MaxAmt /\ paid[h] \in 0..MaxAmt /\ MaxAmt \in Nat
  BY <1>1, ConstantsAssumption, Zenon DEF Task, IInv, TypeOK
<1>3. SUFFICES ASSUME ~UNCHANGED <<log, outbox>>
               PROVE  Extends(h) /\ (Ledger!Credit(h) \/ Ledger!Release(h))
  BY <1>1, Zenon
<1>4. /\ cmd.result = "Executed" /\ t.ent = log[h]
      /\ log' = [log EXCEPT ![h] = cmd.events]
      /\ outbox' = [outbox EXCEPT ![h] = Append(outbox[h], out)]
  <2> HIDE DEF t, h, cmd, out
  <2> QED
    BY <1>1, <1>3, CommitWrites
<1>5. /\ State(h) \in {"Open", "Held"} /\ (type = "Settled" => State(h) = "Held")
      /\ cmd.events = Append(log[h], Event(type, 0))
  <2>1. CASE type = "Settled"
    BY <1>4, <2>1, Zenon DEF settle, Command, State
  <2>2. CASE type = "Canceled"
    BY <1>4, <2>2, Zenon DEF cancel, Command, State
  <2> QED
    BY <1>1, <2>1, <2>2, Zenon
<1>6. Extends(h)
  <2>1. Event(type, 0) \in InvoiceEvent /\ Event(type, 0).type # "SettledIntraledger"
    BY <1>1, EventTypes, Zenon DEF InvoiceEventType
  <2> HIDE DEF t, h, cmd, type
  <2> QED
    BY <1>4, <1>5, <2>1, Zenon DEF Extends
<1>7. /\ b = 0 => outbox[h] = <<>> /\ State(h) = "Open"
      /\ b # 0 => Ledger!Reserved(h) /\ Ledger!Reservation(h) = b
      /\ b \in 0..MaxAmt
  BY <1>1, <1>4, <1>5, OpenRow, Zenon
<1>8. out = Ledger!Row(kind, t.amt, b)
  BY DEF OutboxRow, Ledger!Row
<1>9. CASE type = "Settled"
  <2>1. b # 0 /\ kind = "LightningInvoiceSettled"
    BY <1>5, <1>7, <1>9
  <2>2. t.amt \in b..paid[h]
    <3>1. b <= t.amt /\ t.amt <= paid[h]
      BY <1>1, <1>9, Zenon
    <3> HIDE DEF t, h, b
    <3> QED
      BY <1>2, <1>7, <3>1
  <2> HIDE DEF t, h, b, out, kind
  <2>3. Ledger!Credit(h)
    BY <1>1, <1>4, <1>7, <1>8, <1>9, <2>1, <2>2, Zenon DEF Ledger!Credit, type
  <2> QED
    BY <1>6, <2>3
<1>10. CASE type = "Canceled"
  <2>1. kind = "LightningInvoiceCanceled"
    BY <1>10
  <2>2. b = IF outbox[h] = <<>> THEN 0 ELSE Ledger!Reservation(h)
    <3>1. Ledger!Reserved(h) => outbox[h] # <<>>
      BY DEF Ledger!Reserved
    <3> HIDE DEF h, b
    <3> QED
      BY <1>7, <3>1
  <2> HIDE DEF t, h, b, out, kind
  <2>3. Ledger!Release(h)
    BY <1>1, <1>2, <1>4, <1>7, <1>8, <1>10, <2>1, <2>2, Zenon DEF Ledger!Release, type
  <2> QED
    BY <1>6, <2>3
<1> QED
  BY <1>1, <1>9, <1>10, Zenon

\* What a step does to the rows: nothing, a new row, or one event more in a row
\* that is not terminal.
LEMMA RowEffect ==
    ASSUME IInv, [Next]_vars
    PROVE  \/ UNCHANGED <<log, outbox>>
           \/ /\ UNCHANGED outbox
              /\ \E h \in Hash : log[h] = <<>> /\ log' = [log EXCEPT ![h] = into_events]
           \/ \E h \in Hash : /\ Extends(h)
                              /\ \E q : outbox' = [outbox EXCEPT ![h] = q]
<1>1. ASSUME NEW h \in Hash, create(h)
      PROVE  /\ UNCHANGED outbox
             /\ log' = log \/ (log[h] = <<>> /\ log' = [log EXCEPT ![h] = into_events])
  <2>1. log[h] = <<>>
    BY <1>1, Zenon DEF create, IInv, RowsOK, RowOK
  <2> QED
    BY <1>1, <2>1 DEF create
<1>2. ASSUME NEW w \in Worker, transition_to_held(w) \/ commit_settle(w) \/ commit_cancel(w)
      PROVE  \/ UNCHANGED <<log, outbox>>
             \/ \E h \in Hash : /\ Extends(h)
                                /\ \E q : outbox' = [outbox EXCEPT ![h] = q]
  BY <1>2, HoldWrites, CloseWrites, Zenon DEF Ledger!Reserve, Ledger!Credit, Ledger!Release
<1>3. ASSUME NEW w \in Worker, lookup_invoice(w) \/ settle_invoice(w)
      PROVE  UNCHANGED <<log, outbox>>
  BY <1>3 DEF lookup_invoice, settle_invoice
<1>4. ASSUME NEW h \in Hash,
             \/ add_hold_invoice(h) \/ Subscribe(h) \/ StreamEnds(h) \/ drive_stream(h)
             \/ reconcile_held_invoice(h) \/ (\E a \in 1..MaxAmt : LndAccept(h, a))
             \/ LndOverpay(h) \/ LndCancel(h)
      PROVE  UNCHANGED <<log, outbox>>
  BY <1>4, Zenon DEF add_hold_invoice, Subscribe, StreamEnds, drive_stream, reconcile_held_invoice,
              LndAccept, LndOverpay, LndCancel
<1>5. ASSUME handle_invoice_update \/ settle_hold_invoice \/ recovery_sweep \/ Crash
             \/ UNCHANGED vars
      PROVE  UNCHANGED <<log, outbox>>
  BY <1>5, Zenon DEF handle_invoice_update, settle_hold_invoice, recovery_sweep, Crash, vars
<1> QED
  BY <1>1, <1>2, <1>3, <1>4, <1>5 DEF Next, GatewayStep, TaskStep

\* No step of HoldInvoice settles a row by a transfer, or undoes one.
LEMMA MovedStays ==
    ASSUME IInv, [Next]_vars, NEW g \in Hash
    PROVE  Moved(log'[g]) <=> Moved(log[g])
<1>1. /\ log \in [Hash -> Seq(InvoiceEvent)] /\ LegalLog(log[g], held_amount_msat(log[g]))
  BY DEF IInv, TypeOK, RowsOK, RowOK
<1>2. CASE log'[g] = log[g]
  BY <1>2
<1>3. CASE log[g] = <<>> /\ log' = [log EXCEPT ![g] = into_events]
  <2>1. log'[g] = into_events /\ Len(into_events) = 1 /\ Len(log[g]) = 0
    BY <1>1, <1>3, NewLog
  <2> QED
    BY <2>1 DEF Moved
<1>4. CASE Extends(g)
  <2>1. PICK e \in InvoiceEvent :
           e.type # "SettledIntraledger" /\ log' = [log EXCEPT ![g] = Append(log[g], e)]
    BY <1>4, Zenon DEF Extends
  <2>2. /\ log'[g] = Append(log[g], e) /\ Len(log[g]) \in Nat
        /\ Len(log'[g]) = Len(log[g]) + 1 /\ log'[g][Len(log[g]) + 1] = e
    BY <1>1, <2>1, AppendEvent
  <2>3. ~Moved(log'[g])
    BY <2>1, <2>2 DEF Moved
  <2>4. ~Moved(log[g])
    BY <1>1, <1>4, LogFacts DEF Extends, State
  <2> QED
    BY <2>3, <2>4
<1> QED
  BY <1>1, <1>2, <1>3, <1>4, RowEffect, Zenon DEF Extends

\* On its own, HoldInvoice settles only what LND settled.
LEMMA NoTransfers == Spec => [](\A h \in Hash : ~Moved(log[h]))
<1>1. Init => \A h \in Hash : ~Moved(log[h])
  <2>1. Len(<<>>) = 0
    OBVIOUS
  <2> QED
    BY <2>1 DEF Init, Moved
<1>2. (\A h \in Hash : ~Moved(log[h])) /\ IInv /\ [Next]_vars
         => (\A h \in Hash : ~Moved(log[h]))'
  BY MovedStays
<1> QED
  BY <1>1, <1>2, Inductive, PTL DEF Spec

\* A row never contradicts LND, whatever stale update or lookup it was written from.
THEOREM RowsAgree == Spec => []RowAgreesWithLnd
<1>1. IInv /\ (\A h \in Hash : ~Moved(log[h])) => RowAgreesWithLnd
  BY DEF IInv, RowsOK, RowOK, RowAgreesWithLnd, State, Terminal
<1> QED
  BY <1>1, Inductive, NoTransfers, PTL

\* The pending layer nets to zero: one reservation, closed once, for its amount.
THEOREM PendingBalances == Spec => []PendingNets
<1>1. IInv /\ (\A h \in Hash : ~Moved(log[h])) => PendingNets
  BY DEF IInv, RowsOK, RowOK, PendingNets, State
<1> QED
  BY <1>1, Inductive, NoTransfers, PTL

------------------------------------------------------------------------------
(* Logs only grow *)

\* A log is a prefix of itself, and of what one event more makes of it.
LEMMA Prefixes ==
    ASSUME NEW l \in Seq(InvoiceEvent), NEW e \in InvoiceEvent
    PROVE  /\ SubSeq(l, 1, Len(l)) = l
           /\ SubSeq(Append(l, e), 1, Len(l)) = l
           /\ SubSeq(into_events, 1, 0) = <<>>
<1>1. /\ into_events \in Seq(InvoiceEvent) /\ Append(l, e) \in Seq(InvoiceEvent)
      /\ Len(l) \in Nat /\ Len(Append(l, e)) = Len(l) + 1
      /\ \A i \in 1..Len(l) : Append(l, e)[i] = l[i]
  BY NewLog DEF LegalLog
<1>2. ASSUME NEW q \in Seq(InvoiceEvent), Len(l) <= Len(q), \A i \in 1..Len(l) : q[i] = l[i]
      PROVE  SubSeq(q, 1, Len(l)) = l
  <2>1. /\ SubSeq(q, 1, Len(l)) \in Seq(InvoiceEvent)
        /\ Len(SubSeq(q, 1, Len(l))) = Len(l)
        /\ \A i \in 1..Len(l) : SubSeq(q, 1, Len(l))[i] = q[i]
    BY <1>1, <1>2
  <2> QED
    BY <1>2, <2>1
<1>3. SubSeq(l, 1, Len(l)) = l
  BY <1>1, <1>2
<1>4. SubSeq(Append(l, e), 1, Len(l)) = l
  BY <1>1, <1>2
<1>5. SubSeq(into_events, 1, 0) = <<>>
  BY <1>1
<1> QED
  BY <1>3, <1>4, <1>5

\* Whatever consumer and sweep race to write, a log only grows and a terminal row is
\* never written again.
THEOREM TerminalRows == Spec => TerminalIsFinal
<1>1. ASSUME IInv, [Next]_vars, NEW g \in Hash
      PROVE  /\ State(g) \in Terminal => UNCHANGED <<log[g], outbox[g]>>
             /\ SubSeq(log'[g], 1, Len(log[g])) = log[g]
  <2>0. log[g] \in Seq(InvoiceEvent) /\ SubSeq(log[g], 1, Len(log[g])) = log[g]
    BY <1>1, Prefixes, EventTypes DEF IInv, TypeOK, InvoiceEventType
  <2>1. CASE UNCHANGED <<log[g], outbox[g]>>
    BY <2>0, <2>1
  <2>2. ASSUME NEW h \in Hash, log[h] = <<>>, log' = [log EXCEPT ![h] = into_events],
               UNCHANGED outbox, g = h
        PROVE  State(g) \notin Terminal /\ SubSeq(log'[g], 1, Len(log[g])) = log[g]
    <3>1. State(g) = "Absent" /\ log'[g] = into_events /\ Len(log[g]) = 0
      BY <1>1, <2>2 DEF State, try_from_events, IInv, TypeOK
    <3>2. SubSeq(into_events, 1, 0) = <<>>
      BY Prefixes, EventTypes, <2>0 DEF InvoiceEventType
    <3> QED
      BY <2>2, <3>1, <3>2, Zenon DEF Terminal
  <2>3. ASSUME Extends(g)
        PROVE  State(g) \notin Terminal /\ SubSeq(log'[g], 1, Len(log[g])) = log[g]
    <3>1. PICK e \in InvoiceEvent : log' = [log EXCEPT ![g] = Append(log[g], e)]
      BY <2>3, Zenon DEF Extends
    <3>2. log'[g] = Append(log[g], e)
      BY <1>1, <3>1 DEF IInv, TypeOK
    <3>3. SubSeq(Append(log[g], e), 1, Len(log[g])) = log[g]
      BY <2>0, Prefixes
    <3> QED
      BY <2>3, <3>2, <3>3 DEF Extends, Terminal
  <2>4. ASSUME NEW h \in Hash \ {g}, Extends(h), \E q : outbox' = [outbox EXCEPT ![h] = q]
        PROVE  UNCHANGED <<log[g], outbox[g]>>
    BY <1>1, <2>4 DEF Extends, IInv, TypeOK
  <2>5. ASSUME NEW h \in Hash \ {g}, log' = [log EXCEPT ![h] = into_events], UNCHANGED outbox
        PROVE  UNCHANGED <<log[g], outbox[g]>>
    BY <1>1, <2>5 DEF IInv, TypeOK
  <2> QED
    BY <1>1, <2>1, <2>2, <2>3, <2>4, <2>5, RowEffect
<1>2. IInv /\ [Next]_vars => [\A h \in Hash :
          /\ State(h) \in Terminal => UNCHANGED <<log[h], outbox[h]>>
          /\ SubSeq(log'[h], 1, Len(log[h])) = log[h]]_vars
  BY <1>1, Zenon
<1> QED
  BY <1>2, Inductive, PTL DEF Spec, TerminalIsFinal

------------------------------------------------------------------------------
(* The gateway implements the abstract invoice ledger *)

\* AddHoldInvoice issues an invoice that nothing was reserved for.
LEMMA LedgerAdd ==
    ASSUME IInv, NEW h \in Hash, add_hold_invoice(h)
    PROVE  Ledger!Issue(h) \/ UNCHANGED <<outbox, lnd, paid>>
<1>1. RowOK(log[h], outbox[h], lnd[h], paid[h], crt[h], lst[h])
  BY DEF IInv, RowsOK
<1>2. lnd[h] = "None" /\ log[h] = <<>>
  BY <1>1 DEF add_hold_invoice, RowOK
<1>3. held_amount_msat(<<>>) = 0 /\ try_from_events(<<>>) = "Absent"
  BY DEF held_amount_msat, Occurrences, try_from_events
<1>4. Len(outbox[h]) = 0 /\ outbox[h] \in Seq(OutboxRows)
  BY <1>1, <1>2, <1>3, Zenon DEF RowOK, Terminal, IInv, TypeOK
<1>5. outbox[h] = <<>>
  BY <1>4
<1> QED
  BY <1>2, <1>5 DEF add_hold_invoice, Ledger!Issue

\* LND parks more on an invoice, or cancels it.
LEMMA LedgerLnd ==
    ASSUME IInv, NEW h \in Hash,
           (\E a \in 1..MaxAmt : LndAccept(h, a)) \/ LndOverpay(h) \/ LndCancel(h)
    PROVE  Ledger!Park(h) \/ Ledger!Cancel(h)
<1>1. paid[h] \in 0..MaxAmt /\ MaxAmt \in Nat
  BY ConstantsAssumption DEF IInv, TypeOK
<1>2. lnd[h] = "Open" => paid[h] = 0
  BY Zenon DEF IInv, RowsOK, RowOK
<1>3. ASSUME NEW a \in 1..MaxAmt, LndAccept(h, a) PROVE Ledger!Park(h)
  <2>1. lnd[h] = "Open" /\ paid[h] = 0
    BY <1>2, <1>3 DEF LndAccept
  <2>2. a \in (paid[h] + 1)..MaxAmt
    BY <1>1, <2>1
  <2> QED
    BY <1>3, <2>1, <2>2, Zenon DEF LndAccept, Ledger!Park
<1>4. CASE LndOverpay(h)
  <2>1. lnd[h] = "Accepted" /\ paid[h] < MaxAmt /\ lnd' = [lnd EXCEPT ![h] = "Accepted"]
    BY <1>4 DEF LndOverpay, IInv, TypeOK
  <2>2. paid[h] + 1 \in (paid[h] + 1)..MaxAmt
    BY <1>1, <2>1
  <2> QED
    BY <1>4, <2>1, <2>2, Zenon DEF LndOverpay, Ledger!Park
<1>5. CASE LndCancel(h)
  BY <1>5 DEF LndCancel, Ledger!Cancel
<1> QED
  BY <1>3, <1>4, <1>5

\* SettleInvoice settles what was reserved.
LEMMA LedgerSettle ==
    ASSUME IInv, NEW w \in Worker, settle_invoice(w)
    PROVE  (\E h \in Hash : Ledger!Settle(h)) \/ UNCHANGED <<outbox, lnd, paid>>
<1> DEFINE h == wk[w].hash
           ent == wk[w].ent
<1>1. SUFFICES ASSUME lnd[h] = "Accepted", lnd' = [lnd EXCEPT ![h] = "Settled"],
                      UNCHANGED <<outbox, paid>>, wk[w].pc = "rpc"
               PROVE  h \in Hash /\ Ledger!Settle(h)
  BY DEF settle_invoice
<1>2. h \in Hash /\ LoadedFrom(ent, log[h]) /\ try_from_events(ent) = "Held"
  BY <1>1, Zenon DEF IInv, TasksKnow, TaskOK
<1>3. held_amount_msat(log[h]) # 0
  <2>1. LegalLog(ent, held_amount_msat(ent))
    BY <1>2 DEF LoadedFrom
  <2>2. held_amount_msat(ent) # 0
    BY <1>2, <2>1, LogFacts
  <2> QED
    BY <1>2, <2>2 DEF LoadedFrom
<1>4. State(h) \in {"Open", "Held"}
  <2>1. RowOK(log[h], outbox[h], lnd[h], paid[h], crt[h], lst[h])
    BY <1>2, Zenon DEF IInv, RowsOK
  <2>2. State(h) \notin Terminal
    BY <1>1, <2>1, Zenon DEF RowOK, State, Terminal
  <2>3. /\ State(h) \in {"Absent", "Open", "Held", "Settled", "Canceled"}
        /\ State(h) # "Absent"
    <3>1. LegalLog(log[h], held_amount_msat(log[h]))
      BY <2>1, Zenon DEF RowOK
    <3>2. State(h) \in {"Absent", "Open", "Held", "Settled", "Canceled"}
          /\ (State(h) = "Absent" <=> Len(log[h]) = 0)
      BY <3>1, LogFacts DEF State
    <3> QED
      BY <1>3, <3>1, <3>2 DEF LegalLog
  <2> QED
    BY <2>2, <2>3 DEF Terminal
<1> HIDE DEF h
<1>5. Ledger!Reserved(h)
  BY <1>2, <1>3, <1>4, OpenRow
<1> QED
  BY <1>1, <1>2, <1>5 DEF Ledger!Settle

\* Every step is a step of the ledger, or invisible to it.
LEMMA LedgerStep ==
    ASSUME IInv, [Next]_vars
    PROVE  Ledger!Next \/ UNCHANGED <<outbox, lnd, paid>>
<1>1. ASSUME NEW h \in Hash, add_hold_invoice(h)
      PROVE  Ledger!Next \/ UNCHANGED <<outbox, lnd, paid>>
  BY <1>1, LedgerAdd DEF Ledger!Next
<1>2. ASSUME NEW h \in Hash,
             (\E a \in 1..MaxAmt : LndAccept(h, a)) \/ LndOverpay(h) \/ LndCancel(h)
      PROVE  Ledger!Next
  BY <1>2, LedgerLnd DEF Ledger!Next
<1>3. ASSUME NEW w \in Worker, TaskStep(w)
      PROVE  Ledger!Next \/ UNCHANGED <<outbox, lnd, paid>>
  <2>1. CASE settle_invoice(w)
    BY <2>1, LedgerSettle DEF Ledger!Next
  <2>2. CASE transition_to_held(w)
    BY <2>2, HoldWrites DEF Ledger!Next
  <2>3. CASE commit_settle(w) \/ commit_cancel(w)
    BY <2>3, CloseWrites DEF Ledger!Next
  <2>4. CASE lookup_invoice(w)
    BY <2>4 DEF lookup_invoice
  <2> QED
    BY <1>3, <2>1, <2>2, <2>3, <2>4 DEF TaskStep
<1>4. ASSUME NEW h \in Hash,
             \/ create(h) \/ Subscribe(h) \/ StreamEnds(h) \/ drive_stream(h)
             \/ reconcile_held_invoice(h)
      PROVE  UNCHANGED <<outbox, lnd, paid>>
  BY <1>4, Zenon DEF create, Subscribe, StreamEnds, drive_stream, reconcile_held_invoice
<1>5. ASSUME handle_invoice_update \/ settle_hold_invoice \/ recovery_sweep \/ Crash
             \/ UNCHANGED vars
      PROVE  UNCHANGED <<outbox, lnd, paid>>
  BY <1>5, Zenon DEF handle_invoice_update, settle_hold_invoice, recovery_sweep, Crash, vars
<1> QED
  BY <1>1, <1>2, <1>3, <1>4, <1>5 DEF Next, GatewayStep

\* The outbox tells Symphony the truth about every invoice: its rows and LND's
\* invoices behave as the abstract ledger, whatever fails or crashes.
THEOREM InvoiceRefinement == Spec => ImplementsLedger
<1>1. Init => Ledger!Init
  BY DEF Init, Ledger!Init
<1>2. IInv /\ [Next]_vars => [Ledger!Next]_(Ledger!ledgerVars)
  BY LedgerStep DEF Ledger!ledgerVars
<1> QED
  BY <1>1, <1>2, Inductive, PTL DEF Spec, ImplementsLedger, Ledger!Spec
==============================================================================
