------------------------- MODULE StatusStreamProofs -------------------------
(***************************************************************************)
(* Theorems about StatusStream for every page size, buffer capacity,       *)
(* backfill limit and set of faults: what a stream may send, and that PAID *)
(* is never wrong.                                                         *)
(***************************************************************************)
EXTENDS StatusStream, FiniteSetTheorems, TLAPS

------------------------------------------------------------------------------
(* The inductive invariant *)

\* The row that settles the invoice.
Settles(e) == e \in Domain /\ To[e] = "Settled"

\* The events of the invoice are serialised: of the transactions in flight at most
\* one tells of it, and from the state it found; and a settled invoice stays so.
Serial ==
    /\ open \cap rows = {} /\ \A s \in open \cup rows : s < next
    /\ \A s \in open : ev[s] \in Domain =>
          inv \in From[ev[s]] /\ \A t \in open : ev[t] \in Domain => t = s
    /\ \A s \in rows : Settles(ev[s]) => inv = "Settled"

\* What a stream read or was sent is committed.
Committed == batch \subseteq rows /\ buf \in Seq(rows)

\* A stream that goes on has sent nothing, or PENDING.
Sendable ==
    /\ pc # "done" => Len(out) <= 1 /\ (Len(out) = 1 => out[1] = "PENDING")
    /\ Len(out) <= 2
    /\ Len(out) = 2 => out[1] = "PENDING" /\ is_terminal(out[2])

StatusInv == TypeOK /\ Serial /\ Committed /\ Sendable /\ PaidMeansSettled

------------------------------------------------------------------------------
(* Events and statuses *)

\* The four events of an invoice.
LEMMA EventFacts ==
    ASSUME NEW e \in Domain
    PROVE  /\ To[e] \in {"Held", "Settled", "Canceled"}
           /\ "Settled" \notin From[e] /\ "Canceled" \notin From[e]
           /\ To[e] \notin From[e]
<1>1. e \in {"LightningHtlcHeld", "LightningInvoiceSettled",
             "LightningIntraledgerTransferCompleted", "LightningInvoiceCanceled"}
  BY DEF Domain, To
<1> QED
  BY <1>1 DEF To, From

\* The status of a state, and of an event.
LEMMA StatusFacts ==
    ASSUME NEW state \in {"Open", "Held", "Settled", "Canceled"}, NEW past \in BOOLEAN
    PROVE  /\ initial_status(state, past) \in {"PENDING", "PAID", "EXPIRED"}
           /\ initial_status(state, past) = "PAID" <=> state = "Settled"
BY DEF initial_status

\* StatusEmitter::next: what Send may add to what was sent.
LEMMA SendKeeps ==
    ASSUME StatusInv, pc # "done", UNCHANGED inv,
           NEW status \in {"PENDING", "PAID", "EXPIRED"}, status = "PAID" => inv = "Settled",
           NEW then, Send(status, then)
    PROVE  /\ out' \in Seq({"PENDING", "PAID", "EXPIRED"}) /\ Sendable' /\ PaidMeansSettled'
           /\ pc' \in {then, "done"}
<1>1. /\ out \in Seq({"PENDING", "PAID", "EXPIRED"}) /\ Len(out) \in Nat /\ Len(out) <= 1
      /\ Len(out) = 1 => out[1] = "PENDING"
      /\ DOMAIN out = 1..Len(out)
      /\ out = <<>> <=> Len(out) = 0
      /\ Len(out) \in {0, 1}
  <2>1. /\ out \in Seq({"PENDING", "PAID", "EXPIRED"}) /\ Len(out) <= 1
        /\ Len(out) = 1 => out[1] = "PENDING"
    BY DEF StatusInv, TypeOK, Sendable
  <2>2. Len(out) \in Nat /\ DOMAIN out = 1..Len(out) /\ (out = <<>> <=> Len(out) = 0)
    BY <2>1
  <2> QED
    BY <2>1, <2>2
<1>2. CASE pc' = then /\ UNCHANGED out
  <2>1. Sendable'
    BY <1>1, <1>2 DEF Sendable
  <2>2. PaidMeansSettled'
    BY <1>2 DEF StatusInv, PaidMeansSettled
  <2> QED
    BY <1>1, <1>2, <2>1, <2>2
<1>3. CASE /\ ~(out # <<>> /\ out[Len(out)] = status) /\ out' = Append(out, status)
           /\ pc' = IF is_terminal(status) THEN "done" ELSE then
  <2>1. Len(out) = 1 => is_terminal(status)
    BY <1>1, <1>3 DEF is_terminal
  <2>2. /\ out' \in Seq({"PENDING", "PAID", "EXPIRED"}) /\ Len(out') = Len(out) + 1
        /\ out'[Len(out) + 1] = status /\ DOMAIN out' = 1..(Len(out) + 1)
        /\ \A i \in 1..Len(out) : out'[i] = out[i]
    BY <1>1, <1>3
  <2>3. pc' = "done" <=> (is_terminal(status) \/ then = "done")
    BY <1>3
  <2>4. ~is_terminal(status) => status = "PENDING" /\ Len(out) = 0
    BY <1>1, <2>1 DEF is_terminal
  <2>5. CASE Len(out) = 0
    <3>1. Len(out') = 1 /\ out'[1] = status /\ DOMAIN out' = 1..1
      BY <2>2, <2>5
    <3>2. Sendable'
      BY <2>3, <2>4, <3>1 DEF Sendable
    <3>3. PaidMeansSettled'
      BY <3>1 DEF PaidMeansSettled
    <3> QED
      BY <1>3, <2>2, <3>2, <3>3
  <2>6. CASE Len(out) = 1
    <3>1. /\ Len(out') = 2 /\ out'[1] = "PENDING" /\ out'[2] = status /\ DOMAIN out' = 1..2
          /\ is_terminal(status)
      BY <1>1, <2>1, <2>2, <2>6
    <3>2. Sendable'
      BY <2>3, <3>1 DEF Sendable, is_terminal
    <3>3. PaidMeansSettled'
      BY <3>1 DEF PaidMeansSettled
    <3> QED
      BY <1>3, <2>2, <3>2, <3>3
  <2> QED
    BY <1>1, <2>5, <2>6
<1> QED
  BY <1>2, <1>3, Zenon DEF Send

\* emit_for_event: the row is committed, so that PAID is told of a settled invoice.
LEMMA EmitKeeps ==
    ASSUME StatusInv, pc # "done", UNCHANGED inv, NEW s \in rows, NEW then,
           emit_for_event(ev[s], then)
    PROVE  /\ out' \in Seq({"PENDING", "PAID", "EXPIRED"}) /\ Sendable' /\ PaidMeansSettled'
           /\ pc' \in {then, "done"}
<1>1. CASE ev[s] \in Domain
  <2>1. To[ev[s]] \in {"Open", "Held", "Settled", "Canceled"}
    BY <1>1, EventFacts
  <2>2. PICK status : status = status_from_event(ev[s])
    OBVIOUS
  <2>3. /\ status \in {"PENDING", "PAID", "EXPIRED"}
        /\ status = "PAID" => To[ev[s]] = "Settled"
    BY <2>1, <2>2, StatusFacts, Zenon DEF status_from_event
  <2>4. status = "PAID" => inv = "Settled"
    BY <1>1, <2>3 DEF StatusInv, Serial, Settles
  <2>5. Send(status, then)
    BY <1>1, <2>2, Zenon DEF emit_for_event
  <2> QED
    BY <2>3, <2>4, <2>5, SendKeeps
<1>2. CASE ev[s] \notin Domain
  <2>1. pc' = then /\ UNCHANGED out
    BY <1>2, Zenon DEF emit_for_event
  <2> QED
    BY <2>1 DEF StatusInv, TypeOK, Sendable, PaidMeansSettled
<1> QED
  BY <1>1, <1>2

------------------------------------------------------------------------------
(* The steps *)

\* fetch_after_batch returns committed rows, at most a page of them.
LEMMA PageFacts ==
    ASSUME NEW page \in fetch_after_batch(cursor)
    PROVE  page \subseteq rows /\ (rows \subseteq Sequence => Cardinality(page) <= BatchSize)
<1>1. page \subseteq After(cursor) /\ After(cursor) \subseteq rows
  BY DEF fetch_after_batch, After
<1>2. ASSUME rows \subseteq Sequence PROVE Cardinality(page) <= BatchSize
  <2>1. IsFiniteSet(Sequence) /\ BatchSize \in Nat
    BY OutboxAssumption, FS_Interval DEF Sequence
  <2>2. count_after(cursor) \in Nat
    BY <1>1, <1>2, <2>1, FS_Subset, FS_CardinalityType DEF count_after
  <2> QED
    BY <2>1, <2>2 DEF fetch_after_batch
<1> QED
  BY <1>1, <1>2

\* A step of the stream or the fanout: rows, events and invoice stay.
StreamOnly == UNCHANGED <<logVars, invVars>>

\* What such a step has to show.
LEMMA StreamOnlyKeeps ==
    ASSUME StatusInv, StreamOnly, missed' \in BOOLEAN,
           conn' \in {"off", "connecting", "listening", "broken"},
           ntf' \in Seq(Sequence \cup {ListenDisconnected}),
           buf' \in Seq(rows), Len(buf') <= BufCap, lagged' \in BOOLEAN,
           pc' \in {"none", "initial", "count_resume", "resume", "recheck", "live",
                    "count_relag", "relag", "done"},
           cursor' \in 0..MaxSeq, batch' \subseteq rows, Cardinality(batch') <= BatchSize,
           out' \in Seq({"PENDING", "PAID", "EXPIRED"}), Sendable', PaidMeansSettled'
    PROVE  StatusInv'
<1>1. UNCHANGED <<next, open, rows, ev, inv, expired>>
  BY DEF StreamOnly, logVars, invVars
<1>2. buf' \in Seq(Sequence) /\ batch' \subseteq Sequence
  BY DEF StatusInv, TypeOK, LogTypeOK
<1>3. TypeOK'
  BY <1>1, <1>2, Zenon DEF StatusInv, TypeOK, LogTypeOK
<1>4. Serial'
  BY <1>1, Zenon DEF StatusInv, Serial
<1>5. Committed'
  BY <1>1, Zenon DEF Committed
<1> QED
  BY <1>3, <1>4, <1>5 DEF StatusInv

\* What the invariant says of the parts a stream step may leave alone.
LEMMA Parts ==
    ASSUME StatusInv
    PROVE  /\ missed \in BOOLEAN /\ conn \in {"off", "connecting", "listening", "broken"}
           /\ ntf \in Seq(Sequence \cup {ListenDisconnected})
           /\ buf \in Seq(rows) /\ Len(buf) <= BufCap /\ lagged \in BOOLEAN
           /\ pc \in {"none", "initial", "count_resume", "resume", "recheck", "live",
                      "count_relag", "relag", "done"}
           /\ cursor \in 0..MaxSeq /\ batch \subseteq rows /\ Cardinality(batch) <= BatchSize
           /\ rows \subseteq Sequence /\ MaxSeq \in Nat /\ BufCap \in Nat \ {0}
           /\ out \in Seq({"PENDING", "PAID", "EXPIRED"}) /\ Sendable /\ PaidMeansSettled
           /\ inv \in {"Open", "Held", "Settled", "Canceled"} /\ expired \in BOOLEAN
           /\ \A gone : Missed(gone) => missed' \in BOOLEAN
BY OutboxAssumption, BufAssumption, Zenon DEF StatusInv, TypeOK, LogTypeOK, Committed, Missed

\* A step that sends nothing keeps what holds of the statuses sent, unless it
\* brings the stream back from its end.
LEMMA SilentKeeps ==
    ASSUME StatusInv, UNCHANGED <<out, inv>>, pc = "done" => pc' = "done"
    PROVE  Sendable' /\ PaidMeansSettled'
BY DEF StatusInv, Sendable, PaidMeansSettled

\* ingest_loop broadcasts committed rows only, and never beyond the buffer.
LEMMA IngestKeeps ==
    ASSUME StatusInv, ingest_loop
    PROVE  StatusInv'
<1>1. /\ StreamOnly /\ UNCHANGED <<conn, pc, cursor, batch, out, inv>>
      /\ ntf # <<>> /\ ntf' = Tail(ntf) /\ missed' \in BOOLEAN
  <2>1. UNCHANGED missed \/ Missed(find_by_sequence(Head(ntf)))
    BY DEF ingest_loop
  <2>2. missed' \in BOOLEAN
    BY <2>1, Parts
  <2> QED
    BY <2>2 DEF ingest_loop, StreamOnly, streamVars, invVars
<1>2. ntf' \in Seq(Sequence \cup {ListenDisconnected})
  BY <1>1, Parts
<1>3. buf' \in Seq(rows) /\ Len(buf') <= BufCap /\ lagged' \in BOOLEAN
  <2>1. CASE UNCHANGED rxVars
    BY <2>1, Parts DEF rxVars
  <2>2. CASE find_by_sequence(Head(ntf)) /\ Broadcast(Head(ntf))
    <3>1. Head(ntf) \in rows
      BY <2>2 DEF find_by_sequence
    <3>2. CASE Len(buf) < BufCap /\ buf' = Append(buf, Head(ntf)) /\ UNCHANGED lagged
      BY <3>1, <3>2, Parts
    <3>3. CASE ~(Len(buf) < BufCap) /\ buf' = Append(Tail(buf), Head(ntf)) /\ lagged' = TRUE
      <4>1. buf # <<>> /\ Len(buf) \in Nat
        BY <3>3, Parts
      <4>2. Tail(buf) \in Seq(rows) /\ Len(Tail(buf)) = Len(buf) - 1
        BY <4>1, Parts
      <4>3. buf' \in Seq(rows) /\ Len(buf') = Len(buf)
        BY <3>1, <3>3, <4>1, <4>2
      <4> QED
        BY <3>3, <4>3, Parts
    <3> QED
      BY <2>1, <2>2, <3>2, <3>3, Zenon DEF Broadcast
  <2> QED
    BY <2>1, <2>2 DEF ingest_loop
<1> QED
  BY <1>1, <1>2, <1>3, Parts, SilentKeeps, StreamOnlyKeeps

\* read_initial tells the aggregate's status, or EXPIRED for one it could not read.
LEMMA ReadKeeps ==
    ASSUME StatusInv, read_initial
    PROVE  StatusInv'
<1>1. /\ StreamOnly /\ UNCHANGED <<conn, ntf, buf, lagged, cursor, batch, inv>>
      /\ pc \in {"initial", "recheck"}
  BY DEF read_initial, StreamOnly, listenVars, invVars, rxVars
<1>2. PICK status \in {initial_status(inv, expired)} \cup
                     (IF "read_error" \in Faults THEN {"EXPIRED"} ELSE {}) :
         /\ IF pc = "initial" \/ is_terminal(status) THEN Send(status, "live")
            ELSE pc' = "live" /\ UNCHANGED out
         /\ Missed(status # initial_status(inv, expired))
  BY Zenon DEF read_initial
<1>3. status \in {"PENDING", "PAID", "EXPIRED"} /\ (status = "PAID" => inv = "Settled")
  BY StatusFacts, Parts
<1>4. missed' \in BOOLEAN
  BY <1>2, Parts, Zenon
<1>5. /\ out' \in Seq({"PENDING", "PAID", "EXPIRED"}) /\ Sendable' /\ PaidMeansSettled'
      /\ pc' \in {"live", "done"}
  <2>1. CASE Send(status, "live")
    BY <1>1, <1>3, <2>1, SendKeeps
  <2>2. CASE pc' = "live" /\ UNCHANGED out
    BY <1>1, <2>2, Parts, SilentKeeps
  <2> QED
    BY <1>2, <2>1, <2>2
<1> QED
  BY <1>1, <1>4, <1>5, Parts, StreamOnlyKeeps

\* The reads of the backfill, and the end of the subscriber, send nothing.
LEMMA BackfillKeeps ==
    ASSUME StatusInv, count_backfill \/ drain_backfill \/ Gone
    PROVE  StatusInv'
<1>1. /\ StreamOnly /\ UNCHANGED <<conn, ntf, buf, lagged, cursor, out, inv>>
      /\ pc # "done"
  BY Zenon DEF count_backfill, drain_backfill, Gone, Attached, StreamOnly, listenVars, invVars, rxVars
<1>2. pc' \in {"resume", "relag", "recheck", "live", "done"}
  BY Zenon DEF count_backfill, drain_backfill, Gone
<1>3. missed' \in BOOLEAN
  <2>1. UNCHANGED missed \/ Missed(TRUE)
    BY Zenon DEF count_backfill, drain_backfill, Gone
  <2> QED
    BY <2>1, Parts, Zenon
<1>4. batch' \subseteq rows /\ Cardinality(batch') <= BatchSize
  <2>1. CASE UNCHANGED batch
    BY <2>1, Parts
  <2>2. CASE batch' = {}
    BY <2>2, FS_EmptySet, OutboxAssumption
  <2>3. CASE batch' \in fetch_after_batch(cursor)
    BY <2>3, PageFacts, Parts
  <2> QED
    BY <2>1, <2>2, <2>3, Zenon DEF count_backfill, drain_backfill, Gone
<1> QED
  BY <1>1, <1>2, <1>3, <1>4, Parts, SilentKeeps, StreamOnlyKeeps

\* The rows of a page are handled one by one.
LEMMA DrainKeeps ==
    ASSUME StatusInv, drain_row
    PROVE  StatusInv'
<1>1. /\ StreamOnly /\ UNCHANGED <<conn, ntf, buf, lagged, missed, inv>>
      /\ pc \in {"resume", "relag"}
  BY DEF drain_row, StreamOnly, listenVars, invVars, rxVars
<1>2. PICK s \in batch : cursor' = s /\ batch' = batch \ {s} /\ emit_for_event(ev[s], pc)
  BY DEF drain_row, Earliest
<1>3. s \in rows /\ s \in Sequence /\ s \in 0..MaxSeq
  BY <1>2, Parts DEF Sequence
<1>4. /\ out' \in Seq({"PENDING", "PAID", "EXPIRED"}) /\ Sendable' /\ PaidMeansSettled'
      /\ pc' \in {pc, "done"}
  BY <1>1, <1>2, <1>3, EmitKeeps, Zenon
<1>5. batch' \subseteq rows /\ Cardinality(batch') <= BatchSize
  <2>1. IsFiniteSet(Sequence)
    BY FS_Interval, OutboxAssumption DEF Sequence
  <2>2. IsFiniteSet(batch)
    BY <2>1, FS_Subset, Parts
  <2>3. Cardinality(batch') = Cardinality(batch) - 1 /\ Cardinality(batch) \in Nat
    BY <1>2, <2>2, FS_RemoveElement, FS_CardinalityType
  <2> QED
    BY <1>2, <2>3, Parts, OutboxAssumption
<1> QED
  BY <1>1, <1>2, <1>3, <1>4, <1>5, Parts, StreamOnlyKeeps

\* The live tail.
LEMMA RecvKeeps ==
    ASSUME StatusInv, recv
    PROVE  StatusInv'
<1>1. /\ StreamOnly /\ UNCHANGED <<conn, ntf, batch, missed, inv>> /\ pc = "live"
  BY DEF recv, StreamOnly, listenVars, invVars
<1>2. CASE lagged' = FALSE /\ pc' = "count_relag" /\ UNCHANGED <<buf, cursor, out>>
  BY <1>1, <1>2, Parts, SilentKeeps, StreamOnlyKeeps, Zenon
<1>3. CASE buf # <<>> /\ buf' = Tail(buf) /\ UNCHANGED lagged
  <2>1. /\ buf' \in Seq(rows) /\ Len(buf') = Len(buf) - 1 /\ Len(buf) \in Nat
        /\ Head(buf) \in rows
    BY <1>3, Parts
  <2>2. Len(buf') <= BufCap
    BY <2>1, Parts
  <2>3. Head(buf) \in 0..MaxSeq
    BY <2>1, Parts DEF Sequence
  <2>4. CASE UNCHANGED <<pc, cursor, out>>
    BY <1>1, <1>3, <2>1, <2>2, <2>4, Parts, SilentKeeps, StreamOnlyKeeps
  <2>5. CASE cursor' = Head(buf) /\ emit_for_event(ev[Head(buf)], "live")
    <3>1. /\ out' \in Seq({"PENDING", "PAID", "EXPIRED"}) /\ Sendable' /\ PaidMeansSettled'
          /\ pc' \in {"live", "done"}
      BY <1>1, <2>1, <2>5, EmitKeeps, Zenon
    <3> QED
      BY <1>1, <1>3, <2>1, <2>2, <2>3, <2>5, <3>1, Parts, StreamOnlyKeeps
  <2> QED
    BY <1>3, <2>4, <2>5, Zenon DEF recv
<1> QED
  BY <1>2, <1>3, Zenon DEF recv

\* A subscription starts.
LEMMA SubscribeKeeps ==
    ASSUME StatusInv, Subscribe
    PROVE  StatusInv'
<1>1. PICK resume \in rows \cup {0}, mode \in {"initial", "count_resume"} :
         run_status_stream(resume, mode)
  BY DEF Subscribe
<1>2. /\ StreamOnly /\ UNCHANGED <<conn, ntf, batch, missed, out, inv>>
      /\ pc = "none" /\ pc' = mode /\ cursor' = resume /\ buf' = <<>> /\ lagged' = FALSE
  BY <1>1 DEF run_status_stream, StreamOnly, listenVars, invVars
<1>3. resume \in 0..MaxSeq
  BY Parts DEF Sequence
<1>4. buf' \in Seq(rows) /\ Len(buf') <= BufCap
  BY <1>2, Parts
<1> QED
  BY <1>2, <1>3, <1>4, Parts, SilentKeeps, StreamOnlyKeeps, Zenon

\* A transaction inserts an event of the invoice only from the state it found, and
\* only while no other one is in flight.
LEMMA PublishKeeps ==
    ASSUME StatusInv, NEW e \in Domain \cup {"other"}, Publish(e)
    PROVE  StatusInv'
<1>1. /\ next \in Sequence /\ open' = open \cup {next} /\ next' = next + 1
      /\ ev' = [ev EXCEPT ![next] = e]
      /\ e \in Domain => inv \in From[e] /\ \A s \in open : ev[s] = "other"
      /\ UNCHANGED <<rows, conn, ntf, inv, expired, buf, lagged, pc, cursor, batch, out, missed>>
  BY DEF Publish, publish_in_tx, listenVars, rxVars, streamVars
<1>2. /\ open \subseteq Sequence /\ rows \subseteq Sequence /\ ev \in [Sequence -> Domain \cup {"other"}]
      /\ MaxSeq \in Nat
  BY Parts DEF StatusInv, TypeOK, LogTypeOK
<1>3. next \notin open \cup rows
  <2>1. \A s \in open \cup rows : s < next /\ s \in Nat
    BY <1>2 DEF StatusInv, Serial, Sequence
  <2> QED
    BY <2>1
<1>4. ev'[next] = e /\ \A s \in open \cup rows : ev'[s] = ev[s]
  BY <1>1, <1>2, <1>3
<1>5. TypeOK'
  <2>1. next' \in 1..(MaxSeq + 1) /\ open' \subseteq Sequence
    BY <1>1, <1>2 DEF Sequence
  <2>2. ev' \in [Sequence -> Domain \cup {"other"}]
    BY <1>1, <1>2
  <2> QED
    BY <1>1, <2>1, <2>2, Zenon DEF StatusInv, TypeOK, LogTypeOK
<1>6. Serial'
  <2>1. open' \cap rows' = {}
    BY <1>1, <1>3 DEF StatusInv, Serial
  <2>2. \A s \in open' \cup rows' : s < next'
    <3>1. next \in Nat /\ \A s \in open \cup rows : s < next /\ s \in Nat
      BY <1>1, <1>2 DEF StatusInv, Serial, Sequence
    <3> QED
      BY <1>1, <3>1
  <2>3. "other" \notin Domain
    BY DEF Domain, To
  <2>4. ASSUME NEW s \in open', ev'[s] \in Domain
        PROVE  inv' \in From[ev'[s]] /\ \A t \in open' : ev'[t] \in Domain => t = s
    <3>1. CASE e \in Domain
      <4>1. \A t \in open : ev'[t] \notin Domain
        BY <1>1, <1>4, <2>3, <3>1
      <4> QED
        BY <1>1, <1>4, <2>4, <3>1, <4>1
    <3>2. CASE e \notin Domain
      <4>1. s \in open /\ \A t \in open' : ev'[t] \in Domain => t \in open
        BY <1>1, <1>4, <2>4, <3>2
      <4> QED
        BY <1>1, <1>4, <2>4, <4>1 DEF StatusInv, Serial
    <3> QED
      BY <3>1, <3>2
  <2>5. \A s \in rows' : Settles(ev'[s]) => inv' = "Settled"
    BY <1>1, <1>4 DEF StatusInv, Serial
  <2> QED
    BY <2>1, <2>2, <2>4, <2>5 DEF Serial
<1>7. Committed' /\ Sendable' /\ PaidMeansSettled'
  BY <1>1, Zenon DEF StatusInv, Committed, Sendable, PaidMeansSettled
<1> QED
  BY <1>5, <1>6, <1>7 DEF StatusInv

\* COMMIT: the only event of the invoice in flight takes it to its next state, never
\* out of Settled.
LEMMA CommitKeeps ==
    ASSUME StatusInv, NEW s \in Sequence, Commit(s)
    PROVE  StatusInv'
<1>1. /\ s \in open /\ open' = open \ {s} /\ rows' = rows \cup {s}
      /\ ntf' = (IF conn = "listening" THEN Append(ntf, s) ELSE ntf)
      /\ inv' = (IF ev[s] \in Domain THEN To[ev[s]] ELSE inv)
      /\ UNCHANGED <<next, conn, ev, expired, buf, lagged, pc, cursor, batch, out>>
  BY DEF Commit, CommitRow, rxVars, streamVars
<1>2. missed' \in BOOLEAN
  BY Parts, Zenon DEF Commit
<1>3. inv' = inv \/ inv # "Settled"
  BY <1>1, EventFacts DEF StatusInv, Serial
<1>4. TypeOK'
  <2>1. ntf' \in Seq(Sequence \cup {ListenDisconnected})
    BY <1>1, Parts
  <2>2. inv' \in {"Open", "Held", "Settled", "Canceled"}
    BY <1>1, EventFacts, Parts
  <2>3. open' \subseteq Sequence /\ rows' \subseteq Sequence
    BY <1>1 DEF StatusInv, TypeOK, LogTypeOK
  <2> QED
    BY <1>1, <1>2, <2>1, <2>2, <2>3, Zenon DEF StatusInv, TypeOK, LogTypeOK
<1>5. Serial'
  <2>1. open' \cap rows' = {} /\ \A t \in open' \cup rows' : t < next'
    BY <1>1 DEF StatusInv, Serial
  <2>2. ASSUME NEW t \in open', ev'[t] \in Domain
        PROVE  inv' \in From[ev'[t]] /\ \A u \in open' : ev'[u] \in Domain => u = t
    <3>1. ev[s] \notin Domain
      BY <1>1, <2>2 DEF StatusInv, Serial
    <3> QED
      BY <1>1, <2>2, <3>1 DEF StatusInv, Serial
  <2>3. ASSUME NEW t \in rows', Settles(ev'[t]) PROVE inv' = "Settled"
    <3>1. CASE t = s
      BY <1>1, <2>3, <3>1 DEF Settles
    <3>2. CASE t # s
      BY <1>1, <1>3, <2>3, <3>2 DEF StatusInv, Serial
    <3> QED
      BY <3>1, <3>2
  <2> QED
    BY <2>1, <2>2, <2>3 DEF Serial
<1>6. Committed'
  BY <1>1, Parts DEF Committed
<1>7. Sendable'
  BY <1>1, Zenon DEF StatusInv, Sendable
<1>8. PaidMeansSettled'
  BY <1>1, <1>3 DEF StatusInv, PaidMeansSettled
<1> QED
  BY <1>4, <1>5, <1>6, <1>7, <1>8 DEF StatusInv

\* A transaction is rolled back, the invoice expires, the LISTEN breaks and returns.
LEMMA OtherKeeps ==
    ASSUME StatusInv,
           \/ \E s \in Sequence : Rollback(s) /\ UNCHANGED <<invVars, rxVars, streamVars, missed>>
           \/ Expire
           \/ (connection_loop \/ ListenBreaks \/ ListenNoticed)
                /\ UNCHANGED <<invVars, rxVars, streamVars, missed>>
           \/ UNCHANGED vars
    PROVE  StatusInv'
<1>1. /\ UNCHANGED <<next, rows, ev, inv, buf, lagged, pc, cursor, batch, out, missed>>
      /\ open' \subseteq open /\ expired' \in {expired, TRUE}
      /\ conn' \in {conn, "listening", "broken", "connecting"}
      /\ ntf' \in {ntf, Append(ntf, ListenDisconnected)}
  BY Zenon DEF Rollback, Expire, connection_loop, ListenBreaks, ListenNoticed, logVars, listenVars,
         invVars, rxVars, streamVars, vars
<1>2. TypeOK'
  <2>1. ntf' \in Seq(Sequence \cup {ListenDisconnected})
    BY <1>1, Parts
  <2>2. open' \subseteq Sequence /\ expired' \in BOOLEAN
        /\ conn' \in {"off", "connecting", "listening", "broken"}
    BY <1>1, Parts, Zenon DEF StatusInv, TypeOK, LogTypeOK
  <2> QED
    BY <1>1, <2>1, <2>2, Zenon DEF StatusInv, TypeOK, LogTypeOK
<1>3. Serial'
  BY <1>1 DEF StatusInv, Serial
<1>4. Committed' /\ Sendable' /\ PaidMeansSettled'
  BY <1>1, Zenon DEF StatusInv, Committed, Sendable, PaidMeansSettled
<1> QED
  BY <1>2, <1>3, <1>4 DEF StatusInv

------------------------------------------------------------------------------
(* Theorems *)

\* The invariant holds in every reachable state.
LEMMA StatusInductive == Spec => []StatusInv
<1>1. Init => StatusInv
  <2> SUFFICES ASSUME Init PROVE StatusInv
    OBVIOUS
  <2>1. Cardinality({}) = 0 /\ Len(<<>>) = 0 /\ MaxSeq \in Nat /\ BatchSize \in Nat /\ BufCap \in Nat
    BY FS_EmptySet, OutboxAssumption, BufAssumption
  <2>2. LogTypeOK
    BY <2>1 DEF Init, InitLog, LogTypeOK
  <2>3. TypeOK
    <3>1. /\ buf = <<>> /\ out = <<>> /\ cursor = 0 /\ batch = {}
          /\ ev = [s \in Sequence |-> "other"] /\ inv = "Open" /\ expired = FALSE
          /\ lagged = FALSE /\ pc = "none" /\ missed = FALSE
      BY DEF Init
    <3>2. /\ buf \in Seq(Sequence) /\ out \in Seq({"PENDING", "PAID", "EXPIRED"})
          /\ Len(buf) <= BufCap /\ cursor \in 0..MaxSeq
          /\ batch \subseteq Sequence /\ Cardinality(batch) <= BatchSize
      BY <2>1, <3>1
    <3>3. ev \in [Sequence -> Domain \cup {"other"}]
      BY <3>1
    <3> QED
      BY <2>2, <3>1, <3>2, <3>3, Zenon DEF TypeOK
  <2>4. Serial
    BY DEF Init, InitLog, Serial
  <2>5. Committed
    <3>1. <<>> \in Seq({})
      OBVIOUS
    <3> QED
      BY <3>1 DEF Init, InitLog, Committed
  <2>6. Sendable /\ PaidMeansSettled
    <3>1. DOMAIN <<>> = {}
      OBVIOUS
    <3>2. out = <<>>
      BY DEF Init
    <3>3. Sendable
      BY <2>1, <3>2 DEF Sendable
    <3> QED
      BY <3>1, <3>2, <3>3 DEF PaidMeansSettled
  <2> QED
    BY <2>3, <2>4, <2>5, <2>6 DEF StatusInv
<1>2. StatusInv /\ [Next]_vars => StatusInv'
  BY PublishKeeps, CommitKeeps, OtherKeeps, IngestKeeps, SubscribeKeeps, ReadKeeps,
     BackfillKeeps, DrainKeeps, RecvKeeps DEF Next, Stream
<1> QED
  BY <1>1, <1>2, PTL DEF Spec

\* Rows, invoice, receiver and stream keep their types, the broadcast buffer its
\* capacity and a page its size.
THEOREM StatusTypes == Spec => []TypeOK
<1>1. StatusInv => TypeOK
  BY DEF StatusInv
<1> QED
  BY <1>1, StatusInductive, PTL

\* A stream sends at most one PENDING and then at most one terminal status, with
\* which it ends, though three sources report the same transitions.
THEOREM StatusesInOrder == Spec => []StatusProtocol
<1>1. ASSUME StatusInv PROVE StatusProtocol
  <2>1. /\ out \in Seq({"PENDING", "PAID", "EXPIRED"}) /\ Sendable
    BY <1>1 DEF StatusInv, TypeOK
  <2>2. Len(out) \in Nat /\ (out = <<>> <=> Len(out) = 0)
    BY <2>1
  <2>3. ASSUME out # <<>>, pc # "done" PROVE ~is_terminal(out[Len(out)])
    <3>1. Len(out) <= 1 /\ (Len(out) = 1 => out[1] = "PENDING")
      BY <2>1, <2>3, Zenon DEF Sendable
    <3>2. Len(out) = 1 /\ out[1] = "PENDING"
      <4>1. \A n \in Nat : n <= 1 /\ n # 0 => n = 1
        OBVIOUS
      <4> QED
        BY <2>2, <2>3, <3>1, <4>1, Zenon
    <3> QED
      BY <3>2 DEF is_terminal
  <2> QED
    BY <2>1, <2>3 DEF Sendable, StatusProtocol
<1> QED
  BY <1>1, StatusInductive, PTL

\* PAID is told only of a settled invoice, whichever of initial read, backfill and
\* broadcast reports it, and whatever reads fail.
THEOREM PaidIsSettled == Spec => []PaidMeansSettled
<1>1. StatusInv => PaidMeansSettled
  BY DEF StatusInv
<1> QED
  BY <1>1, StatusInductive, PTL
==============================================================================
