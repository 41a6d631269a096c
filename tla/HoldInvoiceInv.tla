---------------------------- MODULE HoldInvoiceInv ----------------------------
(***************************************************************************)
(* The inductive invariant of HoldInvoice, and the steps of the request,   *)
(* the listeners, LND and the tasks' loads, none of which writes to an     *)
(* existing row.                                                           *)
(***************************************************************************)
EXTENDS HoldInvoice, TLAPS

------------------------------------------------------------------------------
(* The inductive invariant *)

\* A log the commands can leave, with the amount it holds (0 for none).
LegalLog(l, held) ==
    /\ l \in Seq(InvoiceEvent) /\ Len(l) <= 3 /\ held \in 0..MaxAmt
    /\ Len(l) >= 1 => l[1].type = "Created"
    /\ held = 0 => Len(l) <= 2 /\ (Len(l) = 2 => l[2].type \in {"Canceled", "SettledIntraledger"})
    /\ held # 0 => /\ Len(l) >= 2 /\ l[2].type = "HtlcHeld" /\ l[2].amt = held
                   /\ Len(l) = 3 => l[3].type \in {"Settled", "Canceled"}

\* Settled by a transfer between two wallets of this gateway.
Moved(l) == Len(l) = 2 /\ l[2].type = "SettledIntraledger"

\* The row `l` of an invoice and its outbox rows `o`, given LND's state and amount,
\* the state of its lnInvoiceCreate and of its listener.
RowOK(l, o, st, amt, request, listener) ==
    LET held == held_amount_msat(l)
        state == try_from_events(l)
        n == IF held = 0 THEN 0 ELSE 1
    IN  /\ LegalLog(l, held)
        /\ held # 0 => o # <<>> /\ o[1] = OutboxRow("LightningHtlcHeld", held, 0)
        /\ state \notin Terminal => Len(o) = n
        /\ state \in Terminal =>
              /\ Len(o) = n + 1 /\ o[n + 1].held = held
              /\ o[n + 1].type = IF Moved(l) THEN "LightningIntraledgerTransferCompleted"
                                 ELSE IF state = "Settled" THEN "LightningInvoiceSettled"
                                 ELSE "LightningInvoiceCanceled"
        /\ state = "Held" => st \in {"Accepted", "Settled", "Canceled"}
        /\ state \in Terminal => st = IF Moved(l) THEN "Canceled" ELSE state
        /\ st = "Settled" => held # 0
        /\ st # "Canceled" => held <= amt
        /\ st \in {"Accepted", "Settled"} => request = "returned"
        /\ st = "Accepted" => amt # 0
        /\ st \in {"None", "Open"} => amt = 0
        /\ request = "none" => st = "None"
        /\ request \in {"none", "create"} => l = <<>>
        /\ request = "returned" => l # <<>>
        /\ l # <<>> \/ request = "create" \/ listener # "off" => st # "None"

RowsOK == \A h \in Hash : RowOK(log[h], outbox[h], lnd[h], paid[h], crt[h], lst[h])

\* An update on its way tells a state LND was in, and a final one the state it is in.
UpdateOK(u, st, amt) ==
    /\ u \in InvoiceUpdate
    /\ u.state = "Accepted" =>
          /\ u.amt # 0 /\ st \in {"Accepted", "Settled", "Canceled"}
          /\ st = "Canceled" \/ u.amt <= amt
    /\ u.state \in LndFinal => st = u.state

UpdatesTrue ==
    /\ \A h \in Hash : \A i \in 1..Len(strm[h]) :
          strm[h][i].hash = h /\ UpdateOK(strm[h][i], lnd[h], paid[h])
    /\ \A i \in 1..Len(chan) : UpdateOK(chan[i], lnd[chan[i].hash], paid[chan[i].hash])

\* `ent` was loaded from `row`: the row has grown since, or is still the same.
LoadedFrom(ent, row) ==
    /\ LegalLog(ent, held_amount_msat(ent)) /\ ent # <<>>
    /\ Len(ent) <= Len(row)
    /\ Len(ent) = Len(row) => ent = row
    /\ held_amount_msat(ent) # 0 => held_amount_msat(row) = held_amount_msat(ent)

\* What a task knows at each of its steps.
TaskOK(t, row, st, amt) ==
    /\ t \in Task
    /\ t.pc # "idle" =>
        /\ t.hash \in Hash
        /\ t.pc # "load" => LoadedFrom(t.ent, row)
        /\ t.pc = "hold" =>
              /\ try_from_events(t.ent) = "Open" /\ t.amt # 0
              /\ st \in {"Accepted", "Settled", "Canceled"}
              /\ st = "Canceled" \/ t.amt <= amt
        /\ t.pc \in {"lookup", "rpc", "settle"} => try_from_events(t.ent) = "Held"
        /\ t.pc \in {"rpc", "settle"} =>
              st = "Canceled" \/ (held_amount_msat(t.ent) <= t.amt /\ t.amt <= amt)
        /\ t.pc = "settle" => st = "Settled"
        /\ t.pc = "cancel" => st = "Canceled"

TasksKnow ==
    \A w \in Worker :
        TaskOK(wk[w], log[wk[w].hash], lnd[wk[w].hash], paid[wk[w].hash])

IInv == TypeOK /\ RowsOK /\ UpdatesTrue /\ TasksKnow /\ ReturnedIsWatched

------------------------------------------------------------------------------
(* The aggregate *)

\* A legal log holds the amount of its one HtlcHeld, and its length and last
\* event decide its state.
LEMMA LogFacts ==
    ASSUME NEW l, NEW a, LegalLog(l, a)
    PROVE  /\ held_amount_msat(l) = a /\ a \in Nat /\ Len(l) \in 0..3
           /\ Occurrences(l, "HtlcHeld") = {} <=> a = 0
           /\ l = <<>> <=> Len(l) = 0
           /\ try_from_events(l) = "Absent" <=> Len(l) = 0
           /\ try_from_events(l) = "Open" <=> Len(l) = 1
           /\ try_from_events(l) = "Held" <=> Len(l) = 2 /\ a # 0
           /\ try_from_events(l) \in Terminal <=> Len(l) = 3 \/ (Len(l) = 2 /\ a = 0)
           /\ try_from_events(l) \in {"Absent", "Open", "Held", "Settled", "Canceled"}
           /\ Moved(l) => a = 0 /\ try_from_events(l) = "Settled"
           /\ Moved(l) <=> Occurrences(l, "SettledIntraledger") # {}
<1>1. /\ l \in Seq(InvoiceEvent) /\ Len(l) \in 0..3 /\ a \in Nat
      /\ DOMAIN l = 1..Len(l) /\ (l = <<>> <=> Len(l) = 0)
  <2>1. l \in Seq(InvoiceEvent) /\ Len(l) <= 3 /\ a \in 0..MaxAmt
    BY DEF LegalLog
  <2>2. Len(l) \in Nat /\ DOMAIN l = 1..Len(l) /\ (l = <<>> <=> Len(l) = 0)
    BY <2>1
  <2>3. MaxAmt \in Nat
    BY ConstantsAssumption
  <2> QED
    BY <2>1, <2>2, <2>3
<1>2. CASE a = 0
  <2>1. /\ Len(l) \in 0..2 /\ (Len(l) >= 1 => l[1].type = "Created")
        /\ (Len(l) = 2 => l[2].type \in {"Canceled", "SettledIntraledger"})
        /\ \A i \in DOMAIN l : i = 1 \/ (i = 2 /\ Len(l) = 2)
    BY <1>1, <1>2 DEF LegalLog
  <2>2. Occurrences(l, "HtlcHeld") = {}
    <3>1. \A i \in DOMAIN l : l[i].type # "HtlcHeld"
      BY <1>1, <2>1
    <3> QED
      BY <3>1 DEF Occurrences
  <2>3. held_amount_msat(l) = 0
    BY <2>2 DEF held_amount_msat
  <2>4. Moved(l) <=> Occurrences(l, "SettledIntraledger") # {}
    <3>1. \A i \in DOMAIN l : l[i].type = "SettledIntraledger" => Moved(l)
      BY <1>1, <2>1 DEF Moved
    <3>2. Moved(l) => 2 \in DOMAIN l /\ l[2].type = "SettledIntraledger"
      BY <1>1 DEF Moved
    <3> QED
      BY <3>1, <3>2 DEF Occurrences
  <2> QED
    BY <1>1, <1>2, <2>1, <2>2, <2>3, <2>4 DEF try_from_events, Terminal, Moved
<1>3. CASE a # 0
  <2>1. /\ Len(l) \in {2, 3} /\ l[1].type = "Created" /\ l[2].type = "HtlcHeld" /\ l[2].amt = a
        /\ Len(l) = 3 => l[3].type \in {"Settled", "Canceled"}
    BY <1>1, <1>3 DEF LegalLog
  <2>2. Occurrences(l, "HtlcHeld") = {2} /\ Occurrences(l, "SettledIntraledger") = {}
    BY <1>1, <2>1 DEF Occurrences
  <2>3. (CHOOSE i \in {2} : \A j \in {2} : j <= i) = 2
    OBVIOUS
  <2>4. held_amount_msat(l) = a
    BY <2>1, <2>2, <2>3 DEF held_amount_msat
  <2>5. Occurrences(l, "HtlcHeld") # {} /\ ~Moved(l)
    BY <2>1, <2>2 DEF Moved
  <2>6. CASE Len(l) = 2
    <3>1. try_from_events(l) = "Held"
      BY <1>1, <2>1, <2>6 DEF try_from_events
    <3> QED
      BY <1>1, <1>3, <2>2, <2>4, <2>5, <2>6, <3>1 DEF Terminal
  <2>7. CASE Len(l) = 3
    <3>1. try_from_events(l) = l[3].type /\ l[3].type \in {"Settled", "Canceled"}
      BY <1>1, <2>1, <2>7 DEF try_from_events
    <3> QED
      BY <1>1, <1>3, <2>2, <2>4, <2>5, <2>7, <3>1 DEF Terminal
  <2> QED
    BY <2>1, <2>6, <2>7
<1> QED
  BY <1>2, <1>3

\* An event appended to a log.
LEMMA AppendEvent ==
    ASSUME NEW l \in Seq(InvoiceEvent), NEW e \in InvoiceEvent
    PROVE  /\ Append(l, e) \in Seq(InvoiceEvent) /\ Len(Append(l, e)) = Len(l) + 1
           /\ Len(l) \in Nat /\ Append(l, e)[Len(l) + 1] = e
           /\ \A i \in 1..Len(l) : Append(l, e)[i] = l[i]
OBVIOUS

\* The events the commands append.
LEMMA EventTypes ==
    /\ \A b \in 0..MaxAmt, type \in InvoiceEventType :
          /\ Event(type, b) \in InvoiceEvent
          /\ Event(type, b).type = type /\ Event(type, b).amt = b
    /\ 0 \in 0..MaxAmt
BY ConstantsAssumption DEF Event, InvoiceEvent, InvoiceEventType

\* NewInvoice::into_events.
LEMMA NewLog ==
    LegalLog(into_events, 0) /\ try_from_events(into_events) = "Open" /\ Len(into_events) = 1
<1>1. Event("Created", 0) \in InvoiceEvent /\ Event("Created", 0).type = "Created"
  BY EventTypes DEF InvoiceEventType
<1>2. /\ into_events \in Seq(InvoiceEvent) /\ Len(into_events) = 1
      /\ into_events[1].type = "Created" /\ into_events # <<>>
  BY <1>1 DEF into_events
<1>3. LegalLog(into_events, 0)
  BY <1>2, EventTypes DEF LegalLog
<1> QED
  BY <1>2, <1>3, LogFacts

\* mark_held that executes appends HtlcHeld to an open log.
LEMMA HoldFacts ==
    ASSUME NEW l, NEW a, LegalLog(l, a), NEW b \in 1..MaxAmt
    PROVE  /\ mark_held(l, b).result = "Executed" => try_from_events(l) = "Open"
           /\ try_from_events(l) = "Open" =>
                 /\ LegalLog(mark_held(l, b).events, b)
                 /\ try_from_events(mark_held(l, b).events) = "Held"
                 /\ Len(mark_held(l, b).events) = Len(l) + 1
<1>1. mark_held(l, b).result = "Executed" => try_from_events(l) = "Open"
  BY DEF mark_held, Command
<1>2. ASSUME try_from_events(l) = "Open"
      PROVE  /\ LegalLog(mark_held(l, b).events, b)
             /\ try_from_events(mark_held(l, b).events) = "Held"
             /\ Len(mark_held(l, b).events) = Len(l) + 1
  <2> DEFINE e == Event("HtlcHeld", b)
  <2>0. b # 0 /\ b \in 0..MaxAmt
    BY ConstantsAssumption
  <2>1. e \in InvoiceEvent /\ e.type = "HtlcHeld" /\ e.amt = b
    BY <2>0, EventTypes DEF InvoiceEventType
  <2>2. a = 0 /\ Len(l) = 1 /\ Occurrences(l, "HtlcHeld") = {}
    <3>1. Len(l) = 1
      BY <1>2, LogFacts
    <3>2. a = 0
      BY <3>1 DEF LegalLog
    <3> QED
      BY <3>1, <3>2, LogFacts
  <2>3. mark_held(l, b).events = Append(l, e)
    BY <1>2, <2>1, <2>2 DEF mark_held, Command
  <2>4. l \in Seq(InvoiceEvent) /\ l[1].type = "Created"
    BY <2>2 DEF LegalLog
  <2>5. /\ Append(l, e) \in Seq(InvoiceEvent) /\ Len(Append(l, e)) = 2
        /\ Append(l, e)[2] = e /\ Append(l, e)[1] = l[1]
    <3>1. /\ Append(l, e) \in Seq(InvoiceEvent) /\ Len(Append(l, e)) = Len(l) + 1
          /\ Append(l, e)[Len(l) + 1] = e
          /\ \A i \in 1..Len(l) : Append(l, e)[i] = l[i]
      BY <2>1, <2>4, AppendEvent
    <3> QED
      BY <2>2, <3>1
  <2>6. LegalLog(Append(l, e), b)
    BY <2>0, <2>1, <2>4, <2>5 DEF LegalLog
  <2>7. try_from_events(Append(l, e)) = "Held"
    BY <2>0, <2>5, <2>6, LogFacts, Zenon
  <2> QED
    BY <2>2, <2>3, <2>5, <2>6, <2>7
<1> QED
  BY <1>1, <1>2

\* settle and cancel that execute end an open log and keep what it holds.
LEMMA CloseFacts ==
    ASSUME NEW l, NEW a, LegalLog(l, a), NEW type \in {"Settled", "Canceled"},
           NEW from \in SUBSET {"Open", "Held"}, type = "Settled" => from = {"Held"},
           Command(l, from, Event(type, 0)).result = "Executed"
    PROVE  /\ try_from_events(l) \in from
           /\ LegalLog(Command(l, from, Event(type, 0)).events, a)
           /\ try_from_events(Command(l, from, Event(type, 0)).events) = type
           /\ Len(Command(l, from, Event(type, 0)).events) = Len(l) + 1
           /\ ~Moved(Command(l, from, Event(type, 0)).events)
<1> DEFINE e == Event(type, 0)
<1>1. e \in InvoiceEvent /\ e.type = type
  BY EventTypes DEF InvoiceEventType
<1>2. try_from_events(l) \in from /\ Command(l, from, e).events = Append(l, e)
  BY DEF Command
<1>3. l \in Seq(InvoiceEvent) /\ Len(l) \in {1, 2} /\ a \in 0..MaxAmt
      /\ (Len(l) = 2 => a # 0) /\ (Len(l) = 1 => a = 0 /\ type = "Canceled")
  <2>1. try_from_events(l) \in {"Open", "Held"} /\ l \in Seq(InvoiceEvent) /\ a \in 0..MaxAmt
    BY <1>2, Zenon DEF LegalLog
  <2>2. Len(l) = 1 => a = 0
    BY DEF LegalLog
  <2>3. type = "Settled" => try_from_events(l) = "Held"
    BY <1>2
  <2>4. /\ try_from_events(l) = "Open" <=> Len(l) = 1
        /\ try_from_events(l) = "Held" <=> Len(l) = 2 /\ a # 0
    BY LogFacts
  <2> QED
    BY <2>1, <2>2, <2>3, <2>4
<1>4. /\ Append(l, e) \in Seq(InvoiceEvent) /\ Len(Append(l, e)) = Len(l) + 1
      /\ Append(l, e)[Len(l) + 1] = e
      /\ \A i \in 1..Len(l) : Append(l, e)[i] = l[i]
  BY <1>1, <1>3, AppendEvent
<1>5. LegalLog(Append(l, e), a) /\ try_from_events(Append(l, e)) = type /\ ~Moved(Append(l, e))
  <2>1. CASE Len(l) = 1
    <3>1. /\ Len(Append(l, e)) = 2 /\ Append(l, e)[2] = e /\ Append(l, e)[1] = l[1]
          /\ l[1].type = "Created" /\ a = 0 /\ type = "Canceled"
      BY <1>3, <1>4, <2>1 DEF LegalLog
    <3> QED
      BY <1>1, <1>3, <1>4, <3>1 DEF LegalLog, try_from_events, Moved
  <2>2. CASE Len(l) = 2
    <3>1. /\ Len(Append(l, e)) = 3 /\ Append(l, e)[3] = e
          /\ Append(l, e)[1] = l[1] /\ Append(l, e)[2] = l[2] /\ a # 0
          /\ l[1].type = "Created" /\ l[2].type = "HtlcHeld" /\ l[2].amt = a
      BY <1>3, <1>4, <2>2 DEF LegalLog
    <3> QED
      BY <1>1, <1>3, <1>4, <3>1 DEF LegalLog, try_from_events, Moved
  <2> QED
    BY <1>3, <2>1, <2>2
<1> QED
  BY <1>2, <1>4, <1>5, Zenon

------------------------------------------------------------------------------
(* What stays true while LND and the rows move on *)

\* LND's states are passed through in one direction, and it parks more, not less.
Advance(st, amt, st2, amt2) ==
    /\ st \in {"Accepted", "Settled", "Canceled"} => st2 \in {"Accepted", "Settled", "Canceled"}
    /\ st \in LndFinal => st2 = st
    /\ st2 = "Canceled" \/ amt <= amt2

\* A row grows, and keeps what it holds.
Grown(row, row2) ==
    /\ Len(row) < Len(row2)
    /\ held_amount_msat(row) # 0 => held_amount_msat(row2) = held_amount_msat(row)

Moves ==
    \A h \in Hash :
        /\ Advance(lnd[h], paid[h], lnd'[h], paid'[h])
        /\ paid'[h] \in 0..MaxAmt
        /\ log'[h] = log[h] \/ Grown(log[h], log'[h])
        /\ Len(log'[h]) \in Nat

\* An update stays true.
LEMMA UpdateLater ==
    ASSUME NEW u, NEW st, NEW amt \in 0..MaxAmt, NEW st2, NEW amt2 \in 0..MaxAmt,
           UpdateOK(u, st, amt), Advance(st, amt, st2, amt2)
    PROVE  UpdateOK(u, st2, amt2)
<1>1. u.amt \in 0..MaxAmt
  BY DEF UpdateOK, InvoiceUpdate
<1>2. MaxAmt \in Nat
  BY ConstantsAssumption
<1> QED
  BY <1>1, <1>2 DEF UpdateOK, Advance, LndFinal

\* What a task knows stays true.
LEMMA TaskLater ==
    ASSUME NEW t, NEW row, NEW row2, NEW st, NEW st2,
           NEW amt \in 0..MaxAmt, NEW amt2 \in 0..MaxAmt,
           TaskOK(t, row, st, amt), Advance(st, amt, st2, amt2),
           row2 = row \/ Grown(row, row2), Len(row) \in Nat, Len(row2) \in Nat
    PROVE  TaskOK(t, row2, st2, amt2)
<1>1. t.amt \in 0..MaxAmt /\ MaxAmt \in Nat
  BY ConstantsAssumption DEF TaskOK, Task
<1>2. ASSUME LoadedFrom(t.ent, row) PROVE LoadedFrom(t.ent, row2)
  <2>1. Len(t.ent) \in Nat
    BY <1>2, LogFacts DEF LoadedFrom
  <2> QED
    BY <1>2, <2>1 DEF LoadedFrom, Grown
<1>3. \/ t.pc = "idle"
      \/ /\ t.hash \in Hash
         /\ t.pc # "load" => LoadedFrom(t.ent, row2)
  BY <1>2 DEF TaskOK
<1>4. t.pc = "hold" => st2 = "Canceled" \/ t.amt <= amt2
  BY <1>1 DEF TaskOK, Advance, LndFinal
<1>5. t.pc \in {"rpc", "settle"} =>
         st2 = "Canceled" \/ (held_amount_msat(t.ent) <= t.amt /\ t.amt <= amt2)
  BY <1>1 DEF TaskOK, Advance, LndFinal
<1> QED
  BY <1>3, <1>4, <1>5 DEF TaskOK, Advance, LndFinal

\* No update is sent or taken.
LEMMA UpdatesStay ==
    ASSUME TypeOK, UpdatesTrue, Moves, UNCHANGED <<strm, chan>>
    PROVE  UpdatesTrue'
<1>1. \A h \in Hash : paid[h] \in 0..MaxAmt
  BY DEF TypeOK
<1>2. ASSUME NEW h \in Hash, NEW i \in 1..Len(strm[h])
      PROVE  strm[h][i].hash = h /\ UpdateOK(strm[h][i], lnd'[h], paid'[h])
  BY <1>1, <1>2, UpdateLater DEF UpdatesTrue, Moves
<1>3. ASSUME NEW i \in 1..Len(chan)
      PROVE  UpdateOK(chan[i], lnd'[chan[i].hash], paid'[chan[i].hash])
  <2>1. UpdateOK(chan[i], lnd[chan[i].hash], paid[chan[i].hash]) /\ chan[i].hash \in Hash
    BY <1>3 DEF UpdatesTrue, UpdateOK, InvoiceUpdate
  <2> QED
    BY <1>1, <2>1, UpdateLater DEF Moves
<1> QED
  BY <1>2, <1>3 DEF UpdatesTrue

\* The stream of one hash is replaced, the channel is not.
LEMMA StreamSet ==
    ASSUME TypeOK, UpdatesTrue, Moves, UNCHANGED chan, NEW h \in Hash,
           NEW q \in Seq(InvoiceUpdate), strm' = [strm EXCEPT ![h] = q],
           \A i \in 1..Len(q) : q[i].hash = h /\ UpdateOK(q[i], lnd'[h], paid'[h])
    PROVE  UpdatesTrue' /\ strm' \in [Hash -> Seq(InvoiceUpdate)]
<1>1. \A g \in Hash : paid[g] \in 0..MaxAmt
  BY DEF TypeOK
<1>2. strm' \in [Hash -> Seq(InvoiceUpdate)]
      /\ strm'[h] = q /\ \A g \in Hash \ {h} : strm'[g] = strm[g]
  BY DEF TypeOK
<1>3. ASSUME NEW g \in Hash, NEW i \in 1..Len(strm'[g])
      PROVE  strm'[g][i].hash = g /\ UpdateOK(strm'[g][i], lnd'[g], paid'[g])
  <2>1. CASE g = h
    BY <1>2, <1>3, <2>1
  <2>2. CASE g # h
    BY <1>1, <1>2, <1>3, <2>2, UpdateLater DEF UpdatesTrue, Moves
  <2> QED
    BY <2>1, <2>2
<1>4. ASSUME NEW i \in 1..Len(chan)
      PROVE  UpdateOK(chan[i], lnd'[chan[i].hash], paid'[chan[i].hash])
  <2>1. UpdateOK(chan[i], lnd[chan[i].hash], paid[chan[i].hash]) /\ chan[i].hash \in Hash
    BY <1>4 DEF UpdatesTrue, UpdateOK, InvoiceUpdate
  <2> QED
    BY <1>1, <2>1, UpdateLater DEF Moves
<1> QED
  BY <1>2, <1>3, <1>4 DEF UpdatesTrue

\* LND sends a true update, if it is listened to.
LEMMA EmitFacts ==
    ASSUME TypeOK, UpdatesTrue, Moves, UNCHANGED chan, NEW h \in Hash,
           NEW st \in LndState, NEW a \in 0..MaxAmt, Emit(h, st, a),
           UpdateOK(Update(h, st, a), lnd'[h], paid'[h])
    PROVE  UpdatesTrue' /\ strm' \in [Hash -> Seq(InvoiceUpdate)]
<1> DEFINE u == Update(h, st, a)
           q == Append(strm[h], u)
<1>1. CASE lst[h] = "open"
  <2>1. u \in InvoiceUpdate /\ u.hash = h
    BY DEF Update, InvoiceUpdate
  <2>2. strm[h] \in Seq(InvoiceUpdate)
    BY DEF TypeOK
  <2>3. q \in Seq(InvoiceUpdate) /\ Len(q) = Len(strm[h]) + 1 /\ Len(strm[h]) \in Nat
        /\ q[Len(strm[h]) + 1] = u /\ \A i \in 1..Len(strm[h]) : q[i] = strm[h][i]
    BY <2>1, <2>2
  <2>4. \A i \in 1..Len(strm[h]) :
           strm[h][i].hash = h /\ UpdateOK(strm[h][i], lnd'[h], paid'[h])
    BY UpdateLater DEF UpdatesTrue, Moves, TypeOK
  <2>5. \A i \in 1..Len(q) : q[i].hash = h /\ UpdateOK(q[i], lnd'[h], paid'[h])
    BY <2>1, <2>3, <2>4
  <2>6. strm' = [strm EXCEPT ![h] = q]
    BY <1>1 DEF Emit
  <2> QED
    BY <2>3, <2>5, <2>6, StreamSet, Zenon
<1>2. CASE lst[h] # "open"
  BY <1>2, UpdatesStay DEF Emit, TypeOK
<1> QED
  BY <1>1, <1>2

\* No task takes a step.
LEMMA TasksStay ==
    ASSUME TypeOK, TasksKnow, Moves, UNCHANGED wk
    PROVE  TasksKnow'
<1>1. SUFFICES ASSUME NEW w \in Worker
               PROVE  TaskOK(wk[w], log'[wk[w].hash], lnd'[wk[w].hash], paid'[wk[w].hash])
  BY DEF TasksKnow
<1>2. TaskOK(wk[w], log[wk[w].hash], lnd[wk[w].hash], paid[wk[w].hash])
  BY DEF TasksKnow
<1>3. CASE wk[w].pc = "idle"
  BY <1>2, <1>3 DEF TaskOK
<1>4. CASE wk[w].pc # "idle"
  <2>1. wk[w].hash \in Hash
    BY <1>2, <1>4 DEF TaskOK
  <2>2. log[wk[w].hash] \in Seq(InvoiceEvent) /\ paid[wk[w].hash] \in 0..MaxAmt
    BY <2>1 DEF TypeOK
  <2>3. Len(log[wk[w].hash]) \in Nat
    BY <2>2
  <2> QED
    BY <1>2, <2>1, <2>2, <2>3, TaskLater DEF Moves
<1> QED
  BY <1>3, <1>4

\* One task takes a step, and knows what it should then.
LEMMA TaskSet ==
    ASSUME TypeOK, TasksKnow, Moves, NEW w \in Worker, NEW t,
           wk' = [wk EXCEPT ![w] = t],
           TaskOK(t, log'[t.hash], lnd'[t.hash], paid'[t.hash])
    PROVE  TasksKnow' /\ wk' \in [Worker -> Task]
<1>1. wk' \in [Worker -> Task] /\ wk'[w] = t /\ \A v \in Worker \ {w} : wk'[v] = wk[v]
  BY DEF TypeOK, TaskOK
<1>2. ASSUME NEW v \in Worker \ {w}
      PROVE  TaskOK(wk[v], log'[wk[v].hash], lnd'[wk[v].hash], paid'[wk[v].hash])
  <2>1. TaskOK(wk[v], log[wk[v].hash], lnd[wk[v].hash], paid[wk[v].hash])
    BY DEF TasksKnow
  <2>2. CASE wk[v].pc = "idle"
    BY <2>1, <2>2 DEF TaskOK
  <2>3. CASE wk[v].pc # "idle"
    <3>1. wk[v].hash \in Hash
      BY <2>1, <2>3 DEF TaskOK
    <3>2. log[wk[v].hash] \in Seq(InvoiceEvent) /\ paid[wk[v].hash] \in 0..MaxAmt
      BY <3>1 DEF TypeOK
    <3>3. Len(log[wk[v].hash]) \in Nat
      BY <3>2
    <3> QED
      BY <2>1, <3>1, <3>2, <3>3, TaskLater DEF Moves
  <2> QED
    BY <2>2, <2>3
<1> QED
  BY <1>1, <1>2 DEF TasksKnow

\* A task that ends knows nothing.
LEMMA IdleKnows ==
    ASSUME NEW row, NEW st, NEW amt
    PROVE  TaskOK(Idle, row, st, amt) /\ Idle.pc = "idle"
<1>1. <<>> \in Seq(InvoiceEvent) /\ 0 \in 0..MaxAmt
  BY ConstantsAssumption
<1> QED
  BY <1>1 DEF TaskOK, Task, Idle

\* Rows, LND and its amounts stay as they are.
LEMMA StandStill ==
    ASSUME TypeOK, UNCHANGED <<log, lnd, paid>>
    PROVE  Moves
<1>1. \A h \in Hash : log[h] \in Seq(InvoiceEvent) /\ paid[h] \in 0..MaxAmt
  BY DEF TypeOK
<1>2. \A h \in Hash : Len(log[h]) \in Nat /\ paid[h] <= paid[h]
  BY <1>1, ConstantsAssumption
<1> QED
  BY <1>1, <1>2 DEF Moves, Advance

\* A watched invoice stays watched while listeners only end with a final state.
LEMMA WatchStay ==
    ASSUME ReturnedIsWatched, Moves, lost \subseteq lost',
           \A h \in Hash : crt'[h] = "returned" /\ recovery' = "finished"
                          /\ try_from_events(log'[h]) \in {"Open", "Held"} =>
               /\ crt[h] = "returned" /\ recovery = "finished"
               /\ try_from_events(log[h]) \in {"Open", "Held"},
           \A h \in Hash : lst[h] # "off" => lst'[h] # "off" \/ lnd'[h] \in LndFinal
    PROVE  ReturnedIsWatched'
BY DEF ReturnedIsWatched, State, Moves, Advance

------------------------------------------------------------------------------
(* The request, the listeners and LND *)

\* AddHoldInvoice: the invoice was not known to anybody.
LEMMA AddStep ==
    ASSUME IInv, NEW h \in Hash, add_hold_invoice(h)
    PROVE  IInv'
<1> USE DEF IInv
<1>1. /\ UNCHANGED <<log, outbox, paid, lst, strm, chan, wk, recovery, lost>>
      /\ crt[h] = "none"
      /\ lnd' = [lnd EXCEPT ![h] = "Open"] \/ lnd' = lnd
      /\ \/ crt' = [crt EXCEPT ![h] = "create"] /\ lnd' = [lnd EXCEPT ![h] = "Open"]
         \/ crt' = [crt EXCEPT ![h] = "failed"]
  BY DEF add_hold_invoice
<1>2. /\ RowOK(log[h], outbox[h], lnd[h], paid[h], crt[h], lst[h])
      /\ lnd[h] = "None" /\ log[h] = <<>> /\ lst[h] = "off"
  BY <1>1 DEF RowsOK, RowOK
<1>3. TypeOK'
  <2>1. lnd' \in [Hash -> LndState \cup {"None"}]
    BY <1>1 DEF TypeOK, LndState
  <2>2. crt' \in [Hash -> {"none", "create", "returned", "failed"}]
    BY <1>1, Zenon DEF TypeOK
  <2> QED
    BY <1>1, <2>1, <2>2 DEF TypeOK
<1>4. /\ lnd'[h] \in {"None", "Open"} /\ crt'[h] \in {"create", "failed"}
      /\ crt'[h] = "create" => lnd'[h] = "Open"
      /\ \A g \in Hash \ {h} : lnd'[g] = lnd[g] /\ crt'[g] = crt[g]
  BY <1>1, <1>2 DEF TypeOK
<1>5. RowsOK'
  <2>1. RowOK(log[h], outbox[h], lnd'[h], paid[h], crt'[h], lst[h])
    <3>1. held_amount_msat(log[h]) = 0 /\ try_from_events(log[h]) = "Absent"
      BY <1>2 DEF RowOK, held_amount_msat, Occurrences, try_from_events
    <3> QED
      BY <1>2, <1>4, <3>1 DEF RowOK, Terminal
  <2> QED
    BY <1>1, <1>4, <2>1 DEF RowsOK
<1>6. Moves
  <2>1. \A g \in Hash : log[g] \in Seq(InvoiceEvent) /\ paid[g] \in 0..MaxAmt
    BY DEF TypeOK
  <2>2. \A g \in Hash : Len(log[g]) \in Nat /\ paid[g] <= paid[g]
    BY <2>1, ConstantsAssumption
  <2> QED
    BY <1>1, <1>2, <1>4, <2>1, <2>2 DEF Moves, Advance, LndFinal
<1>7. UpdatesTrue' /\ TasksKnow'
  BY <1>1, <1>6, UpdatesStay, TasksStay
<1>8. ReturnedIsWatched'
  BY <1>1, <1>4, <1>6, WatchStay
<1> QED
  BY <1>3, <1>5, <1>7, <1>8

\* spawn_listener_for starts listeners and ends none.
LEMMA SpawnFacts ==
    ASSUME TypeOK, NEW hs, spawn_listener_for(hs)
    PROVE  /\ lst' \in [Hash -> {"off", "connecting", "open"}]
           /\ \A g \in Hash : lst[g] # "off" => lst'[g] = lst[g]
           /\ \A g \in Hash : g \in hs => lst'[g] # "off"
           /\ \A g \in Hash : g \notin hs => lst'[g] = lst[g]
BY DEF TypeOK, spawn_listener_for

\* The insert of the row of an invoice that LND has, and its listener.
LEMMA CreateStep ==
    ASSUME IInv, NEW h \in Hash, create(h)
    PROVE  IInv'
<1> USE DEF IInv
<1>1. /\ UNCHANGED <<outbox, lnd, paid, strm, chan, wk, recovery, lost>>
      /\ crt[h] = "create"
      /\ \/ /\ log' = [log EXCEPT ![h] = into_events] /\ spawn_listener_for({h})
            /\ crt' = [crt EXCEPT ![h] = "returned"]
         \/ /\ log' = log \/ log' = [log EXCEPT ![h] = into_events]
            /\ lst' = lst
            /\ crt' = [crt EXCEPT ![h] = "failed"]
  BY DEF create
<1>2. /\ RowOK(log[h], outbox[h], lnd[h], paid[h], crt[h], lst[h])
      /\ lnd[h] # "None" /\ log[h] = <<>> /\ lnd[h] \notin {"Accepted", "Settled"}
  BY <1>1 DEF RowsOK, RowOK
<1>3. LegalLog(into_events, 0) /\ try_from_events(into_events) = "Open"
      /\ Len(into_events) = 1 /\ into_events \in Seq(InvoiceEvent)
      /\ held_amount_msat(into_events) = 0 /\ into_events # <<>>
  BY NewLog, LogFacts, Zenon DEF LegalLog
<1>4. /\ log' \in [Hash -> Seq(InvoiceEvent)] /\ log'[h] \in {<<>>, into_events}
      /\ crt'[h] \in {"returned", "failed"}
      /\ crt'[h] = "returned" => log'[h] = into_events /\ spawn_listener_for({h})
      /\ \A g \in Hash \ {h} : log'[g] = log[g] /\ crt'[g] = crt[g]
  BY <1>1, <1>2, <1>3, Zenon DEF TypeOK
<1>5. /\ lst' \in [Hash -> {"off", "connecting", "open"}]
      /\ \A g \in Hash \ {h} : lst'[g] = lst[g]
      /\ crt'[h] = "returned" => lst'[h] # "off"
      /\ \A g \in Hash : lst[g] # "off" => lst'[g] # "off"
  <2>1. CASE spawn_listener_for({h})
    BY <2>1, SpawnFacts
  <2>2. CASE lst' = lst /\ crt' = [crt EXCEPT ![h] = "failed"]
    BY <2>2 DEF TypeOK
  <2> QED
    BY <1>1, <2>1, <2>2
<1>6. TypeOK'
  <2>1. crt' \in [Hash -> {"none", "create", "returned", "failed"}]
    BY <1>1, Zenon DEF TypeOK
  <2> QED
    BY <1>1, <1>4, <1>5, <2>1 DEF TypeOK
<1>7. RowsOK'
  <2>1. held_amount_msat(<<>>) = 0 /\ try_from_events(<<>>) = "Absent"
    BY DEF held_amount_msat, Occurrences, try_from_events
  <2>2. RowOK(log'[h], outbox[h], lnd[h], paid[h], crt'[h], lst'[h])
    BY <1>2, <1>3, <1>4, <2>1 DEF RowOK, Terminal
  <2> QED
    BY <1>1, <1>4, <1>5, <2>2 DEF RowsOK
<1>8. Moves
  <2>1. \A g \in Hash : log[g] \in Seq(InvoiceEvent) /\ paid[g] \in 0..MaxAmt
    BY DEF TypeOK
  <2>2. \A g \in Hash : Len(log[g]) \in Nat /\ paid[g] <= paid[g]
    BY <2>1, ConstantsAssumption
  <2>3. Len(<<>>) = 0
    OBVIOUS
  <2>4. held_amount_msat(<<>>) = 0
    BY DEF held_amount_msat, Occurrences
  <2>5. log'[h] = log[h] \/ Grown(log[h], log'[h])
    BY <1>2, <1>3, <1>4, <2>3, <2>4 DEF Grown
  <2>6. \A g \in Hash : Len(log'[g]) \in Nat /\ (log'[g] = log[g] \/ Grown(log[g], log'[g]))
    BY <1>4, <2>5
  <2>7. \A g \in Hash : Advance(lnd[g], paid[g], lnd[g], paid[g])
    BY <2>2 DEF Advance
  <2> QED
    BY <1>1, <2>1, <2>6, <2>7 DEF Moves
<1>9. UpdatesTrue' /\ TasksKnow'
  BY <1>1, <1>8, UpdatesStay, TasksStay
<1>10. ReturnedIsWatched'
  BY <1>1, <1>4, <1>5 DEF ReturnedIsWatched, State
<1> QED
  BY <1>6, <1>7, <1>9, <1>10

\* SubscribeSingleInvoice tells LND's state as it is; a stream that ends takes its
\* updates with it.
LEMMA StreamStep ==
    ASSUME IInv, NEW h \in Hash, Subscribe(h) \/ StreamEnds(h)
    PROVE  IInv'
<1> USE DEF IInv
<1> DEFINE u == Update(h, lnd[h], paid[h])
<1>1. /\ UNCHANGED <<log, outbox, lnd, paid, crt, chan, wk, recovery>>
      /\ lst[h] # "off" /\ \E k \in {"connecting", "open"} : lst' = [lst EXCEPT ![h] = k]
      /\ \E q \in {<<>>, <<u>>} : strm' = [strm EXCEPT ![h] = q]
      /\ lost' = lost \/ lost' = lost \ {h}
  BY DEF Subscribe, StreamEnds
<1>2. RowOK(log[h], outbox[h], lnd[h], paid[h], crt[h], lst[h]) /\ lnd[h] \in LndState
  BY <1>1 DEF RowsOK, RowOK, TypeOK
<1>3. u \in InvoiceUpdate /\ u.hash = h /\ UpdateOK(u, lnd[h], paid[h])
  <2>1. /\ u.hash = h /\ u.state = lnd[h] /\ u.amt = paid[h] /\ paid[h] \in 0..MaxAmt
        /\ u \in InvoiceUpdate
    BY <1>2 DEF Update, InvoiceUpdate, TypeOK
  <2>2. lnd[h] = "Accepted" => paid[h] # 0
    BY <1>2 DEF RowOK
  <2>3. paid[h] <= paid[h]
    <3>1. \A b \in 0..MaxAmt : b <= b
      BY ConstantsAssumption
    <3> QED
      BY <2>1, <3>1, Zenon
  <2> QED
    BY <2>1, <2>2, <2>3 DEF UpdateOK
<1>4. Moves
  BY <1>1, StandStill
<1>5. UpdatesTrue' /\ strm' \in [Hash -> Seq(InvoiceUpdate)]
  <2>1. PICK q \in {<<>>, <<u>>} : strm' = [strm EXCEPT ![h] = q]
    BY <1>1, Zenon
  <2>2. q \in Seq(InvoiceUpdate) /\ \A i \in 1..Len(q) : q[i] = u
    <3>1. u \in InvoiceUpdate
      BY <1>3
    <3> HIDE DEF u
    <3>2. CASE q = <<>>
      BY <3>2
    <3>3. CASE q = <<u>>
      BY <3>1, <3>3
    <3> QED
      BY <2>1, <3>2, <3>3
  <2>3. \A i \in 1..Len(q) : q[i].hash = h /\ UpdateOK(q[i], lnd'[h], paid'[h])
    BY <1>1, <1>3, <2>2
  <2> QED
    BY <1>1, <1>4, <2>1, <2>2, <2>3, StreamSet, Zenon
<1>6. /\ lst' \in [Hash -> {"off", "connecting", "open"}] /\ lst'[h] # "off"
      /\ \A g \in Hash \ {h} : lst'[g] = lst[g]
  BY <1>1 DEF TypeOK
<1>7. TypeOK'
  BY <1>1, <1>5, <1>6 DEF TypeOK
<1>8. RowsOK'
  <2>1. RowOK(log[h], outbox[h], lnd[h], paid[h], crt[h], lst'[h])
    BY <1>1, <1>2, <1>6, Zenon DEF RowOK
  <2> QED
    BY <1>1, <1>6, <2>1 DEF RowsOK
<1>9. TasksKnow'
  BY <1>1, <1>4, TasksStay, Zenon
<1>10. ReturnedIsWatched'
  BY <1>1, <1>6, Zenon DEF ReturnedIsWatched, State
<1> QED
  BY <1>5, <1>7, <1>8, <1>9, <1>10

\* drive_stream moves a true update to the channel, and ends with a final one.
LEMMA DriveStep ==
    ASSUME IInv, NEW h \in Hash, drive_stream(h)
    PROVE  IInv'
<1> USE DEF IInv
<1> DEFINE u == Head(strm[h])
<1>1. /\ UNCHANGED <<log, outbox, lnd, paid, crt, wk, recovery>>
      /\ strm[h] # <<>> /\ strm[h] \in Seq(InvoiceUpdate) /\ chan \in Seq(InvoiceUpdate)
      /\ lost \subseteq lost' /\ lost' \subseteq lost \cup {h}
      /\ \E q \in {<<>>, Tail(strm[h])} : strm' = [strm EXCEPT ![h] = q]
      /\ chan' = chan \/ (chan' = Append(chan, u) /\ Len(chan) < ChanCap)
      /\ lst' = lst \/ (lst' = [lst EXCEPT ![h] = "off"] /\ u.state \in LndFinal)
  BY DEF drive_stream, Dropped, TypeOK
<1>2. /\ u = strm[h][1] /\ u \in InvoiceUpdate /\ u.hash = h
      /\ UpdateOK(u, lnd[h], paid[h])
  <2>1. u = strm[h][1] /\ u \in InvoiceUpdate /\ 1 \in 1..Len(strm[h])
    BY <1>1
  <2> QED
    BY <2>1 DEF UpdatesTrue
<1>3. Moves
  BY <1>1, StandStill
<1>4. UpdatesTrue' /\ strm' \in [Hash -> Seq(InvoiceUpdate)]
      /\ chan' \in Seq(InvoiceUpdate) /\ Len(chan') <= ChanCap
  <2>1. PICK q \in {<<>>, Tail(strm[h])} : strm' = [strm EXCEPT ![h] = q]
    BY <1>1, Zenon
  <2>2. /\ q \in Seq(InvoiceUpdate)
        /\ \A i \in 1..Len(q) : i + 1 \in 1..Len(strm[h]) /\ q[i] = strm[h][i + 1]
    <3>1. CASE q = <<>>
      BY <3>1
    <3>2. CASE q = Tail(strm[h])
      BY <1>1, <3>2
    <3> QED
      BY <2>1, <3>1, <3>2
  <2>3. \A i \in 1..Len(q) : q[i].hash = h /\ UpdateOK(q[i], lnd[h], paid[h])
    BY <2>2 DEF UpdatesTrue
  <2>4. /\ strm' \in [Hash -> Seq(InvoiceUpdate)] /\ strm'[h] = q
        /\ \A g \in Hash \ {h} : strm'[g] = strm[g]
    BY <2>1, <2>2 DEF TypeOK
  <2>5. \A g \in Hash : \A i \in 1..Len(strm'[g]) :
           strm'[g][i].hash = g /\ UpdateOK(strm'[g][i], lnd[g], paid[g])
    BY <2>3, <2>4 DEF UpdatesTrue
  <2>6. /\ chan' \in Seq(InvoiceUpdate) /\ Len(chan') <= ChanCap
        /\ \A i \in 1..Len(chan') : chan'[i] = u \/ (i \in 1..Len(chan) /\ chan'[i] = chan[i])
    <3>1. CASE chan' = chan
      BY <3>1 DEF TypeOK
    <3>2. CASE chan' = Append(chan, u) /\ Len(chan) < ChanCap
      BY <1>1, <1>2, <3>2, ConstantsAssumption
    <3> QED
      BY <1>1, <3>1, <3>2
  <2>7. \A i \in 1..Len(chan') :
           UpdateOK(chan'[i], lnd[chan'[i].hash], paid[chan'[i].hash])
    BY <1>2, <2>6 DEF UpdatesTrue
  <2> QED
    BY <1>1, <2>4, <2>5, <2>6, <2>7 DEF UpdatesTrue
<1>5. /\ lst' \in [Hash -> {"off", "connecting", "open"}]
      /\ lst'[h] = lst[h] \/ (lst'[h] = "off" /\ lnd[h] \in LndFinal)
      /\ \A g \in Hash \ {h} : lst'[g] = lst[g]
  BY <1>1, <1>2, Zenon DEF TypeOK, UpdateOK
<1>6. TypeOK'
  BY <1>1, <1>4, <1>5 DEF TypeOK
<1>7. RowsOK'
  <2>1. RowOK(log[h], outbox[h], lnd[h], paid[h], crt[h], lst'[h])
    BY <1>5 DEF RowsOK, RowOK
  <2> QED
    BY <1>1, <1>5, <2>1 DEF RowsOK
<1>8. TasksKnow'
  BY <1>1, <1>3, TasksStay, Zenon
<1>9. ReturnedIsWatched'
  BY <1>1, <1>3, <1>5, WatchStay, Zenon
<1> QED
  BY <1>4, <1>6, <1>7, <1>8, <1>9

\* The row of an invoice that is open or accepted allows LND to park or give up.
LEMMA ParkRow ==
    ASSUME TypeOK, RowsOK, NEW h \in Hash, lnd[h] \in {"Open", "Accepted"},
           NEW st \in {"Accepted", "Canceled"}, NEW a \in 0..MaxAmt,
           st = "Accepted" => a # 0 /\ paid[h] <= a /\ crt[h] = "returned"
    PROVE  RowOK(log[h], outbox[h], st, a, crt[h], lst[h])
<1> DEFINE held == held_amount_msat(log[h])
<1>1. RowOK(log[h], outbox[h], lnd[h], paid[h], crt[h], lst[h])
  BY DEF RowsOK
<1>2. LegalLog(log[h], held) /\ held <= paid[h] /\ try_from_events(log[h]) \notin Terminal
  BY <1>1 DEF RowOK, Terminal
<1>3. held \in Nat
  BY <1>2, LogFacts
<1>4. paid[h] \in Nat /\ a \in Nat
  BY ConstantsAssumption DEF TypeOK
<1> HIDE DEF held
<1>5. st = "Accepted" => held <= a
  BY <1>2, <1>3, <1>4
<1> QED
  BY <1>1, <1>2, <1>5, Zenon DEF RowOK, held

\* LND parks, or gives up: the row allows it, and what is on the way stays true.
LEMMA LndStep ==
    ASSUME IInv, NEW h \in Hash, NEW st \in {"Accepted", "Canceled"}, NEW a \in 0..MaxAmt,
           lnd[h] \in {"Open", "Accepted"}, lnd' = [lnd EXCEPT ![h] = st],
           paid' = [paid EXCEPT ![h] = a], Emit(h, st, a),
           st = "Accepted" => a # 0 /\ paid[h] <= a /\ crt[h] = "returned",
           UNCHANGED <<log, outbox, crt, lst, chan, wk, recovery, lost>>
    PROVE  IInv'
<1> USE DEF IInv
<1>1. /\ lnd' \in [Hash -> LndState \cup {"None"}] /\ paid' \in [Hash -> 0..MaxAmt]
      /\ lnd'[h] = st /\ paid'[h] = a
      /\ \A g \in Hash \ {h} : lnd'[g] = lnd[g] /\ paid'[g] = paid[g]
  BY DEF TypeOK, LndState
<1>2. Moves
  <2>1. \A g \in Hash : log[g] \in Seq(InvoiceEvent) /\ paid[g] \in 0..MaxAmt
    BY DEF TypeOK
  <2>2. \A g \in Hash : Len(log[g]) \in Nat /\ paid[g] <= paid[g]
    BY <2>1, ConstantsAssumption
  <2> QED
    BY <1>1, <2>1, <2>2 DEF Moves, Advance, LndFinal
<1>3. UpdateOK(Update(h, st, a), lnd'[h], paid'[h])
  <2>1. a <= a /\ st \in LndState
    BY ConstantsAssumption DEF LndState
  <2> QED
    BY <1>1, <2>1 DEF UpdateOK, Update, InvoiceUpdate, LndFinal
<1>4. UpdatesTrue' /\ strm' \in [Hash -> Seq(InvoiceUpdate)]
  <2>1. st \in LndState
    BY DEF LndState
  <2> QED
    BY <1>2, <1>3, <2>1, EmitFacts
<1>5. TypeOK'
  BY <1>1, <1>4 DEF TypeOK
<1>6. RowsOK'
  <2>1. RowOK(log[h], outbox[h], st, a, crt[h], lst[h])
    BY ParkRow
  <2> QED
    BY <1>1, <2>1 DEF RowsOK
<1>7. TasksKnow'
  BY <1>2, TasksStay
<1>8. ReturnedIsWatched'
  BY <1>2, WatchStay, Zenon
<1> QED
  BY <1>4, <1>5, <1>6, <1>7, <1>8

------------------------------------------------------------------------------
(* The consumer and the sweep *)

\* find_by_payment_hash: what is loaded is the row as it stands.
LEMMA LoadSelf ==
    ASSUME IInv, NEW h \in Hash
    PROVE  /\ LegalLog(log[h], held_amount_msat(log[h])) /\ log[h] \in Seq(InvoiceEvent)
           /\ log[h] # <<>> => LoadedFrom(log[h], log[h])
<1>1. LegalLog(log[h], held_amount_msat(log[h])) /\ log[h] \in Seq(InvoiceEvent)
  BY DEF IInv, RowsOK, RowOK, TypeOK
<1>2. Len(log[h]) <= Len(log[h])
  BY <1>1
<1> QED
  BY <1>1, <1>2 DEF LoadedFrom

\* A step that only moves one task, and takes an update from the channel if it is
\* the consumer's.
LEMMA TaskOnly ==
    ASSUME IInv, NEW w \in Worker, NEW t, wk' = [wk EXCEPT ![w] = t],
           TaskOK(t, log[t.hash], lnd[t.hash], paid[t.hash]),
           UNCHANGED <<log, outbox, lnd, paid, crt, lst, strm, recovery>>,
           lost \subseteq lost', lost' \subseteq Hash,
           chan' = chan \/ (chan # <<>> /\ chan' = Tail(chan))
    PROVE  IInv'
<1> USE DEF IInv
<1>1. Moves
  BY StandStill
<1>2. TasksKnow' /\ wk' \in [Worker -> Task]
  BY <1>1, TaskSet, Zenon
<1>3. /\ chan' \in Seq(InvoiceUpdate) /\ Len(chan') <= ChanCap
      /\ \A i \in 1..Len(chan') : \E j \in 1..Len(chan) : chan'[i] = chan[j]
  <2>1. chan \in Seq(InvoiceUpdate) /\ Len(chan) <= ChanCap
    BY DEF TypeOK
  <2>2. CASE chan' = chan
    BY <2>1, <2>2
  <2>3. CASE chan # <<>> /\ chan' = Tail(chan)
    <3>1. /\ chan' \in Seq(InvoiceUpdate) /\ Len(chan') = Len(chan) - 1 /\ Len(chan) \in Nat
          /\ \A i \in 1..Len(chan') : i + 1 \in 1..Len(chan) /\ chan'[i] = chan[i + 1]
      BY <2>1, <2>3
    <3>2. Len(chan') <= ChanCap
      BY <2>1, <3>1, ConstantsAssumption
    <3> QED
      BY <3>1, <3>2
  <2> QED
    BY <2>2, <2>3, Zenon
<1>4. UpdatesTrue'
  <2>1. \A i \in 1..Len(chan') : UpdateOK(chan'[i], lnd[chan'[i].hash], paid[chan'[i].hash])
    BY <1>3 DEF UpdatesTrue
  <2> QED
    BY <2>1 DEF UpdatesTrue
<1>5. TypeOK'
  BY <1>2, <1>3 DEF TypeOK
<1>6. RowsOK'
  BY DEF RowsOK
<1>7. ReturnedIsWatched'
  BY <1>1, WatchStay
<1> QED
  BY <1>2, <1>4, <1>5, <1>6, <1>7

\* handle_invoice_update acts on a true update and the row as it stands.
LEMMA HandleStep ==
    ASSUME IInv, handle_invoice_update
    PROVE  IInv'
<1> USE DEF IInv
<1> DEFINE u == Head(chan)
           ent == log[u.hash]
           To(pc, e, a) == [pc |-> pc, hash |-> u.hash, ent |-> e, amt |-> a]
<1>1. /\ UNCHANGED <<log, outbox, lnd, paid, crt, lst, strm, recovery>>
      /\ chan # <<>> /\ chan' = Tail(chan) /\ "consumer" \in Worker
  BY DEF handle_invoice_update, Worker
<1>2. /\ u \in InvoiceUpdate /\ u.hash \in Hash /\ u.amt \in 0..MaxAmt
      /\ UpdateOK(u, lnd[u.hash], paid[u.hash])
  <2>1. u = chan[1] /\ 1 \in 1..Len(chan)
    BY <1>1 DEF TypeOK
  <2>2. UpdateOK(u, lnd[u.hash], paid[u.hash])
    BY <2>1 DEF UpdatesTrue
  <2> QED
    BY <2>2 DEF UpdateOK, InvoiceUpdate
<1>3. lost \subseteq Hash /\ wk["consumer"] \in Task /\ wk = [wk EXCEPT !["consumer"] = wk["consumer"]]
  BY <1>1 DEF TypeOK
<1>4. ASSUME NEW pc \in {"hold", "cancel"}, wk' = [wk EXCEPT !["consumer"] = To(pc, ent, u.amt)],
             lost' = lost, ent # <<>>,
             pc = "hold" => u.state = "Accepted" /\ try_from_events(ent) = "Open",
             pc = "cancel" => u.state = "Canceled"
      PROVE  IInv'
  <2>1. LoadedFrom(ent, ent) /\ ent \in Seq(InvoiceEvent)
    BY <1>2, <1>4, LoadSelf
  <2>2. /\ To(pc, ent, u.amt) \in Task /\ To(pc, ent, u.amt).pc = pc
        /\ To(pc, ent, u.amt).hash = u.hash /\ To(pc, ent, u.amt).ent = ent
        /\ To(pc, ent, u.amt).amt = u.amt
    BY <1>2, <2>1 DEF Task
  <2>3. TaskOK(To(pc, ent, u.amt), ent, lnd[u.hash], paid[u.hash])
    <3> HIDE DEF To, ent
    <3> QED
      BY <1>2, <1>4, <2>1, <2>2 DEF TaskOK, UpdateOK, LndFinal
  <2> QED
    BY <1>1, <1>3, <1>4, <2>2, <2>3, TaskOnly, Zenon
<1>5. CASE u.state = "Accepted" /\ mark_held(ent, u.amt).result = "Executed"
           /\ At("consumer", "hold", u.hash, ent, u.amt) /\ UNCHANGED lost
  <2>1. try_from_events(ent) = "Open"
    BY <1>5 DEF mark_held, Command
  <2>2. ent # <<>>
    BY <2>1 DEF try_from_events
  <2> QED
    BY <1>4, <1>5, <2>1, <2>2 DEF At
<1>6. CASE At("consumer", "load", u.hash, <<>>, 0) /\ UNCHANGED lost
  <2>1. <<>> \in Seq(InvoiceEvent) /\ 0 \in 0..MaxAmt
    BY ConstantsAssumption
  <2>2. TaskOK(To("load", <<>>, 0), ent, lnd[u.hash], paid[u.hash])
    BY <1>2, <2>1 DEF TaskOK, Task
  <2>3. To("load", <<>>, 0).hash = u.hash /\ wk' = [wk EXCEPT !["consumer"] = To("load", <<>>, 0)]
    BY <1>6 DEF At
  <2> QED
    BY <1>1, <1>3, <1>6, <2>2, <2>3, TaskOnly, Zenon
<1>7. CASE u.state = "Canceled" /\ ent # <<>>
           /\ At("consumer", "cancel", u.hash, ent, u.amt) /\ UNCHANGED lost
  BY <1>4, <1>7 DEF At
<1>8. CASE UNCHANGED wk /\ (UNCHANGED lost \/ Dropped(TRUE, u.hash))
  <2>1. lost \subseteq lost' /\ lost' \subseteq Hash
    BY <1>2, <1>3, <1>8 DEF Dropped
  <2>2. TaskOK(wk["consumer"], log[wk["consumer"].hash], lnd[wk["consumer"].hash],
               paid[wk["consumer"].hash])
    BY <1>1 DEF TasksKnow
  <2> QED
    BY <1>1, <1>3, <1>8, <2>1, <2>2, TaskOnly
<1> QED
  BY <1>5, <1>6, <1>7, <1>8, Zenon DEF handle_invoice_update

\* A task ends, or goes on with a Held row it has just loaded.
LEMMA LoadStep ==
    ASSUME IInv, NEW w \in Worker, NEW h \in Hash, LoadHeld(w, h),
           UNCHANGED <<log, outbox, lnd, paid, crt, lst, strm, chan, recovery, lost>>
    PROVE  IInv'
<1> DEFINE t == [pc |-> "lookup", hash |-> h, ent |-> log[h], amt |-> 0]
<1>1. lost \subseteq Hash
  BY DEF IInv, TypeOK
<1>2. CASE wk' = [wk EXCEPT ![w] = Idle]
  <2>1. TaskOK(Idle, log[Idle.hash], lnd[Idle.hash], paid[Idle.hash])
    BY IdleKnows
  <2> QED
    BY <1>1, <1>2, <2>1, TaskOnly, Zenon
<1>3. CASE State(h) = "Held" /\ At(w, "lookup", h, log[h], 0)
  <2>1. try_from_events(log[h]) = "Held" /\ log[h] # <<>>
    BY <1>3 DEF State, try_from_events
  <2>2. LoadedFrom(log[h], log[h]) /\ log[h] \in Seq(InvoiceEvent) /\ 0 \in 0..MaxAmt
    BY <2>1, LoadSelf, ConstantsAssumption
  <2>3. t \in Task /\ t.hash = h
    BY <2>2, Zenon DEF Task
  <2>4. TaskOK(t, log[t.hash], lnd[t.hash], paid[t.hash])
    BY <2>1, <2>2, <2>3, Zenon DEF TaskOK
  <2>5. wk' = [wk EXCEPT ![w] = t]
    BY <1>3 DEF At
  <2> HIDE DEF t
  <2> QED
    BY <1>1, <2>4, <2>5, TaskOnly, Zenon
<1> QED
  BY <1>2, <1>3 DEF LoadHeld
==============================================================================
