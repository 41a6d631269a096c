-------------------------- MODULE EventStreamProofs --------------------------
(***************************************************************************)
(* Theorems about EventStream for every page size, channel capacity,       *)
(* backfill limit and set of faults: events arrive in order, and the ones  *)
(* that never arrive are the excused ones.                                 *)
(***************************************************************************)
EXTENDS EventStream, FiniteSetTheorems, TLAPS

Active == pc \in {"backfill", "live"}

\* Everything that was handed to the subscriber's channel.
Sent == Range(got) \cup Range(chan)

\* Types, and what the loop holds in each of its states.
Shape ==
    /\ rows \subseteq Sequence /\ open \subseteq Sequence /\ next \in 1..(MaxSeq + 1)
    /\ excused \subseteq rows
    /\ pc \in {"none", "backfill", "live", "closed"}
    /\ conn \in {"off", "connecting", "listening", "broken"}
    /\ ntf \in Seq(rows \cup {ListenDisconnected})
    /\ got \in Seq(rows) /\ chan \in Seq(rows) /\ batch \subseteq rows
    /\ Len(chan) <= ChanCap /\ Cardinality(batch) <= BatchSize
    /\ last \in rows \cup {0}
    /\ ~Active => batch = {}
    /\ pc = "none" => chan = <<>>
    /\ Active => conn # "off"
    /\ open \cap rows = {} /\ \A s \in open \cup rows : s < next

\* Received, in the channel, read: in this order, and each of them increasing.
Increasing ==
    /\ \A i, j \in DOMAIN got : i < j => got[i] < got[j]
    /\ \A i, j \in DOMAIN chan : i < j => chan[i] < chan[j]
    /\ \A i \in DOMAIN got, j \in DOMAIN chan : got[i] < chan[j]
    /\ Active => \A e \in Sent : e <= last
    /\ \A e \in batch : last < e

\* What was passed over is excused: below an event sent, below last_sent_sequence,
\* and below an event read.
Passed ==
    /\ \A e \in Sent, s \in rows : s <= e => s \in Sent \cup excused
    /\ Active => \A s \in rows : s <= last => s \in Sent \cup excused
    /\ \A e \in batch, s \in rows : last < s /\ s < e => s \in batch \cup excused

\* In the live tail a row that is not yet sent is notified before any greater one,
\* or a lost LISTEN comes first; and one of the two is there already unless the
\* connection is broken and nobody noticed.
Pending ==
    pc = "live" => \A s \in rows : last < s /\ s \notin batch \cup excused =>
        /\ \A k \in DOMAIN ntf : ntf[k] > s =>
              \E i \in DOMAIN ntf : i < k /\ ntf[i] \in {s, ListenDisconnected}
        /\ conn # "broken" => \E i \in DOMAIN ntf : ntf[i] \in {s, ListenDisconnected}

IInv == Shape /\ Increasing /\ Passed /\ Pending

------------------------------------------------------------------------------
(* Sequences and pages *)

\* Append adds one element at the end.
LEMMA AppendFacts ==
    ASSUME NEW S, NEW q \in Seq(S), NEW e \in S
    PROVE  /\ Append(q, e) \in Seq(S)
           /\ Len(Append(q, e)) = Len(q) + 1
           /\ DOMAIN q = 1..Len(q) /\ Len(q) \in Nat
           /\ DOMAIN Append(q, e) = 1..(Len(q) + 1)
           /\ Append(q, e)[Len(q) + 1] = e
           /\ \A i \in 1..Len(q) : Append(q, e)[i] = q[i]
           /\ Range(Append(q, e)) = Range(q) \cup {e}
<1>1. /\ Append(q, e) \in Seq(S) /\ Len(Append(q, e)) = Len(q) + 1
      /\ DOMAIN q = 1..Len(q) /\ Len(q) \in Nat
      /\ DOMAIN Append(q, e) = 1..(Len(q) + 1)
      /\ Append(q, e)[Len(q) + 1] = e
      /\ \A i \in 1..Len(q) : Append(q, e)[i] = q[i]
  OBVIOUS
<1>2. DOMAIN Append(q, e) = DOMAIN q \cup {Len(q) + 1}
  BY <1>1
<1>3. Range(Append(q, e)) = Range(q) \cup {e}
  BY <1>1, <1>2 DEF Range
<1> QED
  BY <1>1, <1>3

\* Tail drops the first one.
LEMMA TailFacts ==
    ASSUME NEW S, NEW q \in Seq(S), q # <<>>
    PROVE  /\ Tail(q) \in Seq(S)
           /\ Len(q) \in Nat \ {0} /\ DOMAIN q = 1..Len(q)
           /\ Len(Tail(q)) = Len(q) - 1
           /\ DOMAIN Tail(q) = 1..(Len(q) - 1)
           /\ \A i \in 1..(Len(q) - 1) : Tail(q)[i] = q[i + 1]
           /\ Head(q) = q[1] /\ Head(q) \in S
           /\ Range(q) = Range(Tail(q)) \cup {Head(q)}
<1>1. /\ Tail(q) \in Seq(S)
      /\ Len(q) \in Nat \ {0} /\ DOMAIN q = 1..Len(q)
      /\ Len(Tail(q)) = Len(q) - 1
      /\ DOMAIN Tail(q) = 1..(Len(q) - 1)
      /\ \A i \in 1..(Len(q) - 1) : Tail(q)[i] = q[i + 1]
      /\ Head(q) = q[1] /\ Head(q) \in S
  OBVIOUS
<1>2. ASSUME NEW x \in Range(q) PROVE x \in Range(Tail(q)) \cup {Head(q)}
  <2>1. PICK i \in DOMAIN q : x = q[i]
    BY DEF Range
  <2>2. CASE i = 1
    BY <2>1, <2>2, <1>1
  <2>3. CASE i # 1
    <3>1. i - 1 \in DOMAIN Tail(q) /\ Tail(q)[i - 1] = x
      BY <2>1, <2>3, <1>1
    <3> QED
      BY <3>1 DEF Range
  <2> QED
    BY <2>2, <2>3
<1>3. ASSUME NEW x \in Range(Tail(q)) PROVE x \in Range(q)
  <2>1. PICK i \in DOMAIN Tail(q) : x = Tail(q)[i]
    BY DEF Range
  <2>2. i + 1 \in DOMAIN q /\ q[i + 1] = x
    BY <2>1, <1>1
  <2> QED
    BY <2>2 DEF Range
<1>4. Head(q) \in Range(q)
  BY <1>1 DEF Range
<1> QED
  BY <1>1, <1>2, <1>3, <1>4

\* A set of sequence numbers is finite.
LEMMA FiniteRows ==
    ASSUME NEW S \in SUBSET Sequence
    PROVE  IsFiniteSet(S) /\ Cardinality(S) \in Nat
<1>1. IsFiniteSet(Sequence)
  BY OutboxAssumption, FS_Interval DEF Sequence
<1> QED
  BY <1>1, FS_Subset, FS_CardinalityType

\* fetch_after_batch: the page is a prefix of what is left, and empty only if
\* nothing is left.
LEMMA PageFacts ==
    ASSUME rows \subseteq Sequence, NEW n \in Nat, NEW page \in fetch_after_batch(n)
    PROVE  /\ page \subseteq rows /\ \A e \in page : n < e
           /\ Cardinality(page) <= BatchSize
           /\ \A e \in page, s \in rows : n < s /\ s < e => s \in page
           /\ page = {} => \A s \in rows : s <= n
<1>1. page \subseteq After(n) /\ \A s \in page, t \in After(n) \ page : s < t
  BY DEF fetch_after_batch
<1>2. After(n) \subseteq rows /\ After(n) \subseteq Sequence /\ page \subseteq Sequence
  BY <1>1 DEF After
<1>3. Cardinality(page) \in Nat /\ count_after(n) \in Nat /\ IsFiniteSet(After(n))
  BY <1>2, FiniteRows DEF count_after
<1>4. Cardinality(page) = IF count_after(n) < BatchSize THEN count_after(n) ELSE BatchSize
  BY DEF fetch_after_batch
<1>5. Cardinality(page) <= BatchSize
  BY <1>3, <1>4, OutboxAssumption
<1>6. ASSUME page = {} PROVE \A s \in rows : s <= n
  <2>1. Cardinality(page) = 0
    BY <1>6, FS_EmptySet
  <2>2. count_after(n) = 0
    BY <2>1, <1>3, <1>4, OutboxAssumption
  <2>3. After(n) = {}
    BY <2>2, <1>3, FS_EmptySet DEF count_after
  <2> QED
    BY <2>3 DEF After, Sequence
<1>7. \A e \in page, s \in rows : n < s /\ s < e => s \in page
  BY <1>1, <1>2 DEF After, Sequence
<1> QED
  BY <1>1, <1>2, <1>5, <1>6, <1>7 DEF After, Sequence

------------------------------------------------------------------------------
(* The invariant is inductive: one lemma per action that changes it *)

\* Closing the stream keeps what was sent and forgets what was read.
LEMMA CloseKeeps ==
    ASSUME IInv, CloseStream, UNCHANGED <<logVars, last, chan, got, excused>>
    PROVE  IInv'
<1> USE DEF IInv, CloseStream, logVars
<1>1. ~Active' /\ batch' = {} /\ pc' # "none" /\ pc' # "live"
  BY DEF Active
<1>2. Shape'
  <2>1. Cardinality(batch') = 0
    BY <1>1, FS_EmptySet
  <2>2. ntf' \in Seq((rows \cup {ListenDisconnected})')
    OBVIOUS
  <2> QED
    BY <1>1, <2>1, <2>2, OutboxAssumption DEF Shape
<1>3. Increasing'
  BY <1>1 DEF Increasing
<1>4. Passed'
  BY <1>1 DEF Passed, Sent
<1>5. Pending'
  BY <1>1 DEF Pending
<1> QED
  BY <1>2, <1>3, <1>4, <1>5

\* subscribe starts from the greatest event received.
LEMMA SubscribeKeeps ==
    ASSUME IInv, subscribe
    PROVE  IInv'
<1> USE DEF IInv
<1>1. CASE UNCHANGED <<last, pc, listenVars>>
  <2>1. UNCHANGED vars
    BY <1>1 DEF subscribe, vars, streamVars
  <2> QED
    BY <2>1 DEF Shape, Increasing, Passed, Pending, Sent, Active, vars, streamVars,
       logVars, listenVars
<1>2. CASE last' = Cursor /\ pc' = "backfill" /\ start_listening
  <2>1. /\ UNCHANGED <<next, open, rows, batch, chan, got, excused>>
        /\ conn' = "connecting" /\ ntf' = <<>> /\ pc' = "backfill" /\ last' = Cursor
        /\ chan = <<>> /\ batch = {}
    BY <1>2 DEF subscribe, start_listening, logVars, Shape, Active
  <2>2. got \in Seq(rows) /\ rows \subseteq Nat \ {0}
    BY DEF Shape, Sequence
  <2>3. Range(chan) = {}
    BY <2>1 DEF Range
  <2>4. \/ got = <<>> /\ Cursor = 0 /\ Range(got) = {}
        \/ Cursor \in Range(got) /\ Cursor \in rows /\ \A e \in Range(got) : e <= Cursor
    <3>1. CASE got = <<>>
      BY <3>1 DEF Cursor, Range
    <3>2. CASE got # <<>>
      <4>1. Cursor = got[Len(got)] /\ Len(got) \in DOMAIN got /\ DOMAIN got = 1..Len(got)
        BY <2>2, <3>2 DEF Cursor
      <4>2. \A i \in DOMAIN got : got[i] \in rows
        BY <2>2, <4>1
      <4>3. \A i \in DOMAIN got : i < Len(got) => got[i] < got[Len(got)]
        BY <4>1 DEF Increasing
      <4>4. ASSUME NEW i \in DOMAIN got PROVE got[i] <= got[Len(got)]
        <5>1. got[i] \in Nat /\ got[Len(got)] \in Nat
          BY <2>2, <4>1, <4>2, Zenon
        <5>2. i = Len(got) \/ i < Len(got)
          BY <2>2, <4>1
        <5> QED
          BY <4>3, <5>1, <5>2
      <4> QED
        BY <4>1, <4>2, <4>4 DEF Range
    <3> QED
      BY <3>1, <3>2
  <2>5. Shape'
    <3>1. ntf' \in Seq((rows \cup {ListenDisconnected})')
      BY <2>1
    <3> QED
      BY <2>1, <2>4, <3>1 DEF Shape, Active
  <2>6. Increasing'
    BY <2>1, <2>3, <2>4 DEF Increasing, Sent
  <2>7. Passed'
    BY <2>1, <2>2, <2>3, <2>4 DEF Passed, Sent
  <2>8. Pending'
    BY <2>1 DEF Pending
  <2> QED
    BY <2>5, <2>6, <2>7, <2>8
<1> QED
  BY <1>1, <1>2 DEF subscribe

\* A page of the backfill leaves nothing out; an empty one means that there is
\* nothing to wait for.
LEMMA BackfillKeeps ==
    ASSUME IInv, backfill
    PROVE  IInv'
<1> USE DEF IInv
<1>1. CASE CloseStream
  BY <1>1, CloseKeeps DEF backfill
<1>2. CASE batch' \in fetch_after_batch(last) /\ pc' = (IF batch' = {} THEN "live" ELSE pc)
           /\ UNCHANGED listenVars
  <2>1. /\ UNCHANGED <<next, open, rows, conn, ntf, last, chan, got, excused>>
        /\ pc = "backfill" /\ pc' \in {"backfill", "live"}
        /\ pc' = "live" => batch' = {}
    BY <1>2 DEF backfill, logVars, listenVars
  <2>2. rows \subseteq Sequence /\ last \in Nat
    BY DEF Shape, Sequence
  <2>3. /\ batch' \subseteq rows /\ \A e \in batch' : last < e
        /\ Cardinality(batch') <= BatchSize
        /\ \A e \in batch', s \in rows : last < s /\ s < e => s \in batch'
        /\ batch' = {} => \A s \in rows : s <= last
    BY <1>2, <2>2, PageFacts
  <2>4. Shape'
    BY <2>1, <2>3 DEF Shape, Active
  <2>5. Increasing'
    BY <2>1, <2>3 DEF Increasing, Sent, Active
  <2>6. Passed'
    BY <2>1, <2>3 DEF Passed, Sent, Active
  <2>7. Pending'
    BY <2>1, <2>2, <2>3 DEF Pending, Sequence
  <2> QED
    BY <2>4, <2>5, <2>6, <2>7
<1> QED
  BY <1>1, <1>2 DEF backfill

\* What is sent next is the least of what was read.
LEMMA SendKeeps ==
    ASSUME IInv, send
    PROVE  IInv'
<1> USE DEF IInv
<1>1. CASE CloseStream /\ UNCHANGED <<chan, last>>
  BY <1>1, CloseKeeps DEF send
<1>2. ASSUME Len(chan) < ChanCap, NEW e \in Earliest(batch),
             chan' = Append(chan, e), last' = e, batch' = batch \ {e},
             UNCHANGED <<pc, listenVars>>
      PROVE  IInv'
  <2>1. UNCHANGED <<next, open, rows, conn, ntf, pc, got, excused>>
    BY <1>2 DEF send, logVars, listenVars
  <2>2. e \in batch /\ \A t \in batch : e <= t
    BY <1>2 DEF Earliest
  <2>3. rows \subseteq Nat \ {0} /\ batch \subseteq rows /\ last \in Nat /\ e \in Nat
        /\ chan \in Seq(rows) /\ e \in rows /\ Active /\ last < e
    BY <2>2 DEF Shape, Sequence, Increasing
  <2>4. /\ chan' \in Seq(rows) /\ Len(chan') = Len(chan) + 1
        /\ DOMAIN chan = 1..Len(chan) /\ Len(chan) \in Nat
        /\ DOMAIN chan' = 1..(Len(chan) + 1) /\ chan'[Len(chan) + 1] = e
        /\ \A i \in 1..Len(chan) : chan'[i] = chan[i]
        /\ Range(chan') = Range(chan) \cup {e}
    BY <1>2, <2>3, AppendFacts
  <2>5. Sent' = Sent \cup {e} /\ Active'
    BY <2>1, <2>3, <2>4 DEF Sent, Active
  <2>6. \A x \in Sent : x \in Nat /\ x <= last
    <3>1. Sent \subseteq rows
      BY <2>3 DEF Sent, Range, Shape
    <3> QED
      BY <2>3, <3>1 DEF Increasing
  <2>7. Shape'
    <3>1. Cardinality(batch') <= BatchSize
      <4>1. batch \in SUBSET Sequence
        BY DEF Shape
      <4>2. IsFiniteSet(batch) /\ Cardinality(batch) \in Nat
        BY <4>1, FiniteRows
      <4>3. Cardinality(batch') = Cardinality(batch) - 1
        BY <1>2, <2>2, <4>2, FS_RemoveElement, Zenon
      <4>4. Cardinality(batch) <= BatchSize
        BY DEF Shape
      <4> QED
        BY <4>2, <4>3, <4>4, OutboxAssumption
    <3>2. Len(chan') <= ChanCap
      BY <1>2, <2>4, ChanAssumption
    <3> QED
      BY <1>2, <2>1, <2>3, <2>4, <2>5, <3>1, <3>2 DEF Shape, Active
  <2>8. Increasing'
    <3>1. \A i \in DOMAIN chan : chan[i] \in Sent
      BY DEF Sent, Range
    <3>2. \A i \in DOMAIN got : got[i] \in Sent
      BY DEF Sent, Range
    <3>3. \A i, j \in DOMAIN chan' : i < j => chan'[i] < chan'[j]
      BY <2>3, <2>4, <2>6, <3>1 DEF Increasing
    <3>4. \A i \in DOMAIN got, j \in DOMAIN chan' : got[i] < chan'[j]
      BY <2>3, <2>4, <2>6, <3>2 DEF Increasing
    <3>5. \A x \in Sent' : x <= last'
      BY <1>2, <2>3, <2>5, <2>6
    <3>6. \A x \in batch' : last' < x
      BY <1>2, <2>2, <2>3
    <3> QED
      BY <2>1, <3>3, <3>4, <3>5, <3>6 DEF Increasing
  <2>9. Passed'
    <3>1. ASSUME NEW s \in rows, s <= e PROVE s \in Sent' \cup excused
      <4>1. s <= last \/ (last < s /\ s < e) \/ s = e
        BY <2>3, <3>1
      <4>2. CASE s <= last
        BY <2>3, <2>5, <4>2 DEF Passed
      <4>3. CASE last < s /\ s < e
        BY <2>2, <2>3, <4>3 DEF Passed
      <4> QED
        BY <2>5, <4>1, <4>2, <4>3
    <3>2. \A x \in Sent', s \in rows : s <= x => s \in Sent' \cup excused
      BY <2>5, <3>1 DEF Passed
    <3>3. ASSUME NEW x \in batch', NEW s \in rows, last' < s, s < x
          PROVE  s \in batch' \cup excused
      <4>1. last < s /\ x \in batch /\ s # e
        BY <1>2, <2>3, <3>3
      <4> QED
        BY <1>2, <3>3, <4>1 DEF Passed
    <3> QED
      BY <1>2, <2>1, <3>1, <3>2, <3>3 DEF Passed
  <2>10. Pending'
    <3>1. ASSUME NEW s \in rows, last' < s, s \notin batch' \cup excused
          PROVE  last < s /\ s \notin batch \cup excused
      BY <1>2, <2>3, <3>1
    <3> QED
      BY <2>1, <3>1 DEF Pending
  <2> QED
    BY <2>7, <2>8, <2>9, <2>10
<1> QED
  BY <1>1, <1>2 DEF send

\* A notification that is taken was due: whatever it passed over is excused.
LEMMA LiveKeeps ==
    ASSUME IInv, live
    PROVE  IInv'
<1> USE DEF IInv
<1> DEFINE n == Head(ntf)
<1>1. /\ UNCHANGED <<next, open, rows, last, chan, got>>
      /\ pc = "live" /\ batch = {} /\ ntf # <<>>
  BY DEF live, logVars
<1>2. /\ rows \subseteq Nat \ {0} /\ last \in Nat
      /\ ntf \in Seq(rows \cup {ListenDisconnected})
  BY DEF Shape, Sequence
<1>3. /\ Tail(ntf) \in Seq(rows \cup {ListenDisconnected})
      /\ Len(ntf) \in Nat \ {0} /\ DOMAIN ntf = 1..Len(ntf)
      /\ DOMAIN Tail(ntf) = 1..(Len(ntf) - 1)
      /\ \A i \in 1..(Len(ntf) - 1) : Tail(ntf)[i] = ntf[i + 1]
      /\ n = ntf[1] /\ n \in rows \cup {ListenDisconnected}
  BY <1>1, <1>2, TailFacts
<1>4. ASSUME n # ListenDisconnected, ntf' = Tail(ntf), UNCHANGED <<pc, conn>>,
             excused \subseteq excused',
             \A s \in rows : last < s /\ s \notin batch' \cup excused' => s # n
      PROVE  Pending'
  <2>1. ASSUME NEW s \in rows, last < s, s \notin batch' \cup excused'
        PROVE  /\ \A k \in DOMAIN ntf' : ntf'[k] > s =>
                     \E i \in DOMAIN ntf' : i < k /\ ntf'[i] \in {s, ListenDisconnected}
               /\ conn' # "broken" =>
                     \E i \in DOMAIN ntf' : ntf'[i] \in {s, ListenDisconnected}
    <3>1. /\ \A k \in DOMAIN ntf : ntf[k] > s =>
                \E i \in DOMAIN ntf : i < k /\ ntf[i] \in {s, ListenDisconnected}
          /\ conn # "broken" => \E i \in DOMAIN ntf : ntf[i] \in {s, ListenDisconnected}
      BY <1>1, <1>4, <2>1 DEF Pending
    <3>2. ntf[1] \notin {s, ListenDisconnected}
      BY <1>3, <1>4, <2>1
    <3>3. \A i \in DOMAIN ntf : ntf[i] \in {s, ListenDisconnected} =>
             i - 1 \in DOMAIN ntf' /\ ntf'[i - 1] = ntf[i]
      BY <1>3, <1>4, <3>2
    <3>4. ASSUME NEW k \in DOMAIN ntf', ntf'[k] > s
          PROVE  \E i \in DOMAIN ntf' : i < k /\ ntf'[i] \in {s, ListenDisconnected}
      <4>1. k + 1 \in DOMAIN ntf /\ ntf[k + 1] > s /\ k \in Nat
        BY <1>3, <1>4, <3>4
      <4>2. PICK i \in DOMAIN ntf : i < k + 1 /\ ntf[i] \in {s, ListenDisconnected}
        BY <3>1, <4>1
      <4>3. i - 1 \in DOMAIN ntf' /\ ntf'[i - 1] \in {s, ListenDisconnected} /\ i - 1 < k
        BY <1>3, <3>3, <4>1, <4>2
      <4> QED
        BY <4>3
    <3>5. ASSUME conn' # "broken"
          PROVE  \E i \in DOMAIN ntf' : ntf'[i] \in {s, ListenDisconnected}
      <4>1. PICK i \in DOMAIN ntf : ntf[i] \in {s, ListenDisconnected}
        BY <1>4, <3>1, <3>5
      <4>2. i - 1 \in DOMAIN ntf' /\ ntf'[i - 1] \in {s, ListenDisconnected}
        BY <3>3, <4>1
      <4> QED
        BY <4>2
    <3> QED
      BY <3>4, <3>5
  <2> QED
    BY <1>1, <2>1 DEF Pending
<1>5. CASE CloseStream /\ UNCHANGED excused
  BY <1>5, CloseKeeps DEF live
<1>6. CASE pc' = "backfill" /\ ntf' = Tail(ntf) /\ UNCHANGED <<batch, conn, excused>>
  <2>1. Shape'
    BY <1>1, <1>3, <1>6 DEF Shape, Active
  <2>2. Increasing' /\ Passed'
    BY <1>1, <1>6 DEF Increasing, Passed, Sent, Active
  <2>3. Pending'
    BY <1>6 DEF Pending
  <2> QED
    BY <2>1, <2>2, <2>3
<1>7. CASE n > last /\ batch' = {n} /\ ntf' = Tail(ntf) /\ UNCHANGED <<pc, conn, excused>>
  <2>1. n \in rows /\ n # ListenDisconnected
    BY <1>2, <1>3, <1>7 DEF ListenDisconnected
  <2>2. ASSUME NEW s \in rows, last < s, s < n PROVE s \in excused
    <3>1. SUFFICES ASSUME s \notin excused PROVE FALSE
      OBVIOUS
    <3>2. 1 \in DOMAIN ntf /\ ntf[1] > s
      BY <1>2, <1>3, <2>1, <2>2
    <3>3. \E i \in DOMAIN ntf : i < 1 /\ ntf[i] \in {s, ListenDisconnected}
      BY <1>1, <2>2, <3>1, <3>2 DEF Pending
    <3> QED
      BY <1>3, <3>3
  <2>3. Cardinality(batch') <= BatchSize
    <3>1. Cardinality({n}) = 1
      BY FS_Singleton, Zenon
    <3>2. BatchSize \in Nat \ {0}
      BY OutboxAssumption
    <3> QED
      BY <1>7, <3>1, <3>2
  <2>4. Shape'
    BY <1>1, <1>3, <1>7, <2>1, <2>3 DEF Shape, Active
  <2>5. Increasing'
    BY <1>1, <1>2, <1>7, <2>1 DEF Increasing, Sent, Active
  <2>6. Passed'
    BY <1>1, <1>7, <2>2 DEF Passed, Sent, Active
  <2>7. Pending'
    BY <1>4, <1>7, <2>1
  <2> QED
    BY <2>4, <2>5, <2>6, <2>7
<1>8. CASE /\ n # ListenDisconnected /\ ntf' = Tail(ntf) /\ UNCHANGED <<pc, batch, conn>>
           /\ excused' = IF n > last THEN excused \cup {n} ELSE excused
  <2>1. n \in rows /\ excused \subseteq excused' /\ excused' \subseteq excused \cup {n}
    BY <1>3, <1>8
  <2>2. Shape'
    BY <1>1, <1>3, <1>8, <2>1 DEF Shape, Active
  <2>3. Increasing'
    BY <1>1, <1>8 DEF Increasing, Sent, Active
  <2>4. Passed'
    BY <1>1, <1>8, <2>1 DEF Passed, Sent, Active
  <2>5. ASSUME NEW s \in rows, last < s, s \notin batch' \cup excused' PROVE s # n
    BY <1>2, <1>8, <2>1, <2>5
  <2>6. Pending'
    BY <1>4, <1>8, <2>1, <2>5
  <2> QED
    BY <2>2, <2>3, <2>4, <2>6
<1> QED
  BY <1>5, <1>6, <1>7, <1>8 DEF live

\* The subscriber takes what was sent first.
LEMMA ReceiveKeeps ==
    ASSUME IInv, Receive
    PROVE  IInv'
<1> USE DEF IInv
<1> DEFINE e == Head(chan)
<1>1. /\ UNCHANGED <<next, open, rows, conn, ntf, pc, last, batch, excused>>
      /\ chan # <<>> /\ chan' = Tail(chan) /\ got' = Append(got, e)
  BY DEF Receive, logVars, listenVars
<1>2. got \in Seq(rows) /\ chan \in Seq(rows) /\ rows \subseteq Nat
  BY DEF Shape, Sequence
<1>3. /\ chan' \in Seq(rows) /\ Len(chan) \in Nat \ {0} /\ Len(chan') = Len(chan) - 1
      /\ DOMAIN chan = 1..Len(chan) /\ DOMAIN chan' = 1..(Len(chan) - 1)
      /\ \A i \in 1..(Len(chan) - 1) : chan'[i] = chan[i + 1]
      /\ e = chan[1] /\ e \in rows /\ Range(chan) = Range(chan') \cup {e}
  BY <1>1, <1>2, TailFacts
<1>4. /\ got' \in Seq(rows) /\ DOMAIN got = 1..Len(got) /\ Len(got) \in Nat
      /\ DOMAIN got' = 1..(Len(got) + 1) /\ got'[Len(got) + 1] = e
      /\ \A i \in 1..Len(got) : got'[i] = got[i]
      /\ Range(got') = Range(got) \cup {e}
  BY <1>1, <1>2, <1>3, AppendFacts
<1>5. Sent' = Sent /\ Active' = Active
  BY <1>1, <1>3, <1>4 DEF Sent, Active
<1>6. Shape'
  <2>1. Len(chan') <= ChanCap
    BY <1>3, ChanAssumption DEF Shape
  <2> QED
    BY <1>1, <1>3, <1>4, <1>5, <2>1 DEF Shape
<1>7. Increasing'
  <2>1. ASSUME NEW i \in DOMAIN chan', NEW j \in DOMAIN chan', i < j
        PROVE  chan'[i] < chan'[j]
    <3>1. /\ i + 1 \in DOMAIN chan /\ j + 1 \in DOMAIN chan /\ i + 1 < j + 1
          /\ chan'[i] = chan[i + 1] /\ chan'[j] = chan[j + 1]
      BY <1>3, <2>1
    <3> QED
      BY <3>1 DEF Increasing
  <2>2. \A i \in DOMAIN got : got[i] < e
    BY <1>3 DEF Increasing
  <2>3. \A i \in DOMAIN chan' : e < chan'[i]
    BY <1>3 DEF Increasing
  <2>4. \A i, j \in DOMAIN got' : i < j => got'[i] < got'[j]
    BY <1>4, <2>2 DEF Increasing
  <2>5. ASSUME NEW i \in DOMAIN got', NEW j \in DOMAIN chan'
        PROVE  got'[i] < chan'[j]
    <3>1. j + 1 \in DOMAIN chan /\ chan'[j] = chan[j + 1]
      BY <1>3
    <3>2. CASE i \in DOMAIN got
      BY <1>4, <3>1, <3>2 DEF Increasing
    <3>3. CASE i = Len(got) + 1
      BY <1>4, <2>3, <3>3
    <3> QED
      BY <1>4, <3>2, <3>3
  <2> QED
    BY <1>1, <1>5, <2>1, <2>4, <2>5 DEF Increasing
<1>8. Passed' /\ Pending'
  BY <1>1, <1>5 DEF Passed, Pending
<1> QED
  BY <1>6, <1>7, <1>8

\* A stream that ends, or is torn down with events still in its channel: what
\* was received lies below them.
LEMMA EndKeeps ==
    ASSUME IInv, StreamEnd \/ Gone
    PROVE  IInv'
<1> USE DEF IInv
<1>1. /\ UNCHANGED <<next, open, rows, last, got, excused>>
      /\ pc' = "none" /\ batch' = {} /\ chan' = <<>>
      /\ (ntf' = <<>> /\ conn' = "off") \/ UNCHANGED <<ntf, conn>>
  BY DEF StreamEnd, Gone, logVars, listenVars, Shape, Active
<1>2. got \in Seq(rows) /\ chan \in Seq(rows) /\ rows \subseteq Nat
  BY DEF Shape, Sequence
<1>3. ~Active' /\ Sent' = Range(got) /\ Range(got) \subseteq Sent
  BY <1>1 DEF Active, Sent, Range
<1>4. Shape'
  <2>1. Cardinality(batch') = 0
    BY <1>1, FS_EmptySet
  <2>2. chan' \in Seq(rows) /\ Len(chan') = 0
    BY <1>1
  <2>3. ntf' \in Seq(rows \cup {ListenDisconnected})
    <3>1. ntf \in Seq(rows \cup {ListenDisconnected})
      BY DEF Shape
    <3>2. <<>> \in Seq(rows \cup {ListenDisconnected})
      OBVIOUS
    <3> QED
      BY <1>1, <3>1, <3>2, Zenon
  <2> QED
    BY <1>1, <1>3, <2>1, <2>2, <2>3, OutboxAssumption, ChanAssumption DEF Shape
<1>5. Increasing'
  BY <1>1, <1>3 DEF Increasing
<1>6. ASSUME NEW x \in Range(got), NEW s \in rows, s <= x PROVE s \in Range(got) \cup excused
  <2>1. s \in Sent \cup excused
    BY <1>3, <1>6 DEF Passed
  <2>2. ASSUME s \in Range(chan) PROVE FALSE
    <3>1. PICK i \in DOMAIN got : x = got[i]
      BY <1>6 DEF Range
    <3>2. PICK j \in DOMAIN chan : s = chan[j]
      BY <2>2 DEF Range
    <3>3. x < s
      BY <3>1, <3>2 DEF Increasing
    <3>4. DOMAIN got = 1..Len(got) /\ \A k \in 1..Len(got) : got[k] \in rows
      BY <1>2
    <3>5. x \in Nat /\ s \in Nat
      BY <1>2, <3>1, <3>4, Zenon
    <3> QED
      BY <1>6, <3>3, <3>5
  <2> QED
    BY <2>1, <2>2 DEF Sent
<1>7. Passed'
  BY <1>1, <1>3, <1>6 DEF Passed
<1>8. Pending'
  BY <1>1 DEF Pending
<1> QED
  BY <1>4, <1>5, <1>7, <1>8

\* publish_in_tx and a rollback touch neither the rows nor the stream.
LEMMA UncommittedKeeps ==
    ASSUME IInv, publish_in_tx \/ \E s \in Sequence : Rollback(s),
           UNCHANGED <<streamVars, excused>>
    PROVE  IInv'
<1> USE DEF IInv, streamVars
<1>1. UNCHANGED <<rows, conn, ntf, pc, last, batch, chan, got, excused>>
  BY DEF publish_in_tx, Rollback, listenVars
<1>2. Active' = Active /\ Sent' = Sent
  BY <1>1 DEF Active, Sent
<1>3. /\ open' \subseteq Sequence /\ next' \in 1..(MaxSeq + 1)
      /\ open' \cap rows = {} /\ \A s \in open' \cup rows : s < next'
  <2>1. MaxSeq \in Nat
    BY OutboxAssumption
  <2>2. CASE publish_in_tx
    BY <2>1, <2>2 DEF publish_in_tx, Shape, Sequence
  <2>3. CASE \E s \in Sequence : Rollback(s)
    BY <2>3 DEF Rollback, Shape
  <2> QED
    BY <2>2, <2>3
<1>4. Shape'
  BY <1>1, <1>2, <1>3 DEF Shape
<1>5. Increasing' /\ Passed' /\ Pending'
  BY <1>1, <1>2 DEF Increasing, Passed, Pending
<1> QED
  BY <1>4, <1>5

\* The connection task: an error it appends covers every row still to come.
LEMMA ListenerKeeps ==
    ASSUME IInv, Listener, UNCHANGED streamVars
    PROVE  IInv'
<1> USE DEF IInv, streamVars
<1>1. /\ UNCHANGED <<next, open, rows, pc, last, batch, chan, got, excused>>
      /\ \/ /\ ntf' = ntf /\ conn # "off"
            /\ conn' = "broken" \/ (conn # "broken" /\ conn' \in {"connecting", "listening"})
         \/ ntf' = Append(ntf, ListenDisconnected) /\ conn' = "connecting"
  BY DEF Listener, connection_loop, ListenBreaks, ListenNoticed, logVars
<1>2. Active' = Active /\ Sent' = Sent
  BY <1>1 DEF Active, Sent
<1>3. ntf \in Seq(rows \cup {ListenDisconnected})
  BY DEF Shape
<1>4. Increasing' /\ Passed'
  BY <1>1, <1>2 DEF Increasing, Passed
<1>5. CASE ntf' = ntf
  <2>1. Shape'
    BY <1>1, <1>2, <1>5 DEF Shape
  <2>2. conn' # "broken" => conn # "broken"
    BY <1>1, <1>5 DEF Listener, connection_loop, ListenBreaks, ListenNoticed
  <2>3. Pending'
    BY <1>1, <1>5, <2>2 DEF Pending
  <2> QED
    BY <1>4, <2>1, <2>3
<1>6. CASE ntf' = Append(ntf, ListenDisconnected) /\ conn' = "connecting"
  <2>1. /\ ntf' \in Seq(rows \cup {ListenDisconnected})
        /\ DOMAIN ntf = 1..Len(ntf) /\ Len(ntf) \in Nat
        /\ DOMAIN ntf' = 1..(Len(ntf) + 1) /\ ntf'[Len(ntf) + 1] = ListenDisconnected
        /\ \A i \in 1..Len(ntf) : ntf'[i] = ntf[i]
    BY <1>3, <1>6, AppendFacts
  <2>2. Shape'
    BY <1>1, <1>2, <1>6, <2>1 DEF Shape
  <2>3. ASSUME pc = "live", NEW s \in rows, last < s, s \notin batch \cup excused
        PROVE  /\ \A k \in DOMAIN ntf' : ntf'[k] > s =>
                     \E i \in DOMAIN ntf' : i < k /\ ntf'[i] \in {s, ListenDisconnected}
               /\ \E i \in DOMAIN ntf' : ntf'[i] \in {s, ListenDisconnected}
    <3>1. ASSUME NEW k \in DOMAIN ntf', ntf'[k] > s
          PROVE  \E i \in DOMAIN ntf' : i < k /\ ntf'[i] \in {s, ListenDisconnected}
      <4>1. s \in Nat \ {0}
        BY DEF Shape, Sequence
      <4>2. k \in DOMAIN ntf /\ ntf[k] > s
        BY <2>1, <3>1, <4>1 DEF ListenDisconnected
      <4>3. PICK i \in DOMAIN ntf : i < k /\ ntf[i] \in {s, ListenDisconnected}
        BY <2>3, <4>2 DEF Pending
      <4> QED
        BY <2>1, <4>3
    <3>2. Len(ntf) + 1 \in DOMAIN ntf'
      BY <2>1
    <3> QED
      BY <2>1, <3>1, <3>2
  <2>4. Pending'
    BY <1>1, <2>3 DEF Pending
  <2> QED
    BY <1>4, <2>2, <2>4
<1> QED
  BY <1>1, <1>5, <1>6

\* COMMIT: a row that is not excused is greater than all others, and is notified
\* now or found by the re-backfill that a disconnect in the channel brings.
LEMMA CommitKeeps ==
    ASSUME IInv, NEW r \in Sequence, CommitRow(r),
           excused' = IF Unheard(r) THEN excused \cup {r} ELSE excused,
           UNCHANGED streamVars
    PROVE  IInv'
<1> USE DEF IInv, streamVars
<1>1. /\ UNCHANGED <<next, conn, pc, last, batch, chan, got>>
      /\ r \in open /\ open' = open \ {r} /\ rows' = rows \cup {r}
      /\ ntf' = IF conn = "listening" THEN Append(ntf, r) ELSE ntf
  BY DEF CommitRow
<1>2. Active' = Active /\ Sent' = Sent
  BY <1>1 DEF Active, Sent
<1>3. /\ rows \subseteq Nat \ {0} /\ r \in Nat \ {0} /\ r \notin rows /\ last \in rows \cup {0}
      /\ excused \subseteq excused' /\ excused' \subseteq excused \cup {r}
  BY <1>1 DEF Shape, Sequence
<1>4. ASSUME r \notin excused' PROVE \A s \in rows : s < r
  BY <1>3, <1>4 DEF Unheard
<1>5. ASSUME r \notin excused', pc = "live", conn = "connecting"
      PROVE  \E i \in DOMAIN ntf : ntf[i] = ListenDisconnected
  BY <1>5 DEF Unheard, Range
<1>6. Sent \subseteq rows /\ batch \subseteq rows
  BY DEF Shape, Sent, Range
<1>7. /\ ntf \in Seq(rows \cup {ListenDisconnected})
      /\ DOMAIN ntf = 1..Len(ntf) /\ Len(ntf) \in Nat
      /\ \A i \in DOMAIN ntf : ntf[i] \in rows \cup {ListenDisconnected}
  BY DEF Shape
<1>8. /\ ntf' \in Seq(rows' \cup {ListenDisconnected})
      /\ DOMAIN ntf \subseteq DOMAIN ntf' /\ \A i \in DOMAIN ntf : ntf'[i] = ntf[i]
      /\ conn = "listening" => /\ DOMAIN ntf' = 1..(Len(ntf) + 1)
                               /\ ntf'[Len(ntf) + 1] = r
      /\ conn # "listening" => ntf' = ntf
      /\ \A i \in DOMAIN ntf' : i \in DOMAIN ntf \/ ntf'[i] = r
  <2>1. ntf \in Seq(rows' \cup {ListenDisconnected}) /\ r \in rows' \cup {ListenDisconnected}
    BY <1>1, <1>7
  <2>2. CASE conn = "listening"
    <3>1. ntf' = Append(ntf, r)
      BY <1>1, <2>2
    <3>2. /\ ntf' \in Seq(rows' \cup {ListenDisconnected})
          /\ DOMAIN ntf' = 1..(Len(ntf) + 1) /\ ntf'[Len(ntf) + 1] = r
          /\ \A i \in 1..Len(ntf) : ntf'[i] = ntf[i]
      BY <2>1, <3>1, AppendFacts
    <3> QED
      BY <1>7, <2>2, <3>2
  <2>3. CASE conn # "listening"
    BY <1>1, <1>7, <2>1, <2>3, Zenon
  <2> QED
    BY <2>2, <2>3
<1>9. Shape'
  <2>1. got \in Seq(rows') /\ chan \in Seq(rows')
    <3>1. got \in Seq(rows) /\ chan \in Seq(rows) /\ rows \subseteq rows'
      BY <1>1 DEF Shape
    <3> QED
      BY <3>1
  <2>2. rows' \subseteq Sequence /\ open' \subseteq Sequence /\ open' \cap rows' = {}
    BY <1>1 DEF Shape
  <2>3. \A s \in open' \cup rows' : s < next'
    BY <1>1 DEF Shape
  <2> QED
    BY <1>1, <1>2, <1>3, <1>8, <2>1, <2>2, <2>3 DEF Shape
<1>10. Increasing'
  BY <1>1, <1>2 DEF Increasing
<1>11. Passed'
  <2>1. \A x \in rows : r <= x => r \in excused'
    BY <1>3, <1>4
  <2>2. \A x \in Sent, s \in rows' : s <= x => s \in Sent \cup excused'
    BY <1>1, <1>3, <1>6, <2>1 DEF Passed
  <2>3. Active => \A s \in rows' : s <= last => s \in Sent \cup excused'
    BY <1>1, <1>3, <2>1 DEF Passed
  <2>4. \A x \in batch, s \in rows' : last < s /\ s < x => s \in batch \cup excused'
    BY <1>1, <1>3, <1>6, <2>1 DEF Passed
  <2> QED
    BY <1>1, <1>2, <2>2, <2>3, <2>4 DEF Passed
<1>12. Pending'
  <2>1. SUFFICES ASSUME pc = "live", NEW s \in rows', last < s, s \notin batch \cup excused'
                 PROVE  /\ \A k \in DOMAIN ntf' : ntf'[k] > s =>
                              \E i \in DOMAIN ntf' :
                                 i < k /\ ntf'[i] \in {s, ListenDisconnected}
                        /\ conn # "broken" =>
                              \E i \in DOMAIN ntf' : ntf'[i] \in {s, ListenDisconnected}
    BY <1>1 DEF Pending
  <2>2. conn \in {"connecting", "listening", "broken"}
    BY <2>1 DEF Shape, Active
  <2>3. CASE s = r
    <3>1. \A x \in rows \cup {ListenDisconnected, r} : ~(x > s)
      BY <1>3, <1>4, <2>1, <2>3 DEF ListenDisconnected
    <3>2. \A k \in DOMAIN ntf' : ntf'[k] \in rows \cup {ListenDisconnected, r}
      BY <1>7, <1>8
    <3>3. CASE conn = "listening"
      <4>1. Len(ntf) + 1 \in DOMAIN ntf' /\ ntf'[Len(ntf) + 1] = s
        BY <1>7, <1>8, <2>3, <3>3
      <4> QED
        BY <3>1, <3>2, <4>1
    <3>4. CASE conn = "connecting"
      <4>1. PICK i \in DOMAIN ntf : ntf[i] = ListenDisconnected
        BY <1>5, <2>1, <2>3, <3>4
      <4> QED
        BY <1>8, <3>1, <3>2, <4>1
    <3> QED
      BY <2>2, <3>1, <3>2, <3>3, <3>4
  <2>4. CASE s # r
    <3>1. /\ \A k \in DOMAIN ntf : ntf[k] > s =>
                \E i \in DOMAIN ntf : i < k /\ ntf[i] \in {s, ListenDisconnected}
          /\ conn # "broken" => \E i \in DOMAIN ntf : ntf[i] \in {s, ListenDisconnected}
      BY <1>1, <1>3, <2>1, <2>4 DEF Pending
    <3>2. conn # "broken" => \E i \in DOMAIN ntf' : ntf'[i] \in {s, ListenDisconnected}
      BY <1>8, <3>1
    <3>3. ASSUME NEW k \in DOMAIN ntf', ntf'[k] > s
          PROVE  \E i \in DOMAIN ntf' : i < k /\ ntf'[i] \in {s, ListenDisconnected}
      <4>1. CASE k \in DOMAIN ntf
        BY <1>8, <3>1, <3>3, <4>1
      <4>2. CASE k \notin DOMAIN ntf
        <5>1. conn = "listening" /\ k = Len(ntf) + 1
          BY <1>7, <1>8, <4>2
        <5>2. PICK i \in DOMAIN ntf : ntf[i] \in {s, ListenDisconnected}
          BY <3>1, <5>1
        <5>3. i < k /\ i \in DOMAIN ntf' /\ ntf'[i] \in {s, ListenDisconnected}
          BY <1>7, <1>8, <5>1, <5>2
        <5> QED
          BY <5>3
      <4> QED
        BY <4>1, <4>2
    <3> QED
      BY <3>2, <3>3
  <2> QED
    BY <2>3, <2>4
<1> QED
  BY <1>9, <1>10, <1>11, <1>12

------------------------------------------------------------------------------
(* The theorems *)

\* Nothing has been sent yet.
LEMMA InitHolds == Init => IInv
<1> SUFFICES ASSUME Init PROVE IInv
  OBVIOUS
<1>1. /\ next = 1 /\ open = {} /\ rows = {} /\ conn = "off" /\ ntf = <<>> /\ excused = {}
      /\ pc = "none" /\ last = 0 /\ batch = {} /\ chan = <<>> /\ got = <<>>
  BY DEF Init, InitLog
<1>2. Range(got) = {} /\ Range(chan) = {} /\ ~Active
  BY <1>1 DEF Range, Active
<1>3. Shape
  <2>1. Cardinality(batch) = 0
    BY <1>1, FS_EmptySet
  <2>2. MaxSeq \in Nat /\ BatchSize \in Nat /\ ChanCap \in Nat
    BY OutboxAssumption, ChanAssumption
  <2>3. Len(chan) = 0 /\ <<>> \in Seq(rows) /\ <<>> \in Seq(rows \cup {ListenDisconnected})
    BY <1>1
  <2> QED
    BY <1>1, <1>2, <2>1, <2>2, <2>3 DEF Shape
<1>4. Increasing /\ Passed /\ Pending
  BY <1>1, <1>2 DEF Increasing, Passed, Pending, Sent
<1> QED
  BY <1>3, <1>4 DEF IInv

\* Every step of the stream, of its writers and of its connection keeps IInv.
LEMMA NextKeeps == IInv /\ [Next]_vars => IInv'
<1> SUFFICES ASSUME IInv, [Next]_vars PROVE IInv'
  OBVIOUS
<1>1. CASE Writer /\ UNCHANGED streamVars
  <2>1. CASE (publish_in_tx \/ \E s \in Sequence : Rollback(s)) /\ UNCHANGED excused
    BY <1>1, <2>1, UncommittedKeeps
  <2>2. CASE \E s \in Sequence :
                CommitRow(s) /\ excused' = IF Unheard(s) THEN excused \cup {s} ELSE excused
    BY <1>1, <2>2, CommitKeeps
  <2> QED
    BY <1>1, <2>1, <2>2 DEF Writer
<1>2. CASE Listener /\ UNCHANGED streamVars
  BY <1>2, ListenerKeeps
<1>3. CASE subscribe
  BY <1>3, SubscribeKeeps
<1>4. CASE Loop
  BY <1>4, BackfillKeeps, SendKeeps, LiveKeeps DEF Loop
<1>5. CASE Receive \/ StreamEnd \/ Gone
  BY <1>5, ReceiveKeeps, EndKeeps
<1>6. CASE UNCHANGED vars
  BY <1>6 DEF IInv, Shape, Increasing, Passed, Pending, Sent, Active, vars, streamVars,
     logVars, listenVars
<1> QED
  BY <1>1, <1>2, <1>3, <1>4, <1>5, <1>6 DEF Next

\* The inductive invariant holds throughout.
LEMMA Inductive == Spec => []IInv
  BY InitHolds, NextKeeps, PTL DEF Spec

\* Below the greatest event received nothing is missing but what is excused.
LEMMA CursorCovers == IInv => Gapless
<1> SUFFICES ASSUME IInv, NEW s \in rows, s <= Cursor
             PROVE  s \in Range(got) \/ s \in excused
  BY DEF Gapless
<1> USE DEF IInv
<1>1. got \in Seq(rows) /\ chan \in Seq(rows) /\ rows \subseteq Nat \ {0}
  BY DEF Shape, Sequence
<1>2. got # <<>>
  BY <1>1 DEF Cursor
<1>3. /\ Cursor = got[Len(got)] /\ Len(got) \in DOMAIN got /\ Cursor \in rows
      /\ DOMAIN got = 1..Len(got)
  BY <1>1, <1>2 DEF Cursor
<1>4. Cursor \in Sent
  BY <1>3 DEF Sent, Range
<1>5. s \in Sent \cup excused
  BY <1>4 DEF Passed
<1>6. ASSUME s \in Range(chan) PROVE FALSE
  <2>1. PICK j \in DOMAIN chan : s = chan[j]
    BY <1>6 DEF Range
  <2>2. Cursor < s
    BY <1>3, <2>1 DEF Increasing
  <2> QED
    BY <1>1, <1>3, <2>2
<1> QED
  BY <1>5, <1>6 DEF Sent

\* The stream, its channel and its page keep their types and their bounds, for
\* every capacity and page size.
THEOREM StreamTypes == Spec => []TypeOK
<1>1. IInv => TypeOK
  <2> SUFFICES ASSUME IInv PROVE TypeOK
    OBVIOUS
  <2>1. ntf \in Seq(Sequence \cup {ListenDisconnected}) /\ chan \in Seq(Sequence)
    <3>1. /\ ntf \in Seq(rows \cup {ListenDisconnected}) /\ chan \in Seq(rows)
          /\ rows \subseteq Sequence
      BY DEF IInv, Shape
    <3> QED
      BY <3>1
  <2>2. last \in 0..MaxSeq
    BY OutboxAssumption DEF IInv, Shape, Sequence
  <2> QED
    BY <2>1, <2>2 DEF TypeOK, LogTypeOK, IInv, Shape
<1> QED
  BY <1>1, Inductive, PTL

\* A subscriber receives every event at most once and in sequence order over all
\* its streams, whatever faults happen.
THEOREM ReceivedInOrder == Spec => []InOrder
<1>1. IInv => InOrder
  BY DEF IInv, Increasing, InOrder
<1> QED
  BY <1>1, Inductive, PTL

\* A subscriber that resumes from its cursor has everything below it except the
\* three kinds of excused events.
THEOREM NothingSkipped == Spec => []Gapless
  BY CursorCovers, Inductive, PTL
==============================================================================
