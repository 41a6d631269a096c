----------------------------- MODULE EventStream -----------------------------
(***************************************************************************)
(* The gRPC SubscribeEvents stream (src/api/grpc/service.rs): one          *)
(* subscriber that resumes from the last sequence it received, the         *)
(* subscription_loop that serves it, and the LISTEN connection of that     *)
(* loop.                                                                   *)
(*                                                                         *)
(* A definition X_Something that stands before X is X with one plausible   *)
(* defect; the properties below are checked to notice it.                  *)
(***************************************************************************)
EXTENDS OutboxLog

CONSTANT ChanCap   \* CHANNEL_SIZE

ASSUME ChanAssumption == ChanCap \in Nat \ {0}

VARIABLES
    pc,      \* the loop: none, backfill, live or closed
    last,    \* last_sent_sequence
    batch,   \* events read and not yet sent, a set
    chan,    \* the channel of the stream
    got,     \* what the subscriber has received, in order
    excused  \* history: events the loop was not told of in time, or failed to read

streamVars == <<pc, last, batch, chan, got>>
vars == <<logVars, listenVars, streamVars, excused>>

Cursor == IF got = <<>> THEN 0 ELSE got[Len(got)]

Init ==
    /\ InitLog
    /\ conn = "off" /\ ntf = <<>>
    /\ pc = "none" /\ last = 0 /\ batch = {} /\ chan = <<>> /\ got = <<>>
    /\ excused = {}

\* The loop returns; the receiver still drains what the channel holds.
CloseStream ==
    /\ pc' = "closed" /\ batch' = {}
    /\ conn' = "off" /\ ntf' = <<>>

------------------------------------------------------------------------------
(* The service *)

\* subscribe: too large a backfill is refused, and the subscriber is where it
\* was; else LISTEN, and the loop.
subscribe ==
    /\ pc = "none"
    /\ \/ /\ count_after(Cursor) <= MaxBackfill
          /\ last' = Cursor
          /\ pc' = "backfill"
          /\ start_listening
       \/ /\ count_after(Cursor) > MaxBackfill
          /\ UNCHANGED <<last, pc, listenVars>>
    /\ UNCHANGED <<logVars, batch, chan, got, excused>>

backfill_OnePage ==
    /\ pc = "backfill" /\ batch = {} /\ ListenRegistered
    /\ batch' \in fetch_after_batch(last) /\ pc' = "live"
    /\ UNCHANGED <<logVars, listenVars, last, chan, got, excused>>

\* One page of the backfill, or of the re-backfill; an empty one ends it, an
\* error closes the stream.
backfill ==
    /\ pc = "backfill" /\ batch = {} /\ ListenRegistered
    /\ \/ /\ batch' \in fetch_after_batch(last)
          /\ pc' = IF batch' = {} THEN "live" ELSE pc
          /\ UNCHANGED listenVars
       \/ "read_error" \in Faults /\ CloseStream
    /\ UNCHANGED <<logVars, last, chan, got, excused>>

\* Send one event, or give up on a channel that stays full for SEND_TIMEOUT.
send ==
    /\ batch # {}
    /\ \/ /\ Len(chan) < ChanCap
          /\ \E e \in Earliest(batch) :
                chan' = Append(chan, e) /\ last' = e /\ batch' = batch \ {e}
          /\ UNCHANGED <<pc, listenVars>>
       \/ /\ Len(chan) = ChanCap
          /\ CloseStream
          /\ UNCHANGED <<chan, last>>
    /\ UNCHANGED <<logVars, got, excused>>

live_NoDedup ==
    /\ pc = "live" /\ batch = {} /\ ntf # <<>>
    /\ ntf' = Tail(ntf)
    /\ IF Head(ntf) = ListenDisconnected THEN pc' = "backfill" /\ UNCHANGED batch
       ELSE batch' = {Head(ntf)} /\ UNCHANGED pc
    /\ UNCHANGED <<logVars, conn, last, chan, got, excused>>

live_NoRebackfill ==
    /\ pc = "live" /\ batch = {} /\ ntf # <<>>
    /\ ntf' = Tail(ntf)
    /\ batch' = IF Head(ntf) > last THEN {Head(ntf)} ELSE {}
    /\ UNCHANGED <<logVars, conn, pc, last, chan, got, excused>>

\* One notification: a sequence not above last_sent_sequence is skipped, a later
\* one is read and sent, or dropped if the read fails; a lost LISTEN leads to a
\* re-backfill, or closes a stream too far behind.
live ==
    LET n == Head(ntf) IN
    /\ pc = "live" /\ batch = {} /\ ntf # <<>>
    /\ \/ /\ n = ListenDisconnected /\ count_after(last) <= MaxBackfill
          /\ pc' = "backfill"
          /\ ntf' = Tail(ntf)
          /\ UNCHANGED <<batch, conn, excused>>
       \/ /\ n = ListenDisconnected
          /\ count_after(last) > MaxBackfill \/ "read_error" \in Faults
          /\ CloseStream
          /\ UNCHANGED excused
       \/ /\ n > last /\ find_by_sequence(n)
          /\ batch' = {n}
          /\ ntf' = Tail(ntf)
          /\ UNCHANGED <<pc, conn, excused>>
       \/ /\ n # ListenDisconnected
          /\ n <= last \/ ~find_by_sequence(n) \/ "row_error" \in Faults
          /\ ntf' = Tail(ntf)
          /\ excused' = IF n > last THEN excused \cup {n} ELSE excused
          /\ UNCHANGED <<pc, batch, conn>>
    /\ UNCHANGED <<logVars, last, chan, got>>

------------------------------------------------------------------------------
(* The subscriber *)

Receive ==
    /\ chan # <<>>
    /\ chan' = Tail(chan)
    /\ got' = Append(got, Head(chan))
    /\ UNCHANGED <<logVars, listenVars, pc, last, batch, excused>>

\* The end of the stream is seen once the channel is drained.
StreamEnd ==
    /\ pc = "closed" /\ chan = <<>>
    /\ pc' = "none"
    /\ UNCHANGED <<logVars, listenVars, last, batch, chan, got, excused>>

\* The subscriber disconnects, or the gateway shuts down or crashes: what was
\* sent and not received is lost.
Gone ==
    /\ "gone" \in Faults
    /\ pc # "none"
    /\ pc' = "none" /\ batch' = {} /\ chan' = <<>>
    /\ conn' = "off" /\ ntf' = <<>>
    /\ UNCHANGED <<logVars, last, got, excused>>

------------------------------------------------------------------------------
(* The specification *)

\* History: s commits after a greater number did, or while a live loop has no
\* LISTEN registered and no disconnect left to handle.
Unheard(s) ==
    \/ \E n \in rows : n > s
    \/ pc = "live" /\ conn = "connecting" /\ ListenDisconnected \notin Range(ntf)

Writer ==
    \/ (publish_in_tx \/ \E s \in Sequence : Rollback(s)) /\ UNCHANGED excused
    \/ \E s \in Sequence :
          CommitRow(s) /\ excused' = IF Unheard(s) THEN excused \cup {s} ELSE excused

Listener == (connection_loop \/ ListenBreaks \/ ListenNoticed) /\ UNCHANGED excused

Loop == backfill \/ send \/ live

Next ==
    \/ (Writer \/ Listener) /\ UNCHANGED streamVars
    \/ subscribe \/ Loop \/ Receive \/ StreamEnd \/ Gone

Spec == Init /\ [][Next]_vars

\* The loop and the connection task run on; the subscriber reads and comes back;
\* what is retried for ever does not fail for ever (SF).
\* Nothing obliges a transaction to start or to end, or a fault to happen.
Fairness ==
    /\ WF_vars(Loop)
    /\ SF_vars(backfill /\ pc' # "closed")
    /\ WF_vars(ListenNoticed /\ UNCHANGED <<streamVars, excused>>)
    /\ SF_vars(connection_loop /\ conn' = "listening" /\ UNCHANGED <<streamVars, excused>>)
    /\ WF_vars(subscribe) /\ WF_vars(Receive) /\ WF_vars(StreamEnd)

FairSpec == Spec /\ Fairness

------------------------------------------------------------------------------
(* Properties *)

\* Log, connection, loop and stream keep their types; the channel its capacity.
TypeOK ==
    /\ LogTypeOK
    /\ pc \in {"none", "backfill", "live", "closed"}
    /\ last \in 0..MaxSeq
    /\ batch \subseteq Sequence /\ Cardinality(batch) <= BatchSize
    /\ chan \in Seq(Sequence) /\ Len(chan) <= ChanCap
    /\ got \in Seq(rows)
    /\ excused \subseteq Sequence

\* Over all its streams a subscriber receives committed events, each at most
\* once and in sequence order, whatever breaks and however notifications and
\* (re-)backfill overlap: the check against last_sent_sequence.
InOrder == \A i, j \in DOMAIN got : i < j => got[i] < got[j]

\* No committed event below the subscriber's cursor was left out, so resuming
\* from the cursor loses nothing, with exactly three exceptions: an event that
\* commits after one with a greater number, one that commits in a live loop's
\* window without a LISTEN, and one whose read failed after its notification.
Gapless == \A s \in rows : s <= Cursor => s \in Range(got) \/ s \in excused

\* What the client-side contract of the stream relies on: the cursor alone says
\* what was received, so a committed event at or below it is never missing.
CursorIsEnough == \A s \in rows : s <= Cursor => s \in Range(got)

\* Every other committed event reaches a subscriber that in the end stays, unless
\* it falls so far behind that subscribe refuses it for good.
Delivered ==
    <>[][~Gone]_vars =>
        \A s \in Sequence : s \in rows ~>
            s \in Range(got) \/ s \in excused \/ count_after(Cursor) > MaxBackfill
==============================================================================
