------------------------------ MODULE OutboxLog ------------------------------
(***************************************************************************)
(* The transactional outbox (src/outbox/publisher.rs) and one LISTEN       *)
(* connection to it (src/outbox/listen_connection.rs): what the event      *)
(* streams are built on.  A row is its sequence number, taken from the     *)
(* BIGSERIAL by the INSERT of a transaction that commits later, or never;  *)
(* pg_notify tells the number to the listening sessions at COMMIT.         *)
(***************************************************************************)
EXTENDS Integers, FiniteSets, Sequences, Functions

CONSTANTS
    MaxSeq,      \* bound on the sequence numbers drawn
    BatchSize,   \* BACKFILL_BATCH_SIZE
    MaxBackfill, \* MAX_BACKFILL_EVENTS
    MaxNtf,      \* bound on the notification channel when a LISTEN is retried
    Faults       \* which failures the environment may inject

FaultKind == {"overlap",      \* transactions that publish overlap in time
              "listen_drop",  \* the LISTEN connection breaks
              "listen_late",  \* reads overtake the registration of the LISTEN
              "read_error",   \* a read that the stream itself makes errors
              "row_error",    \* the read of a notified row errors
              "gone"}         \* the subscriber, or the process, goes away

ASSUME OutboxAssumption ==
    /\ {MaxSeq, BatchSize, MaxBackfill, MaxNtf} \subseteq Nat \ {0}
    /\ Faults \subseteq FaultKind

VARIABLES
    next,   \* the next value of the sequence
    open,   \* sequence numbers of transactions not yet committed
    rows,   \* committed outbox_events
    conn,   \* the LISTEN connection
    ntf     \* its unbounded channel of sequence numbers and errors

logVars == <<next, open, rows>>
listenVars == <<conn, ntf>>

Sequence == 1..MaxSeq
ListenDisconnected == 0

InitLog ==
    /\ next = 1
    /\ open = {}
    /\ rows = {}

------------------------------------------------------------------------------
(* Writers *)

\* The INSERT of a business transaction.
publish_in_tx ==
    /\ next \in Sequence
    /\ open = {} \/ "overlap" \in Faults
    /\ open' = open \cup {next}
    /\ next' = next + 1
    /\ UNCHANGED <<rows, listenVars>>

\* COMMIT makes the row visible and notifies a session that listens.
CommitRow(s) ==
    /\ s \in open
    /\ open' = open \ {s}
    /\ rows' = rows \cup {s}
    /\ ntf' = IF conn = "listening" THEN Append(ntf, s) ELSE ntf
    /\ UNCHANGED <<next, conn>>

\* The transaction is refused; its number is never used.
Rollback(s) ==
    /\ s \in open
    /\ open' = open \ {s}
    /\ UNCHANGED <<next, rows, listenVars>>

------------------------------------------------------------------------------
(* Reads *)

After(n) == {s \in rows : s > n}

count_after(n) == Cardinality(After(n))

\* One page of rows in sequence order: the BatchSize least ones after n, or all of
\* them if there are fewer (a set of one set).
fetch_after_batch(n) ==
    {page \in SUBSET After(n) :
        /\ \A s \in page, t \in After(n) \ page : s < t
        /\ Cardinality(page) = IF count_after(n) < BatchSize THEN count_after(n) ELSE BatchSize}

\* The rows of a page are handled in sequence order.
Earliest(page) == {s \in page : \A t \in page : s <= t}

find_by_sequence(s) == s \in rows

------------------------------------------------------------------------------
(* The LISTEN connection *)

\* start_listening spawns the connection task and does not wait for it.
start_listening ==
    /\ conn' = "connecting"
    /\ ntf' = <<>>

\* Nothing in the code makes a reader wait for the LISTEN.
ListenRegistered == conn # "connecting" \/ "listen_late" \in Faults

\* connection_loop reaches its LISTEN, or tells the receiver that it failed.
connection_loop ==
    /\ conn = "connecting"
    /\ \/ conn' = "listening" /\ UNCHANGED ntf
       \/ /\ Len(ntf) < MaxNtf
          /\ ntf' = Append(ntf, ListenDisconnected)
          /\ UNCHANGED conn
    /\ UNCHANGED logVars

\* The socket breaks: from here notifications are lost.
ListenBreaks ==
    /\ "listen_drop" \in Faults
    /\ conn = "listening"
    /\ Len(ntf) < MaxNtf
    /\ conn' = "broken"
    /\ UNCHANGED <<logVars, ntf>>

\* connection_loop notices, tells the receiver, and connects again.
ListenNoticed ==
    /\ conn = "broken"
    /\ ntf' = Append(ntf, ListenDisconnected)
    /\ conn' = "connecting"
    /\ UNCHANGED logVars

LogTypeOK ==
    /\ next \in 1..(MaxSeq + 1)
    /\ open \subseteq Sequence /\ rows \subseteq Sequence
    /\ conn \in {"off", "connecting", "listening", "broken"}
    /\ ntf \in Seq(Sequence \cup {ListenDisconnected})
==============================================================================
