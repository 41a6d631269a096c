------------------------------- MODULE Invoice -------------------------------
(***************************************************************************)
(* The event-sourced Invoice aggregate (src/invoice/entity.rs).            *)
(*                                                                         *)
(* An invoice is its event log.  An event keeps its variant and, for       *)
(* HtlcHeld, the parked amount; the empty log stands for "no row with this *)
(* payment_hash".  A command returns the log it leaves in memory and one   *)
(* of the three results the code distinguishes.                            *)
(***************************************************************************)
EXTENDS Naturals, Sequences

InvoiceEventType == {"Created", "HtlcHeld", "Settled", "SettledIntraledger", "Canceled"}

Event(type, amt) == [type |-> type, amt |-> amt]

\* The state try_from_events replays a log to: its last event decides.
try_from_events(events) ==
    IF events = <<>> THEN "Absent"
    ELSE LET last == events[Len(events)].type IN
         IF last = "Created" THEN "Open"
         ELSE IF last = "HtlcHeld" THEN "Held"
         ELSE IF last = "Canceled" THEN "Canceled"
         ELSE "Settled"

Terminal == {"Settled", "Canceled"}

Occurrences(events, type) == {i \in DOMAIN events : events[i].type = type}

\* held_amount_msat: the amount of HtlcHeld, 0 for None.
held_amount_msat(events) ==
    LET at == Occurrences(events, "HtlcHeld") IN
    IF at = {} THEN 0 ELSE events[CHOOSE i \in at : \A j \in at : j <= i].amt

\* NewInvoice::into_events.
into_events == <<Event("Created", 0)>>

\* Every command searches the log for its event before it looks at the state.
Command(events, from, ev) ==
    IF Occurrences(events, ev.type) # {}
    THEN [result |-> "AlreadyApplied", events |-> events]
    ELSE IF try_from_events(events) \in from
    THEN [result |-> "Executed", events |-> Append(events, ev)]
    ELSE [result |-> "InvalidStateTransition", events |-> events]

mark_held(events, amt) == Command(events, {"Open"}, Event("HtlcHeld", amt))

settle(events) == Command(events, {"Held"}, Event("Settled", 0))

settle_intraledger(events) == Command(events, {"Open"}, Event("SettledIntraledger", 0))

cancel(events) == Command(events, {"Open", "Held"}, Event("Canceled", 0))
==============================================================================
