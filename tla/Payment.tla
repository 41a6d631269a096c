------------------------------- MODULE Payment -------------------------------
(***************************************************************************)
(* The event-sourced Payment aggregate (src/payment/entity.rs).            *)
(*                                                                         *)
(* A payment is its event log.  Events are abstracted to their variant:    *)
(* amounts, preimages, routes and timestamps never decide a transition.    *)
(* The empty log stands for "no row with this payment_hash".               *)
(* A command returns the log it leaves in memory and one of the three      *)
(* results the code distinguishes.                                         *)
(***************************************************************************)
EXTENDS Naturals, Sequences

PaymentEvent == {"Initiated", "Pending", "Completed", "Failed", "Reversed"}

\* Every event after Initiated carries the name of the state it sets, and the
\* builder's default state is Initiated: the state is the last event.
PaymentState == PaymentEvent \cup {"Absent"}

try_from_events(events) ==
    IF events = <<>> THEN "Absent" ELSE events[Len(events)]

Terminal == {"Completed", "Failed"}

\* idempotency_guard!(events, already_applied: ev)
AppliedBefore(events, ev) == \E i \in DOMAIN events : events[i] = ev

Executed(events) == [result |-> "Executed", events |-> events]
AlreadyApplied(events) == [result |-> "AlreadyApplied", events |-> events]
InvalidStateTransition(events) == [result |-> "InvalidStateTransition", events |-> events]

\* NewPayment::into_events.
into_events == <<"Initiated">>

mark_pending(events) ==
    IF try_from_events(events) = "Initiated" THEN Executed(Append(events, "Pending"))
    ELSE IF try_from_events(events) = "Pending" THEN AlreadyApplied(events)
    ELSE InvalidStateTransition(events)

\* settle, fail and reverse share one shape: the log is searched for the event
\* before the source state is looked at.
Command(events, from, ev) ==
    IF AppliedBefore(events, ev) THEN AlreadyApplied(events)
    ELSE IF try_from_events(events) \in from THEN Executed(Append(events, ev))
    ELSE InvalidStateTransition(events)

settle(events) == Command(events, {"Initiated", "Pending"}, "Completed")

fail(events) == Command(events, {"Initiated", "Pending"}, "Failed")
==============================================================================
