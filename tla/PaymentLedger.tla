---------------------------- MODULE PaymentLedger ----------------------------
(***************************************************************************)
(* What the gateway promises Symphony about outgoing payments: for each    *)
(* payment hash the outbox carries OutgoingPaymentInitiated, then at most  *)
(* one terminal event, and the terminal event tells what LND did.  A       *)
(* failed payment releases its hold, so LND must never pay it afterwards.  *)
(***************************************************************************)
EXTENDS Naturals, Sequences

CONSTANT Hash

VARIABLES
    stream,   \* outbox events of each hash
    paid      \* LND's status of each hash

ledgerVars == <<stream, paid>>

Open == <<"OutgoingPaymentInitiated">>

Init ==
    /\ stream = [h \in Hash |-> <<>>]
    /\ paid = [h \in Hash |-> "NotFound"]

Announce(h) ==
    /\ stream[h] = <<>> /\ paid[h] = "NotFound"
    /\ stream' = [stream EXCEPT ![h] = Open]
    /\ UNCHANGED paid

\* Only an announced payment that is not closed may reach LND.
Pay(h) ==
    /\ stream[h] = Open /\ paid[h] = "NotFound"
    /\ paid' = [paid EXCEPT ![h] = "InFlight"]
    /\ UNCHANGED stream

Resolve(h) ==
    /\ stream[h] = Open /\ paid[h] = "InFlight"
    /\ \E st \in {"Succeeded", "Failed"} : paid' = [paid EXCEPT ![h] = st]
    /\ UNCHANGED stream

Complete(h) ==
    /\ stream[h] = Open /\ paid[h] = "Succeeded"
    /\ stream' = [stream EXCEPT ![h] = Append(@, "OutgoingPaymentCompleted")]
    /\ UNCHANGED paid

Release(h) ==
    /\ stream[h] = Open /\ paid[h] \in {"NotFound", "Failed"}
    /\ stream' = [stream EXCEPT ![h] = Append(@, "OutgoingPaymentFailed")]
    /\ UNCHANGED paid

Next ==
    \E h \in Hash : Announce(h) \/ Pay(h) \/ Resolve(h) \/ Complete(h) \/ Release(h)

Spec == Init /\ [][Next]_ledgerVars
==============================================================================
