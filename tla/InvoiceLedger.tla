---------------------------- MODULE InvoiceLedger ----------------------------
(***************************************************************************)
(* What the gateway promises Symphony about incoming invoices: a parked    *)
(* HTLC is reserved once; the reservation is then credited or released     *)
(* once, for the amount it was made for; a credit means that LND settled,  *)
(* and covers no more than LND was paid; a release means that LND          *)
(* canceled.  LND never settles what has not been reserved.                *)
(***************************************************************************)
EXTENDS Naturals, Sequences

CONSTANTS Hash, MaxAmt

VARIABLES
    stream,   \* outbox rows of each hash
    node,     \* LND's state of each invoice
    paid      \* LND's amount of each invoice

ledgerVars == <<stream, node, paid>>

Row(type, amt, held) == [type |-> type, amt |-> amt, held |-> held]

Reserved(h) == Len(stream[h]) = 1 /\ stream[h][1].type = "LightningHtlcHeld"
Reservation(h) == stream[h][1].amt

Init ==
    /\ stream = [h \in Hash |-> <<>>]
    /\ node = [h \in Hash |-> "None"]
    /\ paid = [h \in Hash |-> 0]

Reserve(h) ==
    /\ stream[h] = <<>> /\ node[h] \in {"Accepted", "Canceled"}
    /\ \E a \in 1..MaxAmt : stream' = [stream EXCEPT ![h] = <<Row("LightningHtlcHeld", a, 0)>>]
    /\ UNCHANGED <<node, paid>>

Credit(h) ==
    /\ Reserved(h) /\ node[h] = "Settled"
    /\ \E a \in Reservation(h)..paid[h] :
         stream' = [stream EXCEPT ![h] =
                      Append(@, Row("LightningInvoiceSettled", a, Reservation(h)))]
    /\ UNCHANGED <<node, paid>>

\* With or without a reservation to release.
Release(h) ==
    /\ stream[h] = <<>> \/ Reserved(h)
    /\ node[h] = "Canceled"
    /\ \E a \in 0..MaxAmt :
         stream' = [stream EXCEPT ![h] = Append(@, Row("LightningInvoiceCanceled", a,
                      IF stream[h] = <<>> THEN 0 ELSE Reservation(h)))]
    /\ UNCHANGED <<node, paid>>

Issue(h) ==
    /\ node[h] = "None" /\ stream[h] = <<>>
    /\ node' = [node EXCEPT ![h] = "Open"]
    /\ UNCHANGED <<stream, paid>>

Park(h) ==
    /\ node[h] \in {"Open", "Accepted"}
    /\ node' = [node EXCEPT ![h] = "Accepted"]
    /\ \E a \in (paid[h] + 1)..MaxAmt : paid' = [paid EXCEPT ![h] = a]
    /\ UNCHANGED stream

Settle(h) ==
    /\ node[h] = "Accepted" /\ Reserved(h)
    /\ node' = [node EXCEPT ![h] = "Settled"]
    /\ UNCHANGED <<stream, paid>>

Cancel(h) ==
    /\ node[h] \in {"Open", "Accepted"}
    /\ node' = [node EXCEPT ![h] = "Canceled"]
    /\ paid' = [paid EXCEPT ![h] = 0]
    /\ UNCHANGED stream

Next ==
    \E h \in Hash :
        \/ Reserve(h) \/ Credit(h) \/ Release(h)
        \/ Issue(h) \/ Park(h) \/ Settle(h) \/ Cancel(h)

Spec == Init /\ [][Next]_ledgerVars
==============================================================================
