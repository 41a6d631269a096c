------------------------------ MODULE Admission ------------------------------
(***************************************************************************)
(* The three mutations of src/api/graphql/mutation.rs from the HTTP        *)
(* request to the amounts they end in: the caller is authenticated and the *)
(* wallet checked (Ownership), then lnInvoiceCreate, lnInvoicePaymentSend  *)
(* or lnInvoiceFeeProbe computes what LND, the row, Symphony and the       *)
(* client are told (Amounts).  How a payment or an invoice then proceeds   *)
(* is the subject of OutgoingPayment and HoldInvoice; here its money part  *)
(* happens at once, because no amount changes on the way.                  *)
(***************************************************************************)
EXTENDS Ownership, Amounts

CONSTANTS
    AskedSat, AskedMinutes,   \* SatAmount and Minutes of lnInvoiceCreate
    InvoiceMsat,              \* amounts that BOLT11 invoices carry
    FeeMsat,                  \* routing fees LND may report, besides the -1 it sometimes does
    Overpay                   \* msat a payer adds to the amount of an invoice

ASSUME InputsAssumption ==
    /\ AskedSat \subseteq 0 .. U64 - 1
    /\ InvoiceMsat \subseteq 0 .. U64 \div 10   \* a u64 of pico-bitcoin
    /\ AskedMinutes \subseteq Nat /\ FeeMsat \subseteq Nat /\ Overpay \subseteq Nat

VARIABLE out    \* what the last step told LND, the row, Symphony and the client, if it did

admissionVars == <<ownVars, out>>

None == [op |-> "none"]

InitAdmission == InitOwnership /\ out = None

Ownership == OwnershipNext /\ out' = None

Returns(q) ==
    /\ req' = [req EXCEPT ![q] = Idle]
    /\ UNCHANGED <<owner, disowned, keys, cache>>

Serve(q, outcome) ==
    /\ Returns(q)
    /\ out' = outcome

------------------------------------------------------------------------------
(* lnInvoiceCreate *)

\* NewInvoice::try_new: an expiry out of range becomes four hours, in the row only.
row_expiry(seconds) == IF 60 <= seconds /\ seconds <= 86400 THEN seconds ELSE 14400

\* What was asked for, what LND and the row were given, and the reply.
Invoice(sat, askedSeconds, msat, seconds, paid, credit) ==
    [op |-> "invoice", asked |-> sat, askedSeconds |-> askedSeconds,
     lndMsat |-> msat, satoshis |-> whole_sat(msat),
     lndExpiry |-> seconds, rowExpiry |-> row_expiry(seconds),
     paid |-> paid, credit |-> credit]

\* create_invoice: add_hold_invoice refuses what is not an i64, and is called
\* before try_new refuses a zero amount.
create_invoice(q, sat, minutes) ==
    LET msat == to_msat(sat)
        seconds == expiry_seconds(minutes)
    IN Serve(q,
         IF ~fits_i64(msat) THEN [op |-> "refused"]
         ELSE IF msat = 0 THEN [op |-> "refused", lndMsat |-> msat, lndExpiry |-> seconds]
         ELSE Invoice(sat, 60 * minutes, msat, seconds, 0, 0))

\* The payer's HTLCs are settled and commit_settle credits the wallet.  LND
\* accepts no less than the invoice's amount.
SettleInvoice(more) ==
    /\ out.op = "invoice" /\ out.paid = 0
    /\ LET paid == out.lndMsat + more IN
         out' = Invoice(out.asked, out.askedSeconds, out.lndMsat, out.lndExpiry,
                        paid, credit_sat(paid))
    /\ UNCHANGED ownVars

------------------------------------------------------------------------------
(* lnInvoicePaymentSend and lnInvoiceFeeProbe *)

\* send_payment: InvalidAmount, or a value the row cannot hold, before Symphony
\* is asked; a decline before LND is; LND keeps to the fee limit.
send_payment(q, invoiceMsat, fee) ==
    LET amount == decoded_msat(invoiceMsat)
        maxFee == max_for(amount)
    IN \/ /\ amount = 0 \/ ~fits_i64(amount) \/ ~fits_i64(maxFee)
          /\ Serve(q, [op |-> "refused"])
       \/ /\ amount > 0 /\ fits_i64(amount) /\ fits_i64(maxFee)
          /\ Serve(q, [op |-> "declined", hold |-> hold_sat(amount)])
       \/ /\ amount > 0 /\ fits_i64(amount) /\ fits_i64(maxFee)
          /\ fee <= maxFee
          /\ Serve(q, [op |-> "sent", amount |-> amount, maxFee |-> maxFee,
                       hold |-> hold_sat(amount), debit |-> debit_sat(amount, fee),
                       worst |-> invoiceMsat + maxFee,
                       spent |-> invoiceMsat + (IF fee < 0 THEN 0 ELSE fee)])

\* fee_probe: the estimate in whole satoshis; a negative one is an error.
fee_probe(q, fee) ==
    Serve(q, IF fee < 0 THEN [op |-> "refused"] ELSE [op |-> "quote", amount |-> whole_sat(fee)])

Granted == {q \in Request : req[q].pc = "granted"}

NextAdmission ==
    \/ Ownership
    \/ \E q \in Granted, sat \in AskedSat, m \in AskedMinutes : create_invoice(q, sat, m)
    \/ \E more \in Overpay : SettleInvoice(more)
    \/ \E q \in Granted, msat \in InvoiceMsat, fee \in FeeMsat \cup {-1} : send_payment(q, msat, fee)
    \/ \E q \in Granted, fee \in FeeMsat \cup {-1} : fee_probe(q, fee)

SpecAdmission == InitAdmission /\ [][NextAdmission]_admissionVars
------------------------------------------------------------------------------
(* Properties *)

\* Owners, keys, cache and requests keep their types, and no round trip outlives
\* the HTTP client's timeout.
AdmissionTypeOK ==
    /\ OwnershipTypeOK
    /\ out.op \in {"none", "refused", "invoice", "declined", "sent", "quote"}

\* An operation is admitted only for a wallet its caller owned shortly before:
\* whatever the interleaving of round trips and stores, an answer is at most
\* FetchMax old when it is decided on and cached, and is used for less than Ttl
\* after that, for this caller alone.
GrantFresh ==
    [][\A q \in Request :
         req[q].pc # "granted" /\ req'[q].pc = "granted" =>
             /\ req'[q].sub # Nobody
             /\ LET age == disowned'[req'[q].sub][req'[q].wallet]
                IN  age <= FetchMax \/ age < Ttl + FetchMax]_admissionVars

Covered(debit, hold, spent, worst) ==
    /\ debit <= hold
    /\ spent <= 1000 * debit /\ 1000 * debit < spent + 2000
    /\ 1000 * hold < worst + 1000

NearestFee(amount, maxFee) ==
    LET limit == maxFee \div 1000
        excess == 10000 * limit - 50 * (amount \div 1000)
    IN  /\ maxFee = 1000 * limit
        /\ \/ limit > 10 /\ excess >= -5000 /\ excess < 5000
           \/ limit = 10 /\ excess >= -5000

\* Of every payment sent: the hold covers what the wallet will be debited, the
\* debit covers what left the node, and neither is more than the roundings
\* above the exact amount; the fee limit given to LND is 0.5% of the amount, to
\* the nearest satoshi with half rounded down, or 10 sat where that is less.
SpendCovered ==
    out.op = "sent" =>
        /\ Covered(out.debit, out.hold, out.spent, out.worst)
        /\ NearestFee(out.amount, out.maxFee)

AsAsked(asked, lndMsat, satoshis, paid, credit) ==
    /\ lndMsat = 1000 * asked /\ satoshis = asked
    /\ paid > 0 => asked <= credit /\ 1000 * credit <= paid

UpToOneDay(seconds) == 60 <= seconds /\ seconds <= 86400

\* An invoice is for exactly the amount asked, in LND, in the row and in the
\* reply, for every amount up to the bitcoin supply; what is credited when it is
\* paid is no less than that and never more than was received.  LND and the row
\* agree on when it expires, for every expiry between a minute and a day.
InvoiceAsAsked ==
    out.op = "invoice" =>
        /\ out.asked <= Supply =>
              AsAsked(out.asked, out.lndMsat, out.satoshis, out.paid, out.credit)
        /\ UpToOneDay(out.askedSeconds) =>
              out.lndExpiry = out.askedSeconds /\ out.rowExpiry = out.lndExpiry

\* The two parts of InvoiceAsAsked without their limits, which the code does not
\* give: to_msat wraps, and an expiry out of range is replaced in the row only.
AmountAlwaysAsAsked ==
    out.op = "invoice" => AsAsked(out.asked, out.lndMsat, out.satoshis, out.paid, out.credit)
ExpiriesAgree == out.op = "invoice" => out.rowExpiry = out.lndExpiry
==============================================================================
