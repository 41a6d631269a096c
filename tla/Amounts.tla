------------------------------- MODULE Amounts -------------------------------
(***************************************************************************)
(* The gateway's arithmetic on amounts: milli-satoshi and satoshi          *)
(* conversions (src/primitives/milli_satoshi.rs), the fee cap              *)
(* (src/fees/policy.rs), the hold that AuthorizeSpend asks for and the     *)
(* amounts the outbox events carry.  Machine integers wrap at U64, as in a *)
(* release build; a BIGINT column and LND's signed fields end at I64.      *)
(*                                                                         *)
(* A definition X_Something that stands before X is X with one plausible   *)
(* defect; the properties of Admission are checked to notice it.           *)
(***************************************************************************)
EXTENDS Integers

CONSTANTS
    U64,      \* 2^64 in the code: a u64 is in 0 .. U64 - 1
    U32,      \* 2^32 in the code
    Supply    \* every satoshi there can be, 2.1 * 10^15 in the code

I64 == U64 \div 2    \* an i64 is below I64

\* 21M BTC in milli-satoshis, a fee on top and the fee policy's product all fit.
ASSUME AmountsAssumption ==
    /\ U64 \in Nat /\ U32 \in Nat /\ Supply \in Nat
    /\ 4000 * Supply + 50000 <= U64
    /\ 86400 < U32

wrap(n) == n % U64

round_up_to_sat_Floor(msat) == (msat \div 1000) * 1000

round_up_to_sat(msat) == wrap(((msat + 999) \div 1000) * 1000)

whole_sat(msat) == msat \div 1000

\* SatAmount::to_msat, Satoshis::to_msat.
to_msat(sat) == wrap(sat * 1000)

\* LND and the BIGINT columns take an amount only below 2^63.
fits_i64(msat) == msat < I64

\* LnFees::max_for: 50 basis points, half rounded down, at least 10 sat.
max_for(msat) ==
    LET scaled == IF 50 * whole_sat(msat) < U64 THEN 50 * whole_sat(msat) ELSE U64 - 1
        pct == IF scaled % 10000 > 5000 THEN scaled \div 10000 + 1 ELSE scaled \div 10000
    IN wrap((IF pct < 10 THEN 10 ELSE pct) * 1000)

\* decode_bolt11: what a payment of the invoice is booked with.
decoded_msat(invoice_msat) == round_up_to_sat(invoice_msat)

\* send_payment: the worst case the balance must cover.
hold_sat(amount_msat) ==
    whole_sat(round_up_to_sat(wrap(amount_msat + max_for(amount_msat))))

\* lnd_payment_to_send_response: LND's fee, a negative one taken as none.
fees_paid_msat(fee_msat) == IF fee_msat < 0 THEN 0 ELSE round_up_to_sat(fee_msat)

\* What OutgoingPaymentCompleted takes from the wallet: amount_sat and the fee.
debit_sat(amount_msat, fee_msat) ==
    whole_sat(amount_msat) + whole_sat(fees_paid_msat(fee_msat))

credit_sat_Ceil(amt_paid_msat) == (amt_paid_msat + 999) \div 1000

\* commit_settle: what InvoiceSettled gives to the wallet.
credit_sat(amt_paid_msat) == whole_sat(amt_paid_msat)

\* ln_invoice_create's expiry in seconds: 1440 minutes unless given, u32.
expiry_seconds(minutes) == IF 60 * minutes < U32 THEN 60 * minutes ELSE U32 - 1
==============================================================================
