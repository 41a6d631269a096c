---------------------------- MODULE ServiceProofs ----------------------------
(***************************************************************************)
(* Theorems about the service around the payments: whom it admits and with *)
(* which amounts (Admission), for every set of users, wallets, keys,       *)
(* requests and amounts, every cache lifetime and timeout, and every width *)
(* of the integers that holds the bitcoin supply; and how its process runs *)
(* and stops (Process), for any set of servers, any rows and limit, and    *)
(* any choice of faults.  The two share no state.                          *)
(***************************************************************************)
EXTENDS Admission, Process, FiniteSetTheorems, TLAPS

------------------------------------------------------------------------------
(* Ownership *)

\* What the cache and a round trip remember is bounded in age: a wallet in a
\* fetched set was owned when the Router read it, and one in a cached set at most
\* a round trip before the entry was stored.
Remembered ==
    /\ \A u \in User, w \in Wallet : owner[w] = u => disowned[u][w] = 0
    /\ \A u \in User : \A w \in cache[u].set :
          cache[u].there => disowned[u][w] <= cache[u].age + FetchMax
    /\ \A q \in Request : req[q].pc # "idle" =>
          /\ req[q].sub \in User /\ req[q].sub # Nobody
          /\ req[q].wallet \in Wallet
    /\ \A q \in Request : req[q].pc = "answered" =>
          \A w \in req[q].set : disowned[req[q].sub][w] <= req[q].age

OwnershipInv == OwnershipTypeOK /\ Remembered

\* Initially nothing is remembered.
LEMMA OwnershipInit == InitOwnership => OwnershipInv
  BY OwnershipAssumption
  DEF InitOwnership, OwnershipInv, OwnershipTypeOK, Remembered, NoEntry, Entry, Idle, At,
      MaxAge, Nobody

\* A tick ages what is remembered no slower than the ownership itself.
LEMMA OwnershipTick == OwnershipInv /\ Tick => OwnershipInv'
  <1> SUFFICES ASSUME OwnershipInv, Tick PROVE OwnershipInv'
    OBVIOUS
  <1>1. OwnershipTypeOK'
    BY OwnershipAssumption
    DEF OwnershipInv, OwnershipTypeOK, Tick, Older, Waited, Entry, At, MaxAge
  <1>2. Remembered'
    BY OwnershipAssumption
    DEF OwnershipInv, OwnershipTypeOK, Remembered, Tick, Older, Waited, Entry, At, MaxAge
  <1> QED BY <1>1, <1>2 DEF OwnershipInv

\* A change of ownership makes nothing remembered older.
LEMMA OwnershipTransfer ==
    ASSUME NEW w \in Wallet, NEW u \in User \cup {Nobody}, OwnershipInv, Transfer(w, u)
    PROVE  OwnershipInv'
  BY OwnershipAssumption
  DEF OwnershipInv, OwnershipTypeOK, Remembered, Transfer, MaxAge

\* Keys decide who the caller is, and nothing that is remembered.
LEMMA OwnershipKeys ==
    ASSUME NEW ks \in SUBSET Key, OwnershipInv, refresh_keys(ks)
    PROVE  OwnershipInv'
  BY DEF OwnershipInv, OwnershipTypeOK, Remembered, refresh_keys

\* A request enters with an authenticated caller, or not at all.
LEMMA OwnershipCheck ==
    ASSUME NEW q \in Request, NEW w \in Wallet, NEW sub \in User \cup {Nobody},
           OwnershipInv, check(q, w, sub)
    PROVE  OwnershipInv'
  BY OwnershipAssumption
  DEF OwnershipInv, OwnershipTypeOK, Remembered, check, Decided, Idle, At

\* The Router answers with what is owned at that moment.
LEMMA OwnershipRead ==
    ASSUME NEW q \in Request, OwnershipInv, RouterReads(q)
    PROVE  OwnershipInv'
  BY OwnershipAssumption
  DEF OwnershipInv, OwnershipTypeOK, Remembered, RouterReads, At

\* A failed round trip leaves nothing behind.
LEMMA OwnershipFails ==
    ASSUME NEW q \in Request, OwnershipInv, fetch_fails(q)
    PROVE  OwnershipInv'
  BY OwnershipAssumption
  DEF OwnershipInv, OwnershipTypeOK, Remembered, fetch_fails, Idle, At

\* An answer is stored at most FetchMax after the Router gave it.
LEMMA OwnershipStore ==
    ASSUME NEW q \in Request, OwnershipInv, store(q)
    PROVE  OwnershipInv'
  BY OwnershipAssumption
  DEF OwnershipInv, OwnershipTypeOK, Remembered, store, stored, Decided, Idle, At, Entry,
      NoEntry, MaxAge

\* Serving a request only ends it.
LEMMA OwnershipReturns ==
    ASSUME NEW q \in Request, OwnershipInv, Returns(q)
    PROVE  OwnershipInv'
  BY OwnershipAssumption
  DEF OwnershipInv, OwnershipTypeOK, Remembered, Returns, Idle, At

\* What a step may do to keys, cache and requests.
LEMMA OwnershipCases ==
    [NextAdmission]_admissionVars => Ownership \/ (\E q \in Granted : Returns(q)) \/ UNCHANGED ownVars
  BY DEF NextAdmission, admissionVars, create_invoice, SettleInvoice, send_payment, fee_probe, Serve

\* Every step of Admission keeps what is remembered bounded in age.
LEMMA OwnershipStep == OwnershipInv /\ [NextAdmission]_admissionVars => OwnershipInv'
  <1> SUFFICES ASSUME OwnershipInv, [NextAdmission]_admissionVars PROVE OwnershipInv'
    OBVIOUS
  <1>1. CASE Ownership
    <2>1. CASE Tick
      BY <2>1, OwnershipTick
    <2>2. ASSUME NEW ks \in SUBSET Key, refresh_keys(ks) PROVE OwnershipInv'
      BY <2>2, OwnershipKeys
    <2>3. ASSUME NEW w \in Wallet, NEW u \in User \cup {Nobody}, Transfer(w, u)
          PROVE  OwnershipInv'
      BY <2>3, OwnershipTransfer
    <2>4. ASSUME NEW q \in Request, NEW u \in User, NEW w \in Wallet, NEW t \in Token,
                 check(q, w, caller_auth(u, t))
          PROVE  OwnershipInv'
      <3>1. caller_auth(u, t) \in User \cup {Nobody}
        BY DEF caller_auth
      <3> QED BY <2>4, <3>1, OwnershipCheck
    <2>5. ASSUME NEW q \in Request, RouterReads(q) \/ fetch_fails(q) \/ store(q)
          PROVE  OwnershipInv'
      BY <2>5, OwnershipRead, OwnershipFails, OwnershipStore
    <2> QED BY <1>1, <2>1, <2>2, <2>3, <2>4, <2>5 DEF Ownership, OwnershipNext
  <1>2. ASSUME NEW q \in Granted, Returns(q) PROVE OwnershipInv'
    BY <1>2, OwnershipReturns DEF Granted
  <1>3. CASE UNCHANGED ownVars
    BY <1>3 DEF ownVars, OwnershipInv, OwnershipTypeOK, Remembered
  <1> QED BY <1>1, <1>2, <1>3, OwnershipCases

\* A step that admits a request decides on a cached set younger than Ttl or on an
\* answer no older than FetchMax.
LEMMA GrantStep ==
    ASSUME OwnershipInv, [NextAdmission]_admissionVars, NEW q \in Request,
           req[q].pc # "granted", req'[q].pc = "granted"
    PROVE  /\ req'[q].sub # Nobody
           /\ LET age == disowned'[req'[q].sub][req'[q].wallet]
              IN  age <= FetchMax \/ age < Ttl + FetchMax
  <1> DEFINE Fresh == /\ req'[q].sub # Nobody
                      /\ LET age == disowned'[req'[q].sub][req'[q].wallet]
                         IN  age <= FetchMax \/ age < Ttl + FetchMax
  <1> SUFFICES Fresh
    OBVIOUS
  <1> USE OwnershipAssumption
  <1>1. ASSUME NEW p \in Request, NEW w \in Wallet, NEW sub \in User \cup {Nobody},
               check(p, w, sub)
        PROVE  Fresh
    BY <1>1 DEF OwnershipInv, OwnershipTypeOK, Remembered, check, Decided, Idle, At, cached
  <1>2. ASSUME NEW p \in Request, store(p) PROVE Fresh
    BY <1>2 DEF OwnershipInv, OwnershipTypeOK, Remembered, store, Decided, Idle, At
  <1>3. CASE Tick
    BY <1>3 DEF OwnershipInv, OwnershipTypeOK, Tick, Waited, At
  <1>4. ASSUME NEW p \in Request, RouterReads(p) \/ fetch_fails(p) \/ Returns(p) PROVE FALSE
    BY <1>4 DEF OwnershipInv, OwnershipTypeOK, RouterReads, fetch_fails, Returns, Idle, At
  <1>5. CASE UNCHANGED req
    BY <1>5
  <1>6. \A u \in User, t \in Token : caller_auth(u, t) \in User \cup {Nobody}
    BY DEF caller_auth
  <1>7. CASE Ownership
    <2>1. ASSUME NEW p \in Request, NEW u \in User, NEW w \in Wallet, NEW t \in Token,
                 check(p, w, caller_auth(u, t))
          PROVE  Fresh
      BY <2>1, <1>1, <1>6
    <2> QED
      BY <1>2, <1>3, <1>4, <1>5, <1>7, <2>1
      DEF Ownership, OwnershipNext, refresh_keys, Transfer
  <1>8. ASSUME NEW p \in Granted, Returns(p) PROVE FALSE
    BY <1>4, <1>8 DEF Granted
  <1> QED BY <1>5, <1>7, <1>8, OwnershipCases DEF ownVars

\* No interleaving of round trips, stores, prunings, ownership changes and ticks
\* admits a request on ownership older than the cache and a round trip allow.
THEOREM GrantsAreFresh == SpecAdmission => GrantFresh
  <1>1. InitAdmission => OwnershipInv
    BY OwnershipInit DEF InitAdmission
  <1>2. OwnershipInv /\ [NextAdmission]_admissionVars =>
          [\A q \in Request :
             req[q].pc # "granted" /\ req'[q].pc = "granted" =>
                 /\ req'[q].sub # Nobody
                 /\ LET age == disowned'[req'[q].sub][req'[q].wallet]
                    IN  age <= FetchMax \/ age < Ttl + FetchMax]_admissionVars
    BY GrantStep
  <1> QED BY <1>1, <1>2, OwnershipStep, PTL DEF SpecAdmission, GrantFresh

------------------------------------------------------------------------------
(* Amounts *)

\* Arithmetic below 2^64 does not wrap.
LEMMA WrapSmall == ASSUME NEW n \in Nat, n < U64 PROVE wrap(n) = n
  BY AmountsAssumption DEF wrap

\* round_up_to_sat returns the least whole-satoshi amount that is not smaller.
LEMMA RoundUp ==
    ASSUME NEW m \in Nat, m + 1000 <= U64
    PROVE  /\ round_up_to_sat(m) \in Nat
           /\ m <= round_up_to_sat(m) /\ round_up_to_sat(m) < m + 1000
           /\ whole_sat(round_up_to_sat(m)) \in Nat
           /\ round_up_to_sat(m) = 1000 * whole_sat(round_up_to_sat(m))
  <1> DEFINE n == ((m + 999) \div 1000) * 1000
  <1>1. n \in Nat /\ m <= n /\ n < m + 1000
    OBVIOUS
  <1>2. n = 1000 * (n \div 1000) /\ n \div 1000 \in Nat
    OBVIOUS
  <1>3. wrap(n) = n
    BY <1>1, WrapSmall, AmountsAssumption
  <1> QED BY <1>1, <1>2, <1>3 DEF round_up_to_sat, whole_sat

\* Rounding up changes nothing in whole satoshis.
LEMMA RoundUpWhole ==
    ASSUME NEW s \in Nat, 1000 * s < U64
    PROVE  round_up_to_sat(1000 * s) = 1000 * s /\ whole_sat(1000 * s) = s
  <1>1. ((1000 * s + 999) \div 1000) * 1000 = 1000 * s /\ (1000 * s) \div 1000 = s
    OBVIOUS
  <1> QED BY <1>1, WrapSmall DEF round_up_to_sat, whole_sat

\* The limit, in satoshis, that LnFees::max_for computes.
FeeLimit(m) ==
    LET scaled == 50 * (m \div 1000)
        pct == IF scaled % 10000 > 5000 THEN scaled \div 10000 + 1 ELSE scaled \div 10000
    IN  IF pct < 10 THEN 10 ELSE pct

\* max_for neither saturates nor wraps for what a BOLT11 invoice can carry, and
\* is 0.5% to the nearest satoshi, or 10 sat.
LEMMA FeeCap ==
    ASSUME NEW m \in Nat, 10 * m <= U64 + 10000
    PROVE  /\ FeeLimit(m) \in Nat
           /\ max_for(m) = 1000 * FeeLimit(m)
           /\ 1000 * FeeLimit(m) <= 10000 + m /\ 2 * FeeLimit(m) * 1000 < U64
           /\ LET excess == 10000 * FeeLimit(m) - 50 * (m \div 1000)
              IN  \/ FeeLimit(m) > 10 /\ excess >= -5000 /\ excess < 5000
                  \/ FeeLimit(m) = 10 /\ excess >= -5000
  <1> DEFINE scaled == 50 * (m \div 1000)
             pct == IF scaled % 10000 > 5000 THEN scaled \div 10000 + 1 ELSE scaled \div 10000
  <1>1. scaled \in Nat /\ 20 * scaled <= m
    OBVIOUS
  <1>2. scaled < U64
    BY <1>1, AmountsAssumption
  <1> HIDE DEF scaled
  <1>3. /\ pct \in Nat
        /\ 10000 * pct - scaled >= -5000 /\ 10000 * pct - scaled < 5000
    BY <1>1
  <1> HIDE DEF pct
  <1>4. FeeLimit(m) = IF pct < 10 THEN 10 ELSE pct
    BY DEF FeeLimit, scaled, pct
  <1>5. max_for(m) = wrap((IF pct < 10 THEN 10 ELSE pct) * 1000)
    BY <1>2 DEF max_for, whole_sat, scaled, pct
  <1>6. /\ FeeLimit(m) \in Nat /\ 1000 * FeeLimit(m) <= 10000 + m
        /\ 2 * FeeLimit(m) * 1000 < U64
    BY <1>1, <1>3, <1>4, AmountsAssumption
  <1>7. wrap(FeeLimit(m) * 1000) = FeeLimit(m) * 1000
    BY <1>6, WrapSmall, AmountsAssumption
  <1>8. LET excess == 10000 * FeeLimit(m) - scaled
        IN  \/ FeeLimit(m) > 10 /\ excess >= -5000 /\ excess < 5000
            \/ FeeLimit(m) = 10 /\ excess >= -5000
    BY <1>1, <1>3, <1>4
  <1> QED BY <1>4, <1>5, <1>6, <1>7, <1>8 DEF scaled

\* Of a payment: hold, debit and fee limit against the exact amounts.
LEMMA SendAmounts ==
    ASSUME NEW i \in InvoiceMsat, NEW fee \in FeeMsat \cup {-1},
           fee <= max_for(decoded_msat(i))
    PROVE  LET amount == decoded_msat(i)
               maxFee == max_for(amount)
           IN  /\ Covered(debit_sat(amount, fee), hold_sat(amount),
                          i + (IF fee < 0 THEN 0 ELSE fee), i + maxFee)
               /\ NearestFee(amount, maxFee)
  <1> DEFINE amount == decoded_msat(i)
             a == whole_sat(amount)
             L == FeeLimit(amount)
             paid == IF fee < 0 THEN 0 ELSE fee
             f == whole_sat(fees_paid_msat(fee))
  <1>1. i \in Nat /\ 10 * i <= U64 /\ fee \in Int
    BY AmountsAssumption, InputsAssumption
  <1>2. /\ amount \in Nat /\ a \in Nat /\ amount = 1000 * a
        /\ i <= amount /\ amount < i + 1000
    BY <1>1, RoundUp, AmountsAssumption DEF decoded_msat
  <1> HIDE DEF amount, a
  <1>3. /\ L \in Nat /\ max_for(amount) = 1000 * L
        /\ 1000 * L <= 10000 + amount /\ 2 * L * 1000 < U64
        /\ LET excess == 10000 * L - 50 * (amount \div 1000)
           IN  \/ L > 10 /\ excess >= -5000 /\ excess < 5000
               \/ L = 10 /\ excess >= -5000
    <2>1. 10 * amount <= U64 + 10000
      BY <1>1, <1>2, AmountsAssumption
    <2> QED BY <1>2, <2>1, FeeCap
  <1> HIDE DEF L
  <1>4. paid \in Nat /\ paid <= 1000 * L
    BY <1>1, <1>3 DEF amount
  <1>5. f \in Nat /\ paid <= 1000 * f /\ 1000 * f < paid + 1000
    <2>1. CASE fee < 0
      BY <2>1 DEF fees_paid_msat, whole_sat
    <2>2. CASE ~(fee < 0)
      <3>1. fee \in Nat /\ fee + 1000 <= U64
        BY <2>2, <1>1, <1>3, <1>4, AmountsAssumption
      <3>2. fees_paid_msat(fee) = round_up_to_sat(fee)
        BY <2>2 DEF fees_paid_msat
      <3> QED BY <2>2, <3>1, <3>2, RoundUp
    <2> QED BY <2>1, <2>2
  <1> HIDE DEF paid, f
  <1>6. f <= L
    BY <1>3, <1>4, <1>5
  <1>7. hold_sat(amount) = a + L
    <2>1. amount + max_for(amount) = 1000 * (a + L)
      BY <1>2, <1>3
    <2>2. a + L \in Nat /\ 1000 * (a + L) < U64
      BY <1>1, <1>2, <1>3, AmountsAssumption
    <2>3. wrap(1000 * (a + L)) = 1000 * (a + L)
      BY <2>2, WrapSmall
    <2> QED BY <2>1, <2>2, <2>3, RoundUpWhole DEF hold_sat
  <1>8. debit_sat(amount, fee) = a + f
    BY DEF debit_sat, a, f
  <1>9. (1000 * L) \div 1000 = L
    BY <1>3
  <1>10. /\ a + f <= a + L
         /\ i + paid <= 1000 * (a + f)
         /\ 1000 * (a + f) < i + paid + 2000
         /\ 1000 * (a + L) < i + 1000 * L + 1000
    BY <1>1, <1>2, <1>3, <1>4, <1>5, <1>6
  <1>11. Covered(debit_sat(amount, fee), hold_sat(amount), i + paid, i + max_for(amount))
    BY <1>3, <1>7, <1>8, <1>10 DEF Covered
  <1>12. NearestFee(amount, max_for(amount))
    BY <1>3, <1>9 DEF NearestFee
  <1> QED BY <1>11, <1>12 DEF amount, paid

\* The invoice that was last handed out, as the later settlement needs it.
InvoiceShape ==
    out.op = "invoice" =>
        /\ out.asked \in Nat /\ out.askedSeconds \in Nat
        /\ out.lndMsat \in Nat /\ out.lndExpiry \in Nat
        /\ out.satoshis = whole_sat(out.lndMsat)
        /\ out.rowExpiry = row_expiry(out.lndExpiry)

Exact == SpendCovered /\ InvoiceAsAsked /\ InvoiceShape

\* A step that sends no payment.
LEMMA NothingSent == ASSUME out'.op # "sent" PROVE SpendCovered'
  BY Zenon DEF SpendCovered

\* A step that leaves no invoice.
LEMMA NoInvoice ==
    ASSUME out'.op # "invoice" PROVE InvoiceAsAsked' /\ InvoiceShape'
  <1>1. InvoiceAsAsked'
    BY Zenon DEF InvoiceAsAsked
  <1>2. InvoiceShape'
    BY Zenon DEF InvoiceShape
  <1> QED BY <1>1, <1>2

\* An invoice is created for the amount and the time asked.
LEMMA CreateExact ==
    ASSUME NEW q, NEW sat \in AskedSat, NEW minutes \in AskedMinutes,
           create_invoice(q, sat, minutes)
    PROVE  Exact'
  <1> DEFINE msat == to_msat(sat)
             seconds == expiry_seconds(minutes)
  <1>1. sat \in Nat /\ minutes \in Nat
    BY InputsAssumption, AmountsAssumption
  <1>2. msat \in Nat /\ (sat <= Supply => msat = 1000 * sat /\ whole_sat(msat) = sat)
    <2>1. msat \in Nat
      BY <1>1, AmountsAssumption DEF to_msat, wrap
    <2>2. ASSUME sat <= Supply PROVE msat = 1000 * sat /\ whole_sat(msat) = sat
      <3>1. 1000 * sat < U64
        BY <1>1, <2>2, AmountsAssumption
      <3> QED BY <1>1, <3>1, WrapSmall, RoundUpWhole DEF to_msat
    <2> QED BY <2>1, <2>2
  <1>3. /\ seconds \in Nat
        /\ 60 * minutes <= 86400 => seconds = 60 * minutes
    <2>1. CASE 60 * minutes < U32
      BY <1>1, <2>1 DEF expiry_seconds
    <2>2. CASE ~(60 * minutes < U32)
      BY <1>1, <2>2, AmountsAssumption DEF expiry_seconds
    <2> QED BY <2>1, <2>2
  <1> HIDE DEF msat, seconds
  <1>4. CASE out' = Invoice(sat, 60 * minutes, msat, seconds, 0, 0)
    <2>1. /\ out'.op = "invoice" /\ out'.asked = sat /\ out'.askedSeconds = 60 * minutes
          /\ out'.lndMsat = msat /\ out'.satoshis = whole_sat(msat)
          /\ out'.lndExpiry = seconds /\ out'.rowExpiry = row_expiry(seconds)
          /\ out'.paid = 0
      BY <1>4 DEF Invoice
    <2>2. SpendCovered'
      BY <2>1, NothingSent
    <2>3. InvoiceAsAsked'
      <3>1. ASSUME UpToOneDay(60 * minutes)
            PROVE  seconds = 60 * minutes /\ row_expiry(seconds) = seconds
        <4>1. 60 <= 60 * minutes /\ 60 * minutes <= 86400
          BY <3>1 DEF UpToOneDay
        <4>2. seconds = 60 * minutes
          BY <1>3, <4>1
        <4> QED BY <4>1, <4>2 DEF row_expiry
      <3>2. ASSUME sat <= Supply PROVE AsAsked(sat, msat, whole_sat(msat), 0, out'.credit)
        BY <1>1, <1>2, <3>2 DEF AsAsked
      <3> QED BY <2>1, <3>1, <3>2, Zenon DEF InvoiceAsAsked
    <2>4. InvoiceShape'
      BY <1>1, <1>2, <1>3, <2>1 DEF InvoiceShape
    <2> QED BY <2>2, <2>3, <2>4 DEF Exact
  <1>5. CASE out'.op = "refused"
    BY <1>5, NothingSent, NoInvoice DEF Exact
  <1> QED BY <1>4, <1>5 DEF create_invoice, Serve, msat, seconds

\* Its settlement credits what was received, rounded down.
LEMMA SettleExact ==
    ASSUME NEW more \in Overpay, Exact, SettleInvoice(more)
    PROVE  Exact'
  <1> DEFINE paid == out.lndMsat + more
  <1>1. /\ out.op = "invoice" /\ more \in Nat
        /\ out' = Invoice(out.asked, out.askedSeconds, out.lndMsat, out.lndExpiry,
                          paid, paid \div 1000)
    BY InputsAssumption DEF SettleInvoice, credit_sat, whole_sat
  <1>2. /\ out.asked \in Nat /\ out.lndMsat \in Nat /\ out.lndExpiry \in Nat
        /\ out.askedSeconds \in Nat
        /\ out.satoshis = whole_sat(out.lndMsat)
        /\ out.rowExpiry = row_expiry(out.lndExpiry)
    BY <1>1 DEF Exact, InvoiceShape
  <1>3. /\ 1000 * (paid \div 1000) <= paid
        /\ out.lndMsat = 1000 * out.asked => out.asked <= paid \div 1000
    BY <1>1, <1>2
  <1> HIDE DEF paid
  <1>4. /\ out'.op = "invoice" /\ out'.asked = out.asked
        /\ out'.askedSeconds = out.askedSeconds
        /\ out'.lndMsat = out.lndMsat /\ out'.satoshis = out.satoshis
        /\ out'.lndExpiry = out.lndExpiry /\ out'.rowExpiry = out.rowExpiry
        /\ out'.paid = paid /\ out'.credit = paid \div 1000
    BY <1>1, <1>2 DEF Invoice
  <1>5. SpendCovered'
    BY <1>4, NothingSent
  <1>6. InvoiceAsAsked'
    BY <1>1, <1>2, <1>3, <1>4 DEF Exact, InvoiceAsAsked, AsAsked
  <1>7. InvoiceShape'
    BY <1>2, <1>4 DEF InvoiceShape
  <1> QED BY <1>5, <1>6, <1>7 DEF Exact

\* A payment is held, limited and debited as computed.
LEMMA SendExact ==
    ASSUME NEW q, NEW i \in InvoiceMsat, NEW fee \in FeeMsat \cup {-1},
           send_payment(q, i, fee)
    PROVE  Exact'
  <1> DEFINE amount == decoded_msat(i)
             maxFee == max_for(amount)
  <1>1. CASE out'.op \in {"refused", "declined"}
    <2>1. out'.op # "sent" /\ out'.op # "invoice"
      BY <1>1
    <2> QED BY <2>1, NothingSent, NoInvoice DEF Exact
  <1>2. CASE /\ fee <= maxFee
             /\ out' = [op |-> "sent", amount |-> amount, maxFee |-> maxFee,
                        hold |-> hold_sat(amount), debit |-> debit_sat(amount, fee),
                        worst |-> i + maxFee,
                        spent |-> i + (IF fee < 0 THEN 0 ELSE fee)]
    <2>1. /\ out'.op = "sent" /\ out'.amount = amount /\ out'.maxFee = maxFee
          /\ out'.hold = hold_sat(amount) /\ out'.debit = debit_sat(amount, fee)
          /\ out'.worst = i + maxFee /\ out'.spent = i + (IF fee < 0 THEN 0 ELSE fee)
      BY <1>2
    <2>2. /\ Covered(debit_sat(amount, fee), hold_sat(amount),
                     i + (IF fee < 0 THEN 0 ELSE fee), i + maxFee)
          /\ NearestFee(amount, maxFee)
      BY <1>2, SendAmounts
    <2>3. SpendCovered'
      BY <2>1, <2>2 DEF SpendCovered
    <2>4. InvoiceAsAsked' /\ InvoiceShape'
      BY <2>1, NoInvoice
    <2> QED BY <2>3, <2>4 DEF Exact
  <1> QED BY <1>1, <1>2 DEF send_payment, Serve

\* Every step keeps the amounts right.
LEMMA ExactStep == Exact /\ [NextAdmission]_admissionVars => Exact'
  <1> SUFFICES ASSUME Exact, [NextAdmission]_admissionVars PROVE Exact'
    OBVIOUS
  <1>1. CASE out'.op \in {"none", "refused", "quote"}
    <2>1. out'.op # "sent" /\ out'.op # "invoice"
      BY <1>1
    <2> QED BY <2>1, NothingSent, NoInvoice DEF Exact
  <1>2. CASE UNCHANGED out
    BY <1>2, Zenon
    DEF Exact, SpendCovered, InvoiceAsAsked, InvoiceShape
  <1>3. ASSUME Ownership PROVE out'.op = "none"
    BY <1>3 DEF Ownership, None
  <1>4. ASSUME NEW q, NEW fee, fee_probe(q, fee) PROVE out'.op \in {"refused", "quote"}
    BY <1>4 DEF fee_probe, Serve
  <1> QED
    BY <1>1, <1>2, <1>3, <1>4, CreateExact, SettleExact, SendExact DEF NextAdmission, admissionVars

\* Initially nothing was computed.
LEMMA ExactInit == InitAdmission => Exact
  <1> SUFFICES ASSUME InitAdmission PROVE Exact
    OBVIOUS
  <1>1. out.op # "sent" /\ out.op # "invoice"
    BY DEF InitAdmission, None
  <1> QED
    BY <1>1, Zenon
    DEF Exact, SpendCovered, InvoiceAsAsked, InvoiceShape

\* For every amount, fee and width that holds the supply: hold and debit cover what
\* is spent and exceed it only by the roundings, and the fee limit is the policy's.
THEOREM SpendIsCovered == SpecAdmission => []SpendCovered
  BY ExactInit, ExactStep, PTL DEF SpecAdmission, Exact

\* An invoice carries the amount and the expiry asked, everywhere, and its credit
\* is never more than was received.
THEOREM InvoicesAsAsked == SpecAdmission => []InvoiceAsAsked
  BY ExactInit, ExactStep, PTL DEF SpecAdmission, Exact

------------------------------------------------------------------------------
(* The process: its inductive invariant *)

\* The types of the supervisor's variables.
TaskState == {"run", "grace", "cancelled", "over", "panicked", "aborted"}

SupTypeOK ==
    /\ sv \in {"down", "recv", "drain"} /\ at \in 0 .. Len(handles)
    /\ task \in [Task -> TaskState]
    /\ inner \in {"run", "over", "panicked"}
    /\ channel \in {<<>>, <<"ok">>, <<"err">>}
    /\ cancel \in BOOLEAN /\ serving \in BOOLEAN
    /\ reason \in {"none", "ok", "err"}
    /\ recovered \in BOOLEAN

\* While no one has cancelled the token, the supervisor waits, and only errors are
\* reported.
BeforeCancel ==
    Alive /\ ~cancel =>
        /\ sv = "recv" /\ channel # <<"ok">>
        /\ task["signal"] \in {"run", "grace", "over"}

\* While the supervisor waits it has no reason yet; a token cancelled by then
\* was cancelled by the signal task, after NotServing.
Waiting ==
    sv = "recv" =>
        /\ reason = "none"
        /\ cancel => task["signal"] \in {"cancelled", "over"} /\ ~serving

\* The supervisor leaves with success only after a signal and its grace window.
Leaving ==
    sv = "drain" =>
        /\ reason \in {"ok", "err"}
        /\ reason = "ok" => task["signal"] \notin {"run", "grace"} /\ ~serving

\* The signal task announces the drain before its grace window.
Announced == Alive /\ task["signal"] \in {"grace", "cancelled"} => ~serving

\* The subscription task ends after the consumer it spawned.
InnerFirst == Alive /\ task["subscription"] = "over" => inner # "run"

Supervised == BeforeCancel /\ Waiting /\ Leaving /\ Announced /\ InnerFirst

\* Every handle the supervisor is past has stopped.
Past == sv = "drain" => \A i \in 1 .. at : task[handles[i]] \in {"over", "panicked", "aborted"}

Inv == SupTypeOK /\ JobsTypeOK /\ Supervised /\ Past

------------------------------------------------------------------------------
(* Handles and jobs *)

\* The handles are a finite list of tasks, awaited from the first.
LEMMA HandleList == handles \in Seq(Task) /\ Len(handles) \in Nat /\ 0 \in 0 .. Len(handles)
<1>1. IsFiniteSet(Server)
  BY ProcessAssumption
<1>2. PICK f \in Bijection(1 .. Cardinality(Server), Server) : TRUE
  BY <1>1, FS_CardinalityType DEF ExistsBijection
<1>3. f \in [1 .. Cardinality(Server) -> Server] /\ Server = {f[i] : i \in DOMAIN f}
  BY <1>2 DEF Bijection, Injection, Surjection
<1>4. Servers \in [1 .. Cardinality(Server) -> Server]
  BY <1>3, Zenon DEF Servers
<1>5. Servers \in Seq(Task)
  BY <1>1, <1>4, FS_CardinalityType DEF Task
<1>6. <<"consumer", "subscription", "signal">> \in Seq(Task)
  BY DEF Task
<1> QED BY <1>5, <1>6 DEF handles

\* All tasks in one state is a state of the tasks.
LEMMA AllTasks ==
    [t \in Task |-> "over"] \in [Task -> TaskState] /\ [t \in Task |-> "run"] \in [Task -> TaskState]
BY DEF TaskState

\* Spawning and abandoning jobs keeps the tables' types.
LEMMA SpawnTypes ==
    ASSUME JobsTypeOK, NEW js, spawn_unique(js), UNCHANGED <<row, todo>>
    PROVE  JobsTypeOK'
BY DEF JobsTypeOK, spawn_unique

\* A process that ends abandons its tick.
LEMMA AbandonTypes ==
    ASSUME JobsTypeOK, AbandonJobs, UNCHANGED row
    PROVE  JobsTypeOK'
<1>1. Cardinality({}) = 0 /\ Limit \in Nat
  BY FS_EmptySet, JobsAssumption
<1> QED BY <1>1 DEF JobsTypeOK, AbandonJobs

\* A tick lists no more rows than the limit, and each visit leaves fewer.
LEMMA TickTypes ==
    ASSUME JobsTypeOK, StartTick \/ EndTick \/ \E r \in Row : Visit(r)
    PROVE  JobsTypeOK'
<1>0. IsFiniteSet(Row) /\ Limit \in Nat
  BY JobsAssumption
<1>1. CASE StartTick
  <2>1. Listed \subseteq Row /\ IsFiniteSet(Listed) /\ Cardinality(Listed) \in Nat
    BY <1>0, FS_Subset, FS_CardinalityType DEF Listed
  <2>2. todo' \subseteq Row /\ Cardinality(todo') <= Limit
    BY <1>0, <1>1, <2>1 DEF StartTick, Batches, kSubset
  <2> QED BY <1>1, <2>2 DEF JobsTypeOK, StartTick, JobType
<1>2. CASE EndTick
  BY <1>2 DEF JobsTypeOK, EndTick, JobType
<1>3. ASSUME NEW r \in Row, Visit(r) PROVE JobsTypeOK'
  <2>1. IsFiniteSet(todo) /\ Cardinality(todo) \in Nat
    BY <1>0, FS_Subset, FS_CardinalityType DEF JobsTypeOK
  <2>2. todo' \subseteq Row /\ Cardinality(todo') <= Limit
    <3>1. Cardinality(todo \ {r}) = Cardinality(todo) - 1
      BY <1>3, <2>1, FS_RemoveElement DEF Visit
    <3> QED BY <1>0, <1>3, <2>1, <3>1 DEF Visit, JobsTypeOK
  <2> QED BY <1>3, <2>2 DEF JobsTypeOK, Visit
<1> QED BY <1>1, <1>2, <1>3

------------------------------------------------------------------------------
(* The steps of the tasks *)

\* The three tasks beside the servers are tasks, and no server is one of them.
LEMMA Tasks ==
    /\ "consumer" \in Task /\ "subscription" \in Task /\ "signal" \in Task
    /\ \A s \in Server : s \in Task /\ s # "consumer" /\ s # "subscription" /\ s # "signal"
BY ProcessAssumption DEF Task

\* A task moves on: only stopped handles count as past, so none of them is it.
LEMMA PastStays ==
    ASSUME Inv, NEW t \in Task, task[t] \in {"run", "grace", "cancelled"}, NEW st \in TaskState,
           task' = [task EXCEPT ![t] = st], UNCHANGED <<sv, at>>
    PROVE  Past'
<1> SUFFICES ASSUME sv = "drain", NEW i \in 1 .. at
             PROVE  task'[handles[i]] \in {"over", "panicked", "aborted"}
  BY DEF Past
<1>1. handles[i] \in Task /\ task[handles[i]] \in {"over", "panicked", "aborted"}
  BY HandleList DEF Inv, Past, SupTypeOK
<1> QED BY <1>1 DEF Inv, SupTypeOK

\* Reporting leaves at most one reason, the first.
LEMMA ReportFacts ==
    ASSUME Inv, NEW r \in {"ok", "err"}, report_exit(r)
    PROVE  /\ channel' \in {<<>>, <<"ok">>, <<"err">>}
           /\ channel' = channel \/ channel' = <<r>>
BY DEF Inv, SupTypeOK, report_exit

\* A step of a task that leaves the jobs alone keeps the tables.
LEMMA JobsStay == ASSUME JobsTypeOK, UNCHANGED jobVars PROVE JobsTypeOK'
BY DEF JobsTypeOK, jobVars

\* A server task ends: with success after the token was cancelled, else with an
\* error.
LEMMA ServerStep ==
    ASSUME Inv, NEW s \in Server, run_server(s)
    PROVE  Inv'
<1>1. PICK r \in {"ok", "err"} : Ends(s, r) /\ (r = "ok" => cancel)
  BY DEF run_server
<1>2. task' = [task EXCEPT ![s] = "over"] /\ report_exit(r)
  BY <1>1 DEF Ends
<1>3. /\ Alive /\ task[s] = "run"
      /\ UNCHANGED <<sv, at, inner, cancel, serving, reason, recovered, jobVars>>
  BY DEF run_server, restOfTask
<1>4. Past'
  BY <1>2, <1>3, Tasks, PastStays, Zenon DEF TaskState
<1>5. SupTypeOK' /\ JobsTypeOK'
  <2>1. SupTypeOK'
    BY <1>2, <1>3, ReportFacts, Zenon DEF Inv, SupTypeOK, TaskState
  <2> QED BY <1>3, <2>1, JobsStay DEF Inv
<1>6. Supervised'
  BY <1>1, <1>2, <1>3, Tasks, ReportFacts DEF Inv, SupTypeOK, Supervised, BeforeCancel, Waiting, Leaving, Announced,
     InnerFirst, Alive
<1> QED BY <1>4, <1>5, <1>6 DEF Inv

\* The invoice-update consumer ends after the cancellation, or panics.
LEMMA ConsumerStep ==
    ASSUME Inv, run_consumer
    PROVE  Inv'
<1>1. PICK st \in {"over", "panicked"} :
        /\ task' = [task EXCEPT !["consumer"] = st]
        /\ \/ st = "over" /\ cancel /\ report_exit("ok")
           \/ st = "panicked" /\ UNCHANGED channel
  BY DEF run_consumer, Ends
<1>2. /\ Alive /\ task["consumer"] = "run"
      /\ UNCHANGED <<sv, at, inner, cancel, serving, reason, recovered, jobVars>>
  BY DEF run_consumer, restOfTask
<1>3. Past'
  BY <1>1, <1>2, Tasks, PastStays, Zenon DEF TaskState
<1>4. SupTypeOK' /\ JobsTypeOK'
  <2>1. SupTypeOK'
    BY <1>1, <1>2, ReportFacts, Zenon DEF Inv, SupTypeOK, TaskState
  <2> QED BY <1>2, <2>1, JobsStay DEF Inv
<1>5. Supervised'
  BY <1>1, <1>2, Tasks, ReportFacts DEF Inv, SupTypeOK, Supervised, BeforeCancel, Waiting, Leaving, Announced,
     InnerFirst, Alive
<1> QED BY <1>3, <1>4, <1>5 DEF Inv

\* The payment-update consumer ends after the cancellation, or panics; the
\* subscription task ends after it.
LEMMA SubscriptionStep ==
    ASSUME Inv, run_inner \/ run_subscription
    PROVE  Inv'
<1>1. CASE run_inner
  <2>1. /\ Alive /\ inner = "run" /\ inner' \in {"over", "panicked"} /\ (inner' = "over" => cancel)
        /\ UNCHANGED <<sv, at, task, channel, cancel, serving, reason, recovered, jobVars>>
    BY <1>1 DEF run_inner, restOfTask
  <2>2. SupTypeOK' /\ JobsTypeOK' /\ Past'
    <3>1. SupTypeOK'
      BY <2>1 DEF Inv, SupTypeOK
    <3> QED BY <2>1, <3>1, JobsStay DEF Inv, Past
  <2>3. Supervised'
    BY <2>1 DEF Inv, Supervised, BeforeCancel, Waiting, Leaving, Announced, InnerFirst, Alive
  <2> QED BY <2>2, <2>3 DEF Inv
<1>2. CASE run_subscription
  <2>1. /\ Alive /\ cancel /\ inner # "run" /\ task["subscription"] = "run"
        /\ task' = [task EXCEPT !["subscription"] = "over"] /\ report_exit("ok")
        /\ UNCHANGED <<sv, at, inner, cancel, serving, reason, recovered, jobVars>>
    BY <1>2 DEF run_subscription, Ends, restOfTask
  <2>2. Past'
    BY <2>1, Tasks, PastStays, Zenon DEF TaskState
  <2>3. SupTypeOK' /\ JobsTypeOK'
    <3>1. SupTypeOK'
      BY <2>1, ReportFacts, Zenon DEF Inv, SupTypeOK, TaskState
    <3> QED BY <2>1, <3>1, JobsStay DEF Inv
  <2>4. Supervised'
    BY <2>1, Tasks, ReportFacts DEF Inv, SupTypeOK, Supervised, BeforeCancel, Waiting, Leaving, Announced,
       InnerFirst, Alive
  <2> QED BY <2>2, <2>3, <2>4 DEF Inv
<1> QED BY <1>1, <1>2

\* The signal task: NotServing, the grace window, the cancellation, the report.
LEMMA SignalStep ==
    ASSUME Inv, receive_signal \/ install_fails \/ cancel_token \/ report_signal
    PROVE  Inv'
<1>1. PICK st \in {"grace", "cancelled", "over"} :
        /\ Alive /\ task["signal"] \in {"run", "grace", "cancelled"}
        /\ task' = [task EXCEPT !["signal"] = st]
        /\ UNCHANGED <<sv, at, inner, reason, recovered, jobVars>>
        /\ \/ st = "grace" /\ task["signal"] = "run" /\ serving' = FALSE /\ UNCHANGED <<channel, cancel>>
           \/ st = "over" /\ task["signal"] = "run" /\ report_exit("err") /\ UNCHANGED <<cancel, serving>>
           \/ st = "cancelled" /\ task["signal"] = "grace" /\ cancel' = TRUE /\ UNCHANGED <<channel, serving>>
           \/ st = "over" /\ task["signal"] = "cancelled" /\ report_exit("ok") /\ UNCHANGED <<cancel, serving>>
  BY Zenon DEF receive_signal, install_fails, cancel_token, report_signal, Ends, restOfTask
<1>2. Past'
  BY <1>1, Tasks, PastStays, Zenon DEF TaskState
<1>3. SupTypeOK' /\ JobsTypeOK'
  <2>1. SupTypeOK'
    BY <1>1, ReportFacts, Zenon DEF Inv, SupTypeOK, TaskState
  <2> QED BY <1>1, <2>1, JobsStay DEF Inv
<1>4. Supervised'
  BY <1>1, Tasks, ReportFacts DEF Inv, SupTypeOK, Supervised, BeforeCancel, Waiting, Leaving, Announced,
     InnerFirst, Alive
<1> QED BY <1>2, <1>3, <1>4 DEF Inv

------------------------------------------------------------------------------
(* The supervisor, boot and the end *)

\* The supervisor takes the first reason and cancels.
LEMMA RecvStep ==
    ASSUME Inv, Supervise_recv
    PROVE  Inv'
<1>1. /\ sv = "recv" /\ sv' = "drain" /\ at' = 0 /\ cancel' = TRUE /\ channel' = <<>>
      /\ channel \in {<<"ok">>, <<"err">>} /\ channel = <<reason'>>
      /\ UNCHANGED <<task, inner, serving, recovered, jobVars>>
  BY DEF Supervise_recv, Inv, SupTypeOK
<1>2. SupTypeOK' /\ JobsTypeOK' /\ Past'
  <2>1. SupTypeOK'
    BY <1>1, HandleList DEF Inv, SupTypeOK
  <2> QED BY <1>1, <2>1, JobsStay DEF Inv, Past
<1>3. Supervised'
  BY <1>1 DEF Inv, Supervised, BeforeCancel, Waiting, Leaving, Announced, InnerFirst, Alive
<1> QED BY <1>2, <1>3 DEF Inv

\* The supervisor is past one more handle, which has stopped or is aborted.
LEMMA AwaitStep ==
    ASSUME Inv, await_handle
    PROVE  Inv'
<1> DEFINE t == handles[at + 1]
<1>1. /\ sv = "drain" /\ at \in 0 .. Len(handles) /\ at < Len(handles) /\ at' = at + 1
      /\ task' = IF task[t] \in {"over", "panicked"} THEN task ELSE [task EXCEPT ![t] = "aborted"]
      /\ UNCHANGED <<sv, inner, channel, cancel, serving, reason, recovered, jobVars>>
  BY DEF await_handle, Inv, SupTypeOK
<1>2. t \in Task /\ \A i \in 1 .. at : handles[i] \in Task
  BY <1>1, HandleList
<1>3. task \in [Task -> TaskState]
  BY DEF Inv, SupTypeOK, TaskState
<1>4. /\ task'[t] \in {"over", "panicked", "aborted"} /\ task' \in [Task -> TaskState]
      /\ \A u \in Task : task'[u] = task[u] \/ task'[u] = "aborted"
  BY <1>1, <1>2, <1>3 DEF TaskState
<1>5. Past'
  <2> SUFFICES ASSUME NEW i \in 1 .. at + 1
               PROVE  task'[handles[i]] \in {"over", "panicked", "aborted"}
    BY <1>1 DEF Past
  <2>1. CASE i = at + 1
    BY <1>4, <2>1
  <2>2. CASE i # at + 1
    <3>1. i \in 1 .. at
      BY <1>1, <2>2, HandleList
    <3> QED BY <1>1, <1>2, <1>4, <3>1 DEF Inv, Past
  <2> QED BY <2>1, <2>2
<1>6. SupTypeOK' /\ JobsTypeOK'
  <2>1. SupTypeOK'
    BY <1>1, <1>4, HandleList DEF Inv, SupTypeOK
  <2> QED BY <1>1, <2>1, JobsStay DEF Inv
<1>7. Supervised'
  BY <1>1, <1>4, Tasks DEF Inv, Supervised, BeforeCancel, Waiting, Leaving, Announced, InnerFirst, Alive
<1> QED BY <1>5, <1>6, <1>7 DEF Inv

\* A process that is down keeps nothing but the tables.
LEMMA DownStep ==
    ASSUME Inv, Down, reason' \in {"none", "ok", "err"}
    PROVE  Inv'
<1>1. SupTypeOK' /\ JobsTypeOK'
  <2>1. SupTypeOK'
    BY HandleList, AllTasks, Zenon DEF Down, SupTypeOK
  <2> QED BY <2>1, AbandonTypes DEF Inv, Down
<1> QED BY <1>1 DEF Inv, Down, Past, Supervised, BeforeCancel, Waiting, Leaving, Announced, InnerFirst, Alive

\* Boot spawns every task, or fails before the first one.
LEMMA BootStep ==
    ASSUME Inv, Boot \/ BootFails
    PROVE  Inv'
<1>1. CASE Boot
  <2>1. SupTypeOK' /\ JobsTypeOK'
    <3>1. SupTypeOK'
      BY <1>1, HandleList, AllTasks, Zenon DEF Boot, SupTypeOK
    <3>2. JobsTypeOK'
      BY <1>1, SpawnTypes, Zenon DEF Boot, Inv
    <3> QED BY <3>1, <3>2
  <2>2. Supervised' /\ Past'
    BY <1>1, Tasks DEF Boot, Past, Supervised, BeforeCancel, Waiting, Leaving, Announced, InnerFirst, Alive
  <2> QED BY <2>1, <2>2 DEF Inv
<1>2. CASE BootFails
  <2>1. /\ sv = "down" /\ reason' = "err" /\ (\E js : spawn_unique(js))
        /\ UNCHANGED <<sv, at, task, inner, channel, cancel, serving, recovered, row, todo>>
    BY <1>2, Zenon DEF BootFails
  <2>2. SupTypeOK' /\ JobsTypeOK'
    <3>1. SupTypeOK'
      BY <2>1 DEF Inv, SupTypeOK
    <3>2. JobsTypeOK'
      BY <2>1, SpawnTypes, Zenon DEF Inv
    <3> QED BY <3>1, <3>2
  <2> QED BY <2>1, <2>2 DEF Inv, Past, Supervised, BeforeCancel, Waiting, Leaving, Announced, InnerFirst, Alive
<1> QED BY <1>1, <1>2

\* The jobs touch nothing of the supervisor.
LEMMA JobStep ==
    ASSUME Inv, UNCHANGED supVars, recovered' \in BOOLEAN, JobsTypeOK'
    PROVE  Inv'
<1>1. UNCHANGED <<sv, at, task, inner, channel, cancel, serving, reason>>
  BY DEF supVars
<1>2. SupTypeOK'
  BY <1>1 DEF Inv, SupTypeOK
<1> QED BY <1>1, <1>2 DEF Inv, Past, Supervised, BeforeCancel, Waiting, Leaving, Announced, InnerFirst,
           Alive

\* Before the first boot nothing runs.
LEMMA InitInv == Init => Inv
<1> SUFFICES ASSUME Init PROVE Inv
  OBVIOUS
<1>1. SupTypeOK
  BY HandleList, AllTasks, Zenon DEF Init, SupTypeOK
<1>2. JobsTypeOK
  BY FS_EmptySet, JobsAssumption DEF Init, InitJobs, JobsTypeOK
<1> QED BY <1>1, <1>2 DEF Init, Inv, Past, Supervised, BeforeCancel, Waiting, Leaving, Announced,
           InnerFirst, Alive

\* Every step of the process and of its jobs keeps the invariant.
LEMMA NextInv ==
    ASSUME Inv, [Next]_vars
    PROVE  Inv'
<1>0. JobsTypeOK /\ recovered \in BOOLEAN /\ reason \in {"none", "ok", "err"}
  BY DEF Inv, SupTypeOK
<1>1. CASE shutdown_jobs \/ Kill
  BY <1>0, <1>1, DownStep DEF shutdown_jobs, Kill
<1>2. CASE run_recovery_sweep
  BY <1>0, <1>2, JobStep DEF run_recovery_sweep, JobsTypeOK, JobType
<1>3. CASE PollStart \/ PollEnd \/ \E r \in Row : PollVisit(r)
  <2>1. UNCHANGED <<supVars, recovered>> /\ (StartTick \/ EndTick \/ \E r \in Row : Visit(r))
    BY <1>3, Zenon DEF PollStart, PollEnd, PollVisit
  <2> QED BY <1>0, <2>1, TickTypes, JobStep
<1>4. CASE UNCHANGED vars
  BY <1>0, <1>4, JobsStay, JobStep DEF vars
<1> QED BY <1>1, <1>2, <1>3, <1>4, ServerStep, ConsumerStep, SubscriptionStep, SignalStep, RecvStep,
           AwaitStep, BootStep DEF Next

\* The invariant holds in every reachable state.
THEOREM InvHolds == Spec => []Inv
BY InitInv, NextInv, PTL DEF Spec

------------------------------------------------------------------------------
(* Theorems *)

\* Every task, flag and job of run_cmd keeps its type, the channel of exit
\* reasons holds at most one, and a tick lists no more rows than its limit.
THEOREM ProcessTypes == Spec => []TypeOK
<1>1. Inv => TypeOK
  BY DEF Inv, TypeOK, SupTypeOK, TaskState
<1> QED BY <1>1, InvHolds, PTL

\* run_cmd returns Ok only after a SIGTERM or SIGINT, whichever task's report the
\* supervisor took first and whatever reports the full channel dropped.
THEOREM SuccessMeansSignal == Spec => []CleanExitOnlyOnSignal
<1>1. Inv => CleanExitOnlyOnSignal
  BY DEF Inv, SupTypeOK, Supervised, Waiting, Leaving, CleanExitOnlyOnSignal, Alive
<1> QED BY <1>1, InvHolds, PTL

\* The token is cancelled only after NotServing and the grace window, except on
\* the way out of a failure.
THEOREM DrainIsAnnounced == Spec => []DrainAnnounced
<1>1. Inv => DrainAnnounced
  BY DEF Inv, SupTypeOK, Supervised, Waiting, Leaving, DrainAnnounced, Alive
<1> QED BY <1>1, InvHolds, PTL

\* When the supervisor is past a handle its task has stopped, and a subscription
\* task that ended by itself leaves no consumer behind.
THEOREM DrainInOrder == Spec => []DrainedInOrder
<1>1. Inv => DrainedInOrder
  BY DEF Inv, Past, Supervised, InnerFirst, DrainedInOrder, Alive
<1> QED BY <1>1, InvHolds, PTL
==============================================================================
