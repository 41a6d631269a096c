SPECIFICATION SpecAdmission
CONSTANTS
  u1 = u1
  u2 = u2
  w1 = w1
  k1 = k1
  q1 = q1
  q2 = q2
  User = {u1, u2}
  Wallet = {w1}
  Key = {k1}
  Request = {q1, q2}
  Ttl = 2
  FetchMax = 1
  PruneAt = 1
  U64 = 134217728
  U32 = 100000
  Supply = 20000
  AskedSat = {0, 1, 20000, 134218}
  AskedMinutes = {1440, 2000}
  InvoiceMsat = {1500, 2099500, 2100001}
  FeeMsat = {9999, 10001}
  Overpay = {0, 999}
SYMMETRY Symmetry
INVARIANTS SpendCovered InvoiceAsAsked
PROPERTY GrantFresh
