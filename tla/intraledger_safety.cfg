SPECIFICATION SpecAll
CONSTANTS
    Hash = {h1}
    Sender = {s1, s2}
    ChanCap = 1
    MaxAmt = 1
    Faults = {"crash", "db", "disconnect", "rpc"}
    SymphonyFails = TRUE
SYMMETRY Requests
INVARIANTS
    TransferAtomic
    OneSuccess
    RowStillAgrees
