SPECIFICATION Spec
CONSTANTS
    Hash = {h1}
    Sender = {s1}
    ChanCap = 1
    Faults = {"send_error"}
    SlowRequests = FALSE
INVARIANTS
    FailedOnlyIfUnpaid
