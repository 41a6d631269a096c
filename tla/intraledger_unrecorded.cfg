SPECIFICATION FairSpecAll
CONSTANTS
    Hash = {h1}
    Sender = {s1}
    ChanCap = 1
    MaxAmt = 1
    Faults = {}
    SymphonyFails = FALSE
PROPERTIES
    TransferRecorded
CHECK_DEADLOCK FALSE
