SPECIFICATION FairSpec
CONSTANTS
    MaxSeq = 3
    BatchSize = 2
    MaxBackfill = 2
    MaxNtf = 1
    BufCap = 1
    Faults = {"overlap", "listen_drop", "listen_late", "row_error", "read_error", "gone"}
INVARIANT TypeOK
INVARIANT StatusProtocol
INVARIANT PaidMeansSettled
PROPERTY StreamCompletes
CHECK_DEADLOCK FALSE
