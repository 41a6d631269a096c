SPECIFICATION FairSpec
CONSTANTS
    MaxSeq = 4
    BatchSize = 2
    MaxBackfill = 3
    MaxNtf = 2
    ChanCap = 1
    Faults = {"overlap", "listen_drop", "listen_late", "read_error", "row_error", "gone"}
INVARIANT InOrder
INVARIANT Gapless
PROPERTY Delivered
