SPECIFICATION FairSpec
CONSTANTS
    MaxSeq = 2
    BatchSize = 2
    MaxBackfill = 2
    MaxNtf = 1
    BufCap = 1
    Faults = {"listen_drop"}
PROPERTY MissedRecovered
CHECK_DEADLOCK FALSE
