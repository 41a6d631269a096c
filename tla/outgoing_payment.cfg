SPECIFICATION FairSpec
CONSTANTS
    Hash = {h1}
    Sender = {s1, s2}
    ChanCap = 2
    Faults = {"crash", "db", "disconnect", "symphony", "lookup", "malformed"}
    SlowRequests = TRUE
INVARIANTS
    TypeOK
    HoldBeforeLnd
    OutboxMatchesRow
    ReplyTruthful
    CompletedOnlyIfPaid
    FailedOnlyIfUnpaid
PROPERTIES
    TerminalIsFinal
    ImplementsLedger
    StrandedResolves
    ReplayResolves
