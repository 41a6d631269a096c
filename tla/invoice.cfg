SPECIFICATION FairSpec
CONSTANTS
    Hash = {h1}
    ChanCap = 2
    MaxAmt = 2
    Faults = {"unloaded", "crash", "db", "disconnect", "malformed", "lookup", "rpc", "overpay"}
INVARIANTS
    RowAgreesWithLnd
    HeldBeforeSettle
    PendingNets
    PayableHasRow
    ReturnedIsWatched
PROPERTIES
    TerminalIsFinal
    ImplementsLedger
    HeldResolves
    AcceptedIsTaken
    CancelReachesRow
