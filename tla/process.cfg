SPECIFICATION FairSpec
CONSTANTS
  r1 = r1
  r2 = r2
  r3 = r3
  Row = {r1, r2, r3}
  Stuck = {r1}
  Server = {"grpc"}
  LndConfigured = TRUE
  Limit = 2
  Faults = {"boot", "server", "panic", "kill"}
INVARIANTS CleanExitOnlyOnSignal DrainAnnounced DrainedInOrder
PROPERTIES StopsOnceTold SweepReaches ErrorIsKept
