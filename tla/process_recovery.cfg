SPECIFICATION FairSpec
CONSTANTS
  r1 = r1
  Row = {r1}
  Stuck = {}
  Server = {"grpc"}
  LndConfigured = TRUE
  Limit = 1
  Faults = {"kill"}
PROPERTY RecoversEachBoot
