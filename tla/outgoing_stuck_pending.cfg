SPECIFICATION FairSpec
CONSTANTS
    Hash = {h1}
    Sender = {s1}
    ChanCap = 1
    Faults = {}
    SlowRequests = FALSE
PROPERTIES
    SubscriptionResolves
