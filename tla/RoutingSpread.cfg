SPECIFICATION FairSpec
CONSTANTS
    o = o
    r1 = r1
    r2 = r2
    d = d
    Nodes <- MCNodes
    Origin <- o
    Dest <- d
    SprayCopies = 2
    MaxHops = 2
    TTL = 1
    MaxDups = 1
CHECK_DEADLOCK FALSE
INVARIANTS
    TypeOK
    DeliveredOnce
    CopyBudget
PROPERTIES
    BundleDies
    MeetingDelivers
