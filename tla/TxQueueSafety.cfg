SPECIFICATION FairSpec
CONSTANTS
    Users = {u1, u2}
    MaxId = 3
    Airtimes = {1, 2}
    Cap = 3
    MinPerUser = 1
    Window = 2
    BatchLimit = 2
    MaxHalts = 1
    MaxFaults = 1
INVARIANTS
    TypeOK
    CapOnceWarm
    AtMostOnce
    LogTruthful
PROPERTY QueueDrains
