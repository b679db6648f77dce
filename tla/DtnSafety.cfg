SPECIFICATION FairSpec
CONSTANTS
    Windows = {w1, w2}
    MaxId = 2
    Types = {"sos", "text"}
    VoiceTTL = 1
    DefaultTTL = 1
    MaxRetries = 0
    Limit = 2
    MaxCrashes = 1
INVARIANTS
    TypeOK
    NoOrphan
    SosFirst
PROPERTIES
    SosKept
    DeliveredStays
    SosRetried
