SPECIFICATION Spec
CONSTANTS
    Windows = {w1}
    MaxId = 1
    Types = {"sos", "text"}
    VoiceTTL = 1
    DefaultTTL = 2
    MaxRetries = 5
    Limit = 2
    MaxCrashes = 0
INVARIANT RetryLimit
