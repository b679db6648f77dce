SPECIFICATION Spec
CONSTANTS
    Windows = {w1}
    MaxId = 2
    Types = {"sos", "text"}
    VoiceTTL = 1
    DefaultTTL = 2
    MaxRetries = 2
    Limit = 2
    MaxCrashes = 0
PROPERTY DeliveredIsFinal
