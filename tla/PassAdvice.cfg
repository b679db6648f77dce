SPECIFICATION Spec
CONSTANTS
    Requests = {r1}
    Names = {ann, bob}
    Emails = {mail}
    NoEmail = none
    Codes = {beta}
    MaxUses = 1
    MaxFaults = 1
    Slots = {s1}
    Limit = 2
    Hour = 2
    Day = 3
    TokenLife = 3
    MaxStored = 2
    MaxRows = 1
    Page = 1
    Catalog = {iss, noaa}
    Clients = {c1}
    MaxChanges = 1
    Sizes = {16, 120}
    Budget = 400
    Elevations = {40, 70}
    Waiting = 1
    Times = 2
    Symbols = {"word"}
    MaxLength = 1
    MaxCalls = 1
    Satellites = {fossa2e, fossa2e4}
    Short = fossa2e
    Users = {u1}
    Ahead = 4
    Far = 9
    Steps = 6
INVARIANT AdviceIsCurrent
CHECK_DEADLOCK FALSE
