SPECIFICATION Spec
CONSTANTS
    Requests = {r1, r2, r3}
    Names = {ann, bob}
    Emails = {mail}
    NoEmail = none
    Codes = {beta}
    MaxUses = 1
    MaxFaults = 1
    Slots = {s1, s2}
    Limit = 2
    Hour = 2
    Day = 3
    TokenLife = 3
    MaxStored = 5
    MaxRows = 3
    Page = 1
    Catalog = {iss, noaa}
    Clients = {c1, c2}
    MaxChanges = 2
    Sizes = {16, 120}
    Budget = 400
    Elevations = {40, 70}
    Waiting = 3
    Times = 2
    Symbols = {"word", "phrase", "stop", "point", "minus", "number", "far", "break", "accent", "script", "control", "raw"}
    MaxLength = 3
    MaxCalls = 2
    Satellites = {fossa2e, fossa2e4}
    Short = fossa2e
    Users = {u1}
    Ahead = 4
    Far = 9
    Steps = 6
SYMMETRY Symmetry
INVARIANTS
    TypeOK
    OneOwner
    InviteSound
    HourlyLimit
    ReadComplete
    RadioAnswers
CHECK_DEADLOCK FALSE
