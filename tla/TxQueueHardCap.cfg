SPECIFICATION Spec
CONSTANTS
    Users = {u1, u2}
    MaxId = 3
    Airtimes = {1, 2}
    Cap = 2
    MinPerUser = 1
    Window = 2
    BatchLimit = 2
    MaxHalts = 1
    MaxFaults = 0
INVARIANT HardCap
