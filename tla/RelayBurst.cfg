SPECIFICATION FairSpec
CONSTANTS
    MaxId = 3
    Airtimes = {1, 2}
    MaxAir = 2
    Budget = 3
    Guess = 1
    Window = 2
    MaxStops = 1
INVARIANTS
    TypeOK
    EachOnce
    Overshoot
PROPERTIES
    BufferDrains
    ListensAgain
    ImplementsFifo
