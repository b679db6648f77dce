SPECIFICATION FairSpec
CONSTANTS
    e1 = e1
    e2 = e2
    packet = packet
    noise = noise
    junk = junk
    Entries <- MCEntries
    Data <- MCData
    Unreadable <- MCUnreadable
    Malformed <- MCMalformed
    Fast = 1
    Slow = 2
    ErrorWait = 2
    TTL = 7
    Limit = 1
    Busy = 2
    MaxStops = 1
INVARIANTS
    TypeOK
    NoGap
PROPERTIES
    OnePost
    HeardIsRouted
    PollsAgain
