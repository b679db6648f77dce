SPECIFICATION Spec
CONSTANTS
    Codecs = {"CODEC2_700C", "LYRA_3200"}
    MaxPayload = 70
    ChunkHeader = 10
    MetaBytes = 16
    Parity = 32
    Correctable = 16
    SeqWidth = 4
    TotalWidth = 3
    VoiceBudget = 29
    Lengths = {1, 16, 35}
    Modes = {"CODEC2_700C", "CODEC2_1300", "LYRA_3200"}
    Home = "CODEC2_700C"
    NoCodec = 320
    Native = {"CODEC2_700C", "CODEC2_1300"}
    MaxFrames = 2
    Players = {a1}
    MaxTakes = 2
    MaxPlays = 1
    Messages = {m1, m2}
    Nodes = {n1, n2}
    MaxSeen = 1
    KeptSeen = 1
    MaxTtl = 2
    MaxForgets = 1
    UsedBands = {"AMATEUR", "ISM"}
    Peers = {p1, p2}
    Strongest = 1
    Patience = 2
    MeshTime = 3
    Numbers = {2, 3}
    MaxBlocks = 2
    BundleTime = 2
    MaxDamage = 1
    Stations = {x, y}
    IdWidth = 2
    TheirIds = {i1}
    NoId = NoId
    MaxSent = 2
    BridgeTime = 1
    Digipeaters = {0, 1}
    Ssids = {15, 16}
    Types = {"=", "@", ";", ")", ":", "T", ">"}
    InfoLengths = {0, 1, 2, 11, 14, 19, 20, 26, 27, 29, 37, 44}
    Satellites = {s1, s2}
    Geometries = {0, 2}
    MaxReports = 2
    Clients = {c1, c2}
    Frequencies = {f1, f2}
    Steps = 2
    HistoryMax = 1
    LogMax = 1
    MaxPackets = 2
    FrameRoom = 69
    SequenceWidth = 3
    Payloads = {0, 1, 6, 68, 69, 70, 125, 138, 139, 192, 193, 200, 240}
    Starts = {0, 2}
    Bundles = {1, 2}
    Glimpse = 1
    Budget = 4
    Window = 4
    Dopplers = {0, 6000}
    Durations = {3}
    PassTime = 3
    MaxPasses = 2
    MaxSlips = 1
INVARIANTS
    TypeOK
    VoiceSound
    MeshSound
    BundleSound
    AprsSound
    StationSound
    PassSound
CHECK_DEADLOCK FALSE
