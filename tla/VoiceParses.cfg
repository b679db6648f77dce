SPECIFICATION Spec
CONSTANTS
    Codecs = {"CODEC2_700C", "LYRA_3200"}
    FrameBytes <- BytesOfFrame
    MaxPayload = 70
    ChunkHeader = 10
    MetaBytes = 16
    Parity = 32
    Correctable = 16
    SeqWidth = 65536
    TotalWidth = 256
    Budget = 29
    Lengths = {1, 40, 600}
INVARIANT EveryPacketParses
CHECK_DEADLOCK FALSE
