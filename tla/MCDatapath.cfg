SPECIFICATION SuiteSpec
CONSTANTS
    Parts = {"buffers", "codec", "edit", "pipeline", "hmap", "ofpbuf", "mac_learning", "shutdown"}
    Packet = {p1, p2, p3}
    NULL = NULL
    N_PKT_BUFFERS = 2
    N_COOKIES = 3
    OVERWRITE_SECS = 2
INVARIANTS
    NoDanglingPacket NoPacketLeaked    
PROPERTIES HeldUntilTimeout ContentsKept
SYMMETRY PacketSymmetry
