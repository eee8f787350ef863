\* Two different packets, a ring with room for two: it wraps and fills.
SPECIFICATION FairSpec
CONSTANTS
    ARYLEN = 3
    Packets = {a, b}
    NoPacket = NoPacket
    a = a
    b = b
INVARIANTS
    TypeOK
PROPERTIES
    ImplementsPacketQueue
    HeadIsWritten
    CloseEnds
