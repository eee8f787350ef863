\* A ring of five pages, with room asked for two, and frames of one to five: it
\* wraps, fills, can be filled to the brim, and a frame can run over others.
SPECIFICATION CardSpec
CONSTANTS
    ARYLEN = 2
    Packets = {}
    NoPacket = NoPacket
    START = 1
    STOP = 6
    FRAME = 2
    Data = {x}
    NoFrame = NoFrame
    x = x
INVARIANTS
    UnreadIsKept
    PendingIsAnnounced
