SPECIFICATION Spec
CONSTANTS
    A = A
    S = S
    NC = NC
    NoByte = NoByte
    KEY = {A, S}
    SHIFT = {S}
    NONREP = {}
    key = key
    user = user
    OWNER = {key, user}
    BUF = 2
    CTR = 4
    COMMANDS = {"repeat", "type"}
    RESETS = TRUE
    THREADED = FALSE
INVARIANTS
    TypeOK
    HeldKeysAreKnown
    RepliesAreWhole
    QueueIsServed
    ByteIsAnnounced
PROPERTIES
    ImplementsQueue
SYMMETRY OwnerSymmetry
