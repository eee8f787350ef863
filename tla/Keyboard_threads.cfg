SPECIFICATION Spec
CONSTANTS
    A = A
    S = S
    NC = NC
    NoByte = NoByte
    KEY = {A, S}
    SHIFT = {S}
    NONREP = {}
    key = key
    user = user
    OWNER = {key}
    BUF = 2
    CTR = 4
    COMMANDS = {}
    RESETS = FALSE
    THREADED = TRUE
INVARIANTS
    ReleasedKeysAreUp
