SPECIFICATION FairSpec
CONSTANTS
    A = A
    NC = NC
    NoByte = NoByte
    KEY = {A}
    SHIFT = {}
    NONREP = {}
    key = key
    OWNER = {key}
    BUF = 2
    CTR = 4
    COMMANDS <- AllCommands
    RESETS = TRUE
    THREADED = FALSE
PROPERTIES
    KeyReachesGuest
    CommandIsAnswered
