SPECIFICATION FairGuest
CONSTANTS
    LINES = 3
    TIMER = 0
    CRTV = 1
    SLAVE = 2
    INPUTS <- SlaveInputs
    THREADED = {}
    MASKS = {{}}
    COMMANDS = {}
    INITS = {}
    MODES = {}
    NoCopy = NoCopy
    MAXREQUESTS = 3
INVARIANTS
    InServiceIsAtWork
    BoundedNesting
PROPERTIES
    RequestsAreServed
