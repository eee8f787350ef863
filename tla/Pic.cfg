SPECIFICATION Spec
CONSTANTS
    LINES = 3
    TIMER = 0
    CRTV = 1
    SLAVE = 2
    INPUTS <- SlaveInput
    THREADED <- SlaveInput
    MASKS <- TimerMasks
    COMMANDS <- SomeCommands
    INITS = {FALSE, TRUE}
    MODES = {FALSE, TRUE}
    NoCopy = NoCopy
INVARIANTS
    TypeOK
PROPERTIES
    NestsByPriority
    LetThroughIsTaken
    KeepsRequests
    KeepsVsync
