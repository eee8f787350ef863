SPECIFICATION Spec
CONSTANTS
    HANDLERS = {"command"}
    NESTED = {"command"}
    DEPTH = 2
    PASTED = 0
INVARIANTS
    SuspendedIsStill
