\* The window thread may wait for ever with the emulation thread (the findings
\* of the other two runs), so that deadlock is not an error here.
SPECIFICATION FairTracedSpec
CONSTANTS
    HANDLERS = {"command", "screen", "input", "pause", "paste", "config"}
    NESTED = {"command", "screen", "input", "pause", "paste", "config"}
    DEPTH = 3
    PASTED = 2
INVARIANTS
    TypeOK
    CountedIsStill
PROPERTIES
    ApartHandlersEnd
    ApartGoesOn
CHECK_DEADLOCK FALSE
