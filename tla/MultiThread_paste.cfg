SPECIFICATION FairSpec
CONSTANTS
    HANDLERS = {"command", "paste"}
    NESTED = {"input"}
    DEPTH = 2
    PASTED = 1
PROPERTIES
    HandlersEnd
