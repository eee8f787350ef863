SPECIFICATION FairSpec
CONSTANTS
    NoId = NoId
    Flames = Flames
    Timer = Timer
    Key = Key
    ID = {Flames, Timer, Key}
    EVENTCLOCK = {0, 1, 3}
    COST = {1, 2}
    MULTIPLE = {2, 3}
    MAXCLOCK = 4
    WRAP = 2
    INTMAX = 5
    OVERSHOOT = 1
    MAXCALLS = 1
INVARIANTS
    TypeOK
    NoDuplicates
    LevelSorted
    NoOversleep
PROPERTIES
    OnlyCpuMovesTime
    CalledWhenDue
    ImplementsTimerSet
    NoStarvation
