\* Transfers of 3 and 8 bytes, which end inside a sector, at the end of one
\* or with the track, on one side or both; commands of both drives that
\* overlap; one change of a disk, reset or pause of the channel.
SPECIFICATION FairSpec
CONSTANTS
    LENGMOD = 8
    Drives = {0, 1}
    EOT = 2
    BYTES = 2
    DELAY = 1
    Lengths = {2, 7}
    Bad <- MCBad
    COMMANDS = 2
    MISHAPS = 1
INVARIANTS
    TypeOK
    TransferIsExact
    ChannelServesPhase
    WorkingIsStepped
PROPERTIES
    CommandEnds
    SeekIsSensed
