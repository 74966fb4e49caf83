\* The comment on RunBootloader against the handler's busy-waits.
SPECIFICATION FairSpec
CONSTANTS
    LastPage = 3
    BootStart = 3
    RebootPage = 1
    PacketsPerPage = 2
    BootTimeout = 1
    a = a
    b = b
    c = c
    Data = {a, b, c}
    Blank = Blank
    Corrupt = Corrupt
    NoRequest = NoRequest
    NoData = NoData
    Images <- MCTwoImages
    Faults <- NoFaults
PROPERTIES
    ClearedFlagAborts
