\* SPM instructions may be dropped: the loader, the keys and the timeout make progress.
SPECIFICATION FairSpec
CONSTANTS
    LastPage = 3
    BootStart = 3
    RebootPage = 1
    PacketsPerPage = 2
    BootTimeout = 1
    a = a
    b = b
    c = c
    Data = {a, b, c}
    Blank = Blank
    Corrupt = Corrupt
    NoRequest = NoRequest
    NoData = NoData
    Images <- MCTwoImages
    Faults <- SpmFaults
PROPERTIES
    LoaderReturns
    KeysReachBootloader
    ApplicationStarts
