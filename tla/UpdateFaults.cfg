\* Aborted transfers, killed loaders and power failures.
SPECIFICATION Spec
CONSTANTS
    LastPage = 3
    BootStart = 3
    RebootPage = 1
    PacketsPerPage = 2
    BootTimeout = 1
    a = a
    b = b
    c = c
    Data = {a, b, c}
    Blank = Blank
    Corrupt = Corrupt
    NoRequest = NoRequest
    NoData = NoData
    Images <- MCThreeImages
    Faults <- PowerFaults
INVARIANTS
    TypeOK
    UpdateInv
    SuccessMeansFlashed
    KeyConsumed
    NeverRunsBlank
    PageProvenance
PROPERTIES
    OnlyPowerTears
    KeepsContract
