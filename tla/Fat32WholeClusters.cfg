SPECIFICATION PoweredSpec
CONSTANTS
    NCluster = 5
    NRow = 3
    SectorEntries = 4
    SectorRows = 3
    ClusterSize = 2
    Names = {a}
    ZeroName = zero
    RootName = root
    DotDot = dotdot
    Payloads = {p}
    NoPayload = none
    Sizes = {2, 4}
INVARIANTS
    FilesWhole
