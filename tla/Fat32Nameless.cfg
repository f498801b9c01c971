SPECIFICATION Spec
CONSTANTS
    NCluster = 5
    NRow = 4
    SectorEntries = 4
    SectorRows = 3
    ClusterSize = 2
    Names = {a, zero}
    ZeroName = zero
    RootName = root
    DotDot = dotdot
    Payloads = {p}
    NoPayload = none
    Sizes = {0, 1, 3}
INVARIANTS
    CacheCoherent
    NamesUnique
    Reserved
