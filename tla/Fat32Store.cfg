SPECIFICATION Spec
CONSTANTS
    NCluster = 5
    NRow = 4
    SectorEntries = 4
    SectorRows = 3
    ClusterSize = 2
    Names = {a, b}
    ZeroName = zero
    RootName = root
    DotDot = dotdot
    Payloads = {p, q}
    NoPayload = none
    Sizes = {0, 2, 3}
INVARIANTS
    TypeOK
    EntryAllocated
    LinkAllocated
    NoSharedCluster
    DirectoryAllocated
    DotDotIsParent
PROPERTIES
    ImplementsStore
    CallReturns
