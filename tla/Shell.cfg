SPECIFICATION ShellSpec
CONSTANTS
    NCluster = 5
    NRow = 4
    SectorEntries = 4
    SectorRows = 3
    ClusterSize = 2
    Names = {a, b}
    ZeroName = zero
    RootName = root
    DotDot = dotdot
    Payloads = {p, unread}
    NoPayload = none
    Sizes = {0, 2, 3}
    Shells = {s1}
    Unread = unread
    MaxPath = 4
SYMMETRY NameSymmetry
INVARIANTS
    ShellTypeOK
    CopyIsCurrent
    PathIsCurrent
    MvMoves
    FindFinds
    NoLeak
