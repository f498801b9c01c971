SPECIFICATION Spec
CONSTANTS
    Starts <- MCStarts
    MaxTick = 3
INVARIANTS
    TypeOK
    Snapshot
    ClockFaceInWib
PROPERTIES
    ReadReturns
