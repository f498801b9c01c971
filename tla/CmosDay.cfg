SPECIFICATION Spec
CONSTANTS
    Starts <- MCStarts
    MaxTick = 1
INVARIANTS
    DayInWib
