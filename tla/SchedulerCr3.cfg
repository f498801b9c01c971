SPECIFICATION Spec
CONSTANTS
    NProc = 3
    NFrame = 6
    NPageDir = 5
    CountMod = 4
    FrameNeeds = {0, 1, 2}
INVARIANTS
    Cr3OfRunning
