SPECIFICATION FairLineSpec
CONSTANTS
    Processes = {s1, s2}
    First = s1
    Nobody = Nobody
    Letters = {"c"}
    MaxKeys = 6
    VGA_WIDTH = 6
    LineBytes = 4
    ArgBytes = 2
    MaxArgs = 1
INVARIANTS
    LineTypeOK
    ResumesExact
    SafeToInterrupt
    KeysInOrder
    LineIsEdited
    EchoIsLine
    ParsedWords
PROPERTIES
    KeyServed
