\* Four whole sectors and a half; reads of two sectors are short, of three long.
SPECIFICATION CdSpec
CONSTANTS
    Size = 9
    Sector = 2
    Chunk = 4
    Blocks = {0, 2, 3}
    MaxBytes = 2
    Absent = Absent
INVARIANTS
    FramesWhole
    CapacityExact
PROPERTIES
    SessionEnds
