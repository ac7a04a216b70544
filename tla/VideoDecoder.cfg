\* One colour more than the cache has slots, so that a full cache evicts, and a
\* block long enough to use them all.
SPECIFICATION Spec
CONSTANTS
    Colors = {c1, c2, c3, c4, c5}
    Slots = 4
    BlockSize = 4
    HalfBlock = 1
    FatalLimit = 2
CHECK_DEADLOCK FALSE
INVARIANTS
    FanFresh
PROPERTIES
    KeepsList
    LatchedAsks
