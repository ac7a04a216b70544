SPECIFICATION ChannelSpec
CONSTANTS
    Size = 6
    CdBlock = 2
    InitialBlocks = 2
    MaxPerRead = 3
    Starts = {2, 4}
    Counts = {0, 2, 4}
    BlockSizes = {0, 1, 4}
    MaxMessages = 2
    MaxBeats = 1
INVARIANTS
    NothingUpWhenDone
    AnswersInOrder
PROPERTIES
    ChannelEnds
