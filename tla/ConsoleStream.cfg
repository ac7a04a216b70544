\* Either RFB messages are packed together, or pixel data resembles a control
\* message, never both.
SPECIFICATION StreamSpec
CONSTANTS
    HandshakeLen = 3
    Offsets <- MCOffsets
    Kinds <- MCKinds
    BufferSize = 2
    MaxChunk = 4
    MaxControls = 3
    Habits = {{"packs"}, {"resembles"}}
INVARIANTS
    StreamIntact
    ControlsHandled
    NoMutualWait
