\* Two writers, one reader and Close on one connection; the send buffer is full
\* after one frame, and a message may come in two fragments around a ping.
SPECIFICATION Spec
CONSTANTS
    Writers = {w1, w2}
    reader = reader
    closer = closer
    None = None
    MaxMessages = 2
    MaxPings = 1
    InFlight = 1
    SendBuffer = 1
CHECK_DEADLOCK FALSE
INVARIANTS
    MessagesWhole
    NothingAfterClose
    OrderlyEnd
PROPERTY CloseReturns
