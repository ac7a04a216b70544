\* Two OpenOnce calls that may share an id, a client that uses and closes
\* sessions, the sweeper, and Manager.Close.
CONSTANTS
    Opens = {o1, o2}
    Ids = {i1, i2}
    Keys = {k1, k2}
    Clients = {u1}
    None = None
SPECIFICATION Spec
INVARIANTS
    OneOwner
    NothingLeftBehind
PROPERTIES
    ConsolesEnd
