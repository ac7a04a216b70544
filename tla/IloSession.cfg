\* One typist, one management request and two mounts beside the reader and Close.
SPECIFICATION SafetySpec
SYMMETRY Symmetry
CONSTANTS
    Typists = {t1}
    Managers = {g1}
    Mounts = {m1, m2}
    reader = reader
    closer = closer
    first = first
    None = None
    Legacy = FALSE
INVARIANTS
    KeysUpAtRest
    ChordUnbroken
    RequestLoggedIn
    NothingLeftBehind
