\* One caller that types, unmounts and closes without overlapping its calls,
\* and two MountISO calls beside it.
CONSTANTS
    Usages = {f1}
    Shiftable = {}
    Modifiers = {}
    Shifts = {}
    Threads = {t1}
    Mounts = {m1, m2}
    reader = reader
    None = None
\* A Connect that fails is the end of its session.
CHECK_DEADLOCK FALSE
SPECIFICATION Spec
INVARIANTS
    NoKeyStuck
    NothingOnTheBooks
    MediaReachable
PROPERTIES
    SessionEnds
