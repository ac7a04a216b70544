\* A modern or legacy iLO or a Dell controller, with and without an image on the
\* command line; one mount at a time.
SPECIFICATION Spec
CONSTANTS
    Mounters = {m1}
    connector = connector
    share = share
    None = None
CHECK_DEADLOCK FALSE
INVARIANTS
    EverythingOwned
PROPERTIES
    WindowEnds
    LostReleased
