SPECIFICATION InputSpec
CONSTANTS
    Vendor = "ilo"
    Plain = {"back", "delete"}
    AltGrKeys = {}
    Suppressed = {}
    Typable = {"back"}
    Keys = {"back", "lshift"}
    MaxText = 1
    MaxInputs = 3
INVARIANT NoStuckKey
PROPERTY EveryStrokeCounts
CHECK_DEADLOCK FALSE
