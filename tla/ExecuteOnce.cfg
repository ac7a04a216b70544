\* More ids than the ledger keeps, so that finished records are evicted while
\* other calls run and wait.
CONSTANTS
    Calls = {c1, c2, c3}
    Ids = {i1, i2}
    Keys = {k1, k2}
    MaxOperations = 1
    None = None
SPECIFICATION Spec
INVARIANTS
    NoConcurrentExecution
    AnsweredFromSettledTwin
    RepeatedOnlyIfForgotten
PROPERTY WaitersReturn
