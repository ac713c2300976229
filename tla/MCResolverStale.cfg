\* The documented meaning of stale_until, against the code.
CONSTANTS
    Names = {n1}
    Callers = {p1}
    Tasks = {t1, t2}
    MaxConcurrent = 1
    Ttl = 1
    NegativeTtl = 2
    StaleIfError = 1
    PruneThreshold = 9
    MaxVersion = 0
    None = None
    Err = Err
SPECIFICATION Spec
INVARIANTS
    NotUsedPastStaleUntil
CHECK_DEADLOCK FALSE
