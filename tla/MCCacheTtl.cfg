\* The documented consistency bound, against the code.
CONSTANTS
    a = a
    b = b
    d = d
    w = w
    None = None
    Err = Err
    Keys = {d}
    Cands <- OneHost
    Callers = {p1}
    Loads = {l1, l2}
    MaxEntries = 1
    MaxInflight = 2
    Ttl = 2
    Jitter = 1
    NegativeTtl = 1
    StaleIfError = 1
    LoadTimeout = 1
    FirstVersion <- NoRoutes
    MaxVersion = 2
    AgeCap = 6
SPECIFICATION Spec
INVARIANTS
    VisibleWithinTtl
CHECK_DEADLOCK FALSE
