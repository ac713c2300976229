\* Consistency: one host with its wildcard and two overlapping loads
\* while its route is removed and either key is invalidated.  No symmetry: liveness is checked.
CONSTANTS
    a = a
    b = b
    d = d
    w = w
    None = None
    Err = Err
    Keys = {a, w}
    Cands <- WildHost
    Callers = {p1}
    Loads = {l1, l2}
    MaxEntries = 1
    MaxInflight = 2
    Ttl = 1
    Jitter = 1
    NegativeTtl = 1
    StaleIfError = 1
    LoadTimeout = 1
    FirstVersion <- WildRoute
    MaxVersion = 2
    AgeCap = 5
SPECIFICATION Spec
INVARIANTS
    SeesInvalidation
    OutdatedBounded
PROPERTIES
    WaiterAnswered
    NeverGoesBack
CHECK_DEADLOCK FALSE
